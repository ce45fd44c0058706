---------------------------- MODULE ReplayProofs ----------------------------
(***************************************************************************)
(* What instances compute from the log, on top of CoordinatorProofs.         *)
(* A replica is a prefix of the log, so its tree is the replay of a prefix,  *)
(* whichever syncs and appends it came from: every answer is that of one     *)
(* tree running the log (AnswerInv), a mutation is evaluated on the tree it  *)
(* is applied to (JudgedInv), an instance is corrupted by a batch that       *)
(* throws on the log itself (CorruptionInv), and one that fell too far       *)
(* behind to sync stays there (LagInv).  That entry ids are handed out once  *)
(* and that only an exhausted counter poisons a log needs, besides, what     *)
(* Apply and Evaluate do to a tree: the lemmas of OrderedTreeProofs.tla.     *)
(***************************************************************************)
EXTENDS CoordinatorProofs, CoordinatorRefinesLinearTree, OrderedTreeProofs

-----------------------------------------------------------------------------
(* What a log computes. *)

Mutations(batches) == [i \in DOMAIN batches |-> batches[i].mutation]

LEMMA ReplayUnfolds ==
  ASSUME NEW s \in Seq(Batch), NEW n \in 0..Len(s)
  PROVE  /\ \A k \in 1..Len(s) : IsMutation(s[k].mutation)
         /\ \E r : /\ Unfolds(r, "mutation", EmptyTree, Mutations(s), n)
                   /\ r[n] = Replay(SubSeq(s, 1, n))
<1> DEFINE u == SubSeq(s, 1, n)
<1>1. Len(s) \in Nat /\ n \in Nat /\ n <= Len(s) /\ DOMAIN s = 1..Len(s)
  BY LenProperties
<1>2. \A k \in 1..Len(s) : IsMutation(s[k].mutation)
  <2>1. \A k \in 1..Len(s) : s[k] \in Batch
    BY ElementOfSeq
  <2>2. \A k \in 1..Len(s) : s[k].mutation \in Writes
    BY <2>1 DEF Batch
  <2> QED BY <2>2, WritesAssumption
<1>3. u \in Seq(Batch) /\ Len(u) = n /\ \A k \in 1..n : u[k] = s[k]
  <2>1. /\ SubSeq(s, 0 + 1, n) \in Seq(Batch)
        /\ Len(SubSeq(s, 0 + 1, n)) = IF 0 < n THEN n - 0 ELSE 0
        /\ \A k \in 1..(n - 0) : SubSeq(s, 0 + 1, n)[k] = s[0 + k]
    BY <1>1, SliceTyped
  <2> QED BY <1>1, <2>1
<1> HIDE DEF u
<1>4. DOMAIN Mutations(u) = 1..n /\ \A k \in 1..n : Mutations(u)[k] = Mutations(s)[k]
  <2>1. DOMAIN u = 1..n
    BY <1>3, LenProperties
  <2>2. \A k \in 1..n : k \in DOMAIN s
    BY <1>1
  <2> QED BY <1>3, <2>1, <2>2, <1>1 DEF Mutations
<1>5. PICK r : /\ Unfolds(r, "mutation", EmptyTree, Mutations(u), n)
               /\ r[n] = Folded("mutation", EmptyTree, Mutations(u))
  BY <1>1, <1>4, FoldUnfolds
<1>6. r[n] = Replay(u)
  BY <1>5 DEF Replay, Run, Mutations, Seqs!FoldLeft, Seqs!MapThenFoldSet, Folded, Folds, StepOf
<1>7. Unfolds(r, "mutation", EmptyTree, Mutations(s), n)
  BY <1>4, <1>5 DEF Unfolds
<1> QED BY <1>2, <1>6, <1>7 DEF u

LEMMA ReplayOfNothing ==
  ASSUME NEW s \in Seq(Batch)
  PROVE  Replay(SubSeq(s, 1, 0)) = EmptyTree
<1>1. 0 \in 0..Len(s)
  BY LenProperties
<1>2. PICK r : Unfolds(r, "mutation", EmptyTree, Mutations(s), 0) /\ r[0] = Replay(SubSeq(s, 1, 0))
  BY <1>1, ReplayUnfolds
<1> QED BY <1>2 DEF Unfolds

(* One more batch is one more mutation on the tree so far. *)
LEMMA ReplayExtends ==
  ASSUME NEW s \in Seq(Batch), NEW n \in 1..Len(s)
  PROVE  Replay(SubSeq(s, 1, n)) = Apply(Replay(SubSeq(s, 1, n - 1)), s[n].mutation).tree
<1>1. /\ n \in 0..Len(s) /\ n - 1 \in 0..Len(s) /\ n - 1 \in Nat /\ n \in 1..n
      /\ n \in DOMAIN s /\ \A k \in 1..(n - 1) : k \in 1..n
  BY LenProperties
<1>2. PICK r : Unfolds(r, "mutation", EmptyTree, Mutations(s), n) /\ r[n] = Replay(SubSeq(s, 1, n))
  BY <1>1, ReplayUnfolds
<1>3. PICK q : /\ Unfolds(q, "mutation", EmptyTree, Mutations(s), n - 1)
               /\ q[n - 1] = Replay(SubSeq(s, 1, n - 1))
  BY <1>1, ReplayUnfolds
<1>4. Unfolds(r, "mutation", EmptyTree, Mutations(s), n - 1)
  BY <1>1, <1>2 DEF Unfolds
<1>5. r[n - 1] = q[n - 1]
  BY <1>1, <1>3, <1>4, UnfoldsAlike
<1>6. r[n] = Apply(r[n - 1], Mutations(s)[n]).tree
  BY <1>1, <1>2 DEF Unfolds, StepOf
<1>7. Mutations(s)[n] = s[n].mutation
  BY <1>1 DEF Mutations
<1> QED BY <1>2, <1>3, <1>5, <1>6, <1>7

(* The tree of a log is well-formed, and later trees follow earlier ones. *)
LEMMA ReplayIsWellFormed ==
  ASSUME NEW s \in Seq(Batch), NEW n \in 0..Len(s)
  PROVE  WellFormed(Replay(SubSeq(s, 1, n)))
<1> DEFINE T == {k \in 0..Len(s) : ~WellFormed(Replay(SubSeq(s, 1, k)))}
<1>1. ASSUME T # {} PROVE FALSE
  <2>1. PICK k \in T : \A j \in T : k <= j
    <3>1. T \subseteq Nat
      BY LenProperties
    <3> QED BY <1>1, <3>1, LeastNumber
  <2>2. k # 0
    BY <2>1, ReplayOfNothing, EmptyIsWellFormed
  <2>3. k \in 1..Len(s) /\ k - 1 \in 0..Len(s) /\ k - 1 \notin T
    BY <2>1, <2>2, LenProperties
  <2>4. WellFormed(Replay(SubSeq(s, 1, k - 1))) /\ IsMutation(s[k].mutation)
    BY <2>3, ReplayUnfolds
  <2>5. WellFormed(Replay(SubSeq(s, 1, k)))
    BY <2>3, <2>4, ReplayExtends, ApplyFollows DEF Follows
  <2> QED BY <2>1, <2>5
<1> QED BY <1>1

LEMMA ReplayFollows ==
  ASSUME NEW s \in Seq(Batch), NEW n \in 0..Len(s), NEW i \in 0..n
  PROVE  Follows(Replay(SubSeq(s, 1, n)), Replay(SubSeq(s, 1, i)))
<1> DEFINE t == Replay(SubSeq(s, 1, i))
           T == {k \in i..Len(s) : ~Follows(Replay(SubSeq(s, 1, k)), t)}
<1>0. Len(s) \in Nat
  BY LenProperties
<1>a. i \in Nat /\ i \in 0..Len(s) /\ n \in i..Len(s)
  BY <1>0
<1>b. WellFormed(t)
  BY <1>a, ReplayIsWellFormed
<1>1. ASSUME T # {} PROVE FALSE
  <2>1. PICK k \in T : \A j \in T : k <= j
    <3>1. T \subseteq Nat
      BY <1>0, <1>a
    <3> QED BY <1>1, <3>1, LeastNumber
  <2>2. k # i
    BY <1>b, <2>1, FollowsItself
  <2>3. k \in 1..Len(s) /\ k - 1 \in 0..Len(s) /\ k - 1 \in i..Len(s) /\ k - 1 \notin T
    BY <1>0, <1>a, <2>1, <2>2
  <2>4. IsMutation(s[k].mutation)
    BY <2>3, ReplayUnfolds
  <2>5. WellFormed(Replay(SubSeq(s, 1, k - 1)))
    BY <2>3, ReplayIsWellFormed
  <2>6. Follows(Replay(SubSeq(s, 1, k)), Replay(SubSeq(s, 1, k - 1)))
    BY <2>3, <2>4, <2>5, ReplayExtends, ApplyFollows
  <2>7. Follows(Replay(SubSeq(s, 1, k - 1)), t)
    BY <2>3
  <2> HIDE DEF t
  <2>8. Follows(Replay(SubSeq(s, 1, k)), t)
    BY <1>b, <2>6, <2>7, FollowsThrough
  <2> QED BY <2>1, <2>8
<1> QED BY <1>1, <1>a

-----------------------------------------------------------------------------
(* Prefixes of the log. *)

Prefix(n) == SubSeq(log, 1, n)

(* The i-th of these batches throws when they are replayed up to it. *)
Throws(batches, i) == Apply(Replay(SubSeq(batches, 1, i - 1)), batches[i].mutation).threw

(* Faces of one sequence: whatever agrees with the log is a prefix of it. *)
LEMMA AgreeingIsPrefix ==
  ASSUME TypeInv, NEW s \in Seq(Batch), Agrees(s, log)
  PROVE  s = Prefix(Len(s)) /\ Len(s) \in Nat /\ Len(s) <= Len(log)
<1>1. log \in Seq(Batch)
  BY DEF TypeInv, TypeOK
<1> QED BY <1>1, AgreementIsPrefix, LenProperties DEF Prefix

(* The front of a sequence that agrees with the log is a prefix of the log. *)
LEMMA FrontIsPrefix ==
  ASSUME TypeInv, NEW s \in Seq(Batch), Agrees(s, log), NEW n \in 0..Len(s)
  PROVE  SubSeq(s, 1, n) = Prefix(n)
<1>1. Len(s) \in Nat /\ n \in Nat /\ n <= Len(s) /\ Len(log) \in Nat /\ Len(s) <= Len(log)
  BY LenProperties, LoggedTyped DEF Agrees
<1>2. /\ SubSeq(s, 0 + 1, n) \in Seq(Batch)
      /\ Len(SubSeq(s, 0 + 1, n)) = IF 0 < n THEN n - 0 ELSE 0
      /\ \A i \in 1..(n - 0) : SubSeq(s, 0 + 1, n)[i] = s[0 + i]
  BY <1>1, SliceTyped
<1>3. SubSeq(s, 1, n) \in Seq(Batch) /\ Len(SubSeq(s, 1, n)) = n
      /\ \A i \in 1..n : SubSeq(s, 1, n)[i] = s[i]
  BY <1>1, <1>2
<1>4. Agrees(SubSeq(s, 1, n), log)
  BY <1>1, <1>3 DEF Agrees
<1> QED BY <1>3, <1>4, AgreeingIsPrefix

(* The log only grows behind its prefixes. *)
LEMMA PrefixStays ==
  ASSUME TypeInv, TypeInv', NEW o \in Ops, log' = log \/ ApplyAppend(o), NEW n \in 0..Len(log)
  PROVE  Prefix(n)' = Prefix(n) /\ (n > 0 => log'[n] = log[n])
<1>1. CASE log' = log
  BY <1>1 DEF Prefix
<1>2. CASE ApplyAppend(o)
  <2>1. /\ log \in Seq(Batch) /\ log' \in Seq(Batch) /\ Len(log) \in Nat
        /\ Len(log') = Len(log) + 1 /\ \A i \in 1..Len(log) : log'[i] = log[i]
    BY <1>2, LogGrows DEF TypeInv, TypeOK
  <2>2. n \in Nat /\ n <= Len(log) /\ n <= Len(log')
    BY <2>1
  <2>3. /\ SubSeq(log, 0 + 1, n) \in Seq(Batch)
        /\ Len(SubSeq(log, 0 + 1, n)) = IF 0 < n THEN n - 0 ELSE 0
        /\ \A i \in 1..(n - 0) : SubSeq(log, 0 + 1, n)[i] = log[0 + i]
    BY <2>1, <2>2, SliceTyped
  <2>4. /\ SubSeq(log', 0 + 1, n) \in Seq(Batch)
        /\ Len(SubSeq(log', 0 + 1, n)) = IF 0 < n THEN n - 0 ELSE 0
        /\ \A i \in 1..(n - 0) : SubSeq(log', 0 + 1, n)[i] = log'[0 + i]
    BY <2>1, <2>2, SliceTyped
  <2>5. /\ SubSeq(log, 1, n) \in Seq(Batch) /\ Len(SubSeq(log, 1, n)) = n
        /\ SubSeq(log', 1, n) \in Seq(Batch) /\ Len(SubSeq(log', 1, n)) = n
    BY <2>2, <2>3, <2>4
  <2>6. ASSUME NEW i \in 1..n PROVE SubSeq(log', 1, n)[i] = SubSeq(log, 1, n)[i]
    <3>1. i \in 1..(n - 0) /\ i \in 1..Len(log) /\ 0 + i = i /\ 0 + 1 = 1
      BY <2>1, <2>2
    <3> QED BY <2>1, <2>3, <2>4, <3>1
  <2>7. SubSeq(log', 1, n) = SubSeq(log, 1, n)
    BY <2>5, <2>6, SeqEqual
  <2>8. n > 0 => log'[n] = log[n]
    BY <2>1, <2>2
  <2> QED BY <2>7, <2>8 DEF Prefix
<1> QED BY <1>1, <1>2

(* A running call's replica, and what a sync puts behind it. *)
LEMMA RunningReplica ==
  ASSUME TypeInv, ReplicaInv, NEW o \in Ops, pc[o] = "running"
  PROVE  /\ owner[o] \in Coordinators /\ base[o] \in 0..Len(log)
         /\ applied[owner[o]] = Prefix(base[o]) /\ Len(applied[owner[o]]) = base[o]
         /\ base[o] = currentVersion[owner[o]]
<1>1. owner[o] \in Coordinators /\ ~corrupted[owner[o]] /\ base[o] = currentVersion[owner[o]]
  BY DEF ReplicaInv, RunOk, TypeInv, CallPlaced
<1>2. applied[owner[o]] \in Seq(Batch) /\ ReplicaOk(owner[o])
  BY <1>1 DEF ReplicaInv, TypeInv, TypeOK
<1>3. Agrees(applied[owner[o]], log) /\ Len(applied[owner[o]]) = base[o]
  BY <1>1, <1>2 DEF ReplicaOk
<1>4. /\ applied[owner[o]] = Prefix(Len(applied[owner[o]]))
      /\ Len(applied[owner[o]]) \in Nat /\ Len(applied[owner[o]]) <= Len(log)
  BY <1>2, <1>3, AgreeingIsPrefix
<1> QED BY <1>1, <1>3, <1>4, LoggedTyped

LEMMA UnseenIsNext ==
  ASSUME TypeInv, ReplicaInv, NEW o \in Ops, HasLog(o), NEW n \in 0..Len(Unseen(o))
  PROVE  /\ Len(Unseen(o)) \in Nat /\ base[o] + n \in 0..Len(log)
         /\ applied[owner[o]] \o SubSeq(Unseen(o), 1, n) = Prefix(base[o] + n)
         /\ Len(applied[owner[o]] \o SubSeq(Unseen(o), 1, n)) = base[o] + n
<1> DEFINE s == applied[owner[o]]
           t == SubSeq(Unseen(o), 1, n)
<1>1. /\ owner[o] \in Coordinators /\ Len(s) = base[o] /\ Len(s) \in Nat
      /\ Len(Unseen(o)) \in Nat /\ base[o] + Len(Unseen(o)) <= Len(log)
      /\ \A i \in 1..Len(Unseen(o)) : Unseen(o)[i] = log[Len(s) + i]
  BY UnseenContinues
<1>2. /\ s \in Seq(Batch) /\ log \in Seq(Batch) /\ Unseen(o) \in Seq(Batch) /\ Len(log) \in Nat
      /\ Agrees(s, log)
  BY <1>1, UnseenTyped, LoggedTyped DEF TypeInv, TypeOK, ReplicaInv, ReplicaOk
<1>3. /\ SubSeq(Unseen(o), 0 + 1, n) \in Seq(Batch)
      /\ Len(SubSeq(Unseen(o), 0 + 1, n)) = IF 0 < n THEN n - 0 ELSE 0
      /\ \A i \in 1..(n - 0) : SubSeq(Unseen(o), 0 + 1, n)[i] = Unseen(o)[0 + i]
  BY <1>1, <1>2, SliceTyped
<1>4. t \in Seq(Batch) /\ Len(t) = n /\ \A i \in 1..n : t[i] = Unseen(o)[i]
  BY <1>1, <1>3
<1> HIDE DEF s, t
<1>5. n \in Nat /\ Len(s) + n <= Len(log)
  BY <1>1, <1>2
<1>6. ASSUME NEW i \in 1..Len(t) PROVE t[i] = log[Len(s) + i]
  <2>1. i \in 1..n /\ i \in 1..Len(Unseen(o))
    BY <1>1, <1>4
  <2> QED BY <1>1, <1>4, <2>1
<1>7. Len(s) + Len(t) <= Len(log)
  BY <1>4, <1>5
<1>8. s \o t \in Seq(Batch) /\ Len(s \o t) = Len(s) + Len(t) /\ Agrees(s \o t, log)
  BY <1>2, <1>4, <1>6, <1>7, AgreesConcat
<1>9. s \o t = Prefix(Len(s \o t))
  BY <1>8, AgreeingIsPrefix
<1>10. Len(s \o t) = base[o] + n /\ base[o] + n \in 0..Len(log)
  BY <1>1, <1>2, <1>4, <1>5, <1>8
<1> QED BY <1>1, <1>9, <1>10 DEF s, t

LEMMA WholeSlice ==
  ASSUME NEW S, NEW s \in Seq(S)
  PROVE  SubSeq(s, 1, Len(s)) = s
<1>1. Len(s) \in Nat
  BY LenProperties
<1>2. Agrees(s, s)
  BY <1>1 DEF Agrees
<1> QED BY <1>2, AgreementIsPrefix

LEMMA SyncedIsPrefix ==
  ASSUME TypeInv, ReplicaInv, NEW o \in Ops, HasLog(o)
  PROVE  /\ SyncedVersion(o) \in 0..Len(log)
         /\ applied[owner[o]] \o Unseen(o) = Prefix(SyncedVersion(o))
         /\ SyncedTree(o) = Replay(Prefix(SyncedVersion(o)))
<1>1. /\ Unseen(o) \in Seq(Batch) /\ Len(Unseen(o)) \in Nat
      /\ SyncedVersion(o) = base[o] + Len(Unseen(o))
  BY UnseenTyped, UnseenContinues
<1>2. SubSeq(Unseen(o), 1, Len(Unseen(o))) = Unseen(o) /\ Len(Unseen(o)) \in 0..Len(Unseen(o))
  BY <1>1, WholeSlice
<1>3. /\ base[o] + Len(Unseen(o)) \in 0..Len(log)
      /\ applied[owner[o]] \o SubSeq(Unseen(o), 1, Len(Unseen(o)))
           = Prefix(base[o] + Len(Unseen(o)))
  BY <1>2, UnseenIsNext
<1> QED BY <1>1, <1>2, <1>3 DEF SyncedTree

(* The mutation a call applies after its append is the one in the log. *)
LEMMA AppendedIsNext ==
  ASSUME TypeInv, LogInv, ReplicaInv, NEW o \in Ops, HasAppended(o)
  PROVE  /\ answer[o] \in 1..Len(log) /\ answer[o] = base[o] + 1
         /\ log[answer[o]].op = o /\ log[answer[o]].mutation = request[o]
         /\ Tree(owner[o]) = Replay(Prefix(answer[o] - 1))
         /\ LocalApply(o) = Apply(Replay(Prefix(answer[o] - 1)), request[o])
<1>1. answer[o] \in 1..Len(log) /\ answer[o] = base[o] + 1 /\ base[o] \in Nat
  BY AppliedAnswer DEF HasAppended, TypeInv, TypeOK, CallPlaced
<1>2. log[answer[o]].op = o /\ log[answer[o]].mutation = request[o]
  BY <1>1 DEF HasAppended, LogInv, Logged
<1>3. applied[owner[o]] = Prefix(base[o])
  BY RunningReplica DEF HasAppended
<1>4. answer[o] - 1 = base[o]
  BY <1>1
<1> QED BY <1>1, <1>2, <1>3, <1>4 DEF Tree, LocalApply

-----------------------------------------------------------------------------
(* Answers. *)

SequentialAnswer(o) ==
    /\ outcome[o] \in Answers => at[o] <= Len(log)
    /\ outcome[o] = "committed" =>
         /\ at[o] >= 1
         /\ log[at[o]].op = o
         /\ ~Apply(Replay(SubSeq(log, 1, at[o] - 1)), request[o]).threw
         /\ result[o] = Apply(Replay(SubSeq(log, 1, at[o] - 1)), request[o]).result
    /\ outcome[o] = "observed" /\ request[o].type # "sync" =>
         result[o] = Replay(SubSeq(log, 1, at[o])).entries
    /\ outcome[o] \in {"nothing", "invalid"} =>
         Evaluate(Replay(SubSeq(log, 1, at[o])), request[o]) = outcome[o]

AnswerInv == \A o \in Ops : SequentialAnswer(o)

LEMMA AnswerInit == Init => AnswerInv
  BY DEF Init, AnswerInv, SequentialAnswer, Answers

LEMMA WhoAnswers ==
  ASSUME TypeInv, NEW o \in Ops, Steps(o), Settles(o), outcome'[o] \in Answers
  PROVE  AnswerLocally(o) \/ AnswerSynced(o) \/ AnswerUnappended(o) \/ FinishAppend(o)
<1> USE DEF TypeInv, TypeOK, Answers, Settle, Fail, settlement
<1>1. ~StartSync(o) /\ ~SendAppend(o) /\ ~Retry(o) /\ ~ServeLog(o) /\ ~ApplyAppend(o)
      /\ ~RefuseAppend(o)
  BY DEF Settles, StartSync, SendAppend, Retry, ServeLog, ApplyAppend, RefuseAppend
<1>2. ~RefuseCorrupted(o) /\ ~RefuseOversized(o) /\ ~RefuseMismatched(o)
  BY DEF RefuseCorrupted, RefuseOversized, RefuseMismatched
<1>3. ~FailReplay(o) /\ ~FailApply(o) /\ ~GiveUp(o)
  BY DEF FailReplay, FailApply, GiveUp
<1>4. ~SyncRejects(o) /\ ~AppendRejects(o)
  BY DEF SyncRejects, AppendRejects
<1> QED BY <1>1, <1>2, <1>3, <1>4 DEF Steps, Step, Serve, Disturb

(* The answer a step gives, on the log as it is. *)
LEMMA GivenAnswer ==
  ASSUME TypeInv, LogInv, ReplicaInv, NEW o \in Ops, Steps(o), Settles(o),
         outcome'[o] \in Answers, UNCHANGED request
  PROVE  SequentialAnswer(o)'
<1> USE DEF Answers
<1>0. log' = log
  BY DEF Settles
<1>1. CASE AnswerLocally(o)
  <2>1. /\ owner[o] \in Coordinators /\ ~corrupted[owner[o]] /\ request[o].type = "read"
        /\ outcome'[o] = "observed" /\ at'[o] = currentVersion[owner[o]]
        /\ result'[o] = Tree(owner[o]).entries
    BY <1>1 DEF AnswerLocally, Ready, ReadsLocally, Settle, TypeInv, TypeOK, CallPlaced
  <2>2. /\ applied[owner[o]] \in Seq(Batch) /\ Agrees(applied[owner[o]], log)
        /\ Len(applied[owner[o]]) = currentVersion[owner[o]]
    BY <2>1 DEF ReplicaInv, ReplicaOk, TypeInv, TypeOK
  <2>3. /\ applied[owner[o]] = Prefix(currentVersion[owner[o]])
        /\ currentVersion[owner[o]] <= Len(log)
    BY <2>2, AgreeingIsPrefix
  <2> QED BY <1>0, <2>1, <2>3 DEF SequentialAnswer, Tree, Prefix
<1>2. CASE AnswerSynced(o)
  <2>1. /\ HasLog(o) /\ outcome'[o] = "observed" /\ at'[o] = SyncedVersion(o)
        /\ request[o].type # "sync" => result'[o] = SyncedTree(o).entries
    BY <1>2 DEF AnswerSynced, Replays, Settle, TypeInv, TypeOK
  <2>2. /\ SyncedVersion(o) <= Len(log)
        /\ SyncedTree(o) = Replay(Prefix(SyncedVersion(o)))
    BY <2>1, SyncedIsPrefix
  <2> QED BY <1>0, <2>1, <2>2 DEF SequentialAnswer, Prefix
<1>3. CASE AnswerUnappended(o)
  <2>1. /\ HasLog(o) /\ outcome'[o] = Verdict(o) /\ outcome'[o] \in {"invalid", "nothing"}
        /\ at'[o] = SyncedVersion(o)
    BY <1>3 DEF AnswerUnappended, Replays, Settle, TypeInv, TypeOK
  <2>2. /\ SyncedVersion(o) <= Len(log)
        /\ SyncedTree(o) = Replay(Prefix(SyncedVersion(o)))
    BY <2>1, SyncedIsPrefix
  <2> QED BY <1>0, <2>1, <2>2 DEF SequentialAnswer, Prefix, Verdict
<1>4. CASE FinishAppend(o)
  <2>1. /\ HasAppended(o) /\ ~LocalApply(o).threw /\ outcome'[o] = "committed"
        /\ at'[o] = answer[o] /\ result'[o] = LocalApply(o).result
    BY <1>4 DEF FinishAppend, ApplyLocally, Settle, TypeInv, TypeOK
  <2>2. /\ answer[o] \in 1..Len(log) /\ log[answer[o]].op = o
        /\ LocalApply(o) = Apply(Replay(Prefix(answer[o] - 1)), request[o])
    BY <2>1, AppendedIsNext
  <2> QED BY <1>0, <2>1, <2>2 DEF SequentialAnswer, Prefix
<1> QED BY <1>1, <1>2, <1>3, <1>4, WhoAnswers

(* An answer given before stays the right one: the log grows behind it. *)
LEMMA AnswerStays ==
  ASSUME TypeInv, TypeInv', AnswerInv, NEW o \in Ops, log' = log \/ ApplyAppend(o),
         Len(log) <= Len(log'), NEW x \in Ops,
         request'[x] = request[x], outcome'[x] = outcome[x],
         result'[x] = result[x], at'[x] = at[x]
  PROVE  SequentialAnswer(x)'
<1>1. /\ SequentialAnswer(x) /\ at[x] \in Nat /\ Len(log) \in Nat /\ Len(log') \in Nat
  BY LenProperties DEF AnswerInv, TypeInv, TypeOK
<1>2. CASE outcome[x] \notin Answers
  BY <1>2 DEF SequentialAnswer, Answers
<1>3. CASE outcome[x] \in Answers
  <2>1. at[x] \in 0..Len(log)
    BY <1>1, <1>3 DEF SequentialAnswer
  <2>2. \A n \in 0..Len(log) :
           SubSeq(log', 1, n) = SubSeq(log, 1, n) /\ (n > 0 => log'[n] = log[n])
    BY PrefixStays DEF Prefix
  <2>3. /\ SubSeq(log', 1, at'[x]) = SubSeq(log, 1, at[x])
        /\ at[x] >= 1 => log'[at'[x]] = log[at[x]]
    BY <1>1, <2>1, <2>2
  <2>4. at[x] >= 1 => SubSeq(log', 1, at'[x] - 1) = SubSeq(log, 1, at[x] - 1)
    <3>1. at[x] >= 1 => at[x] - 1 \in 0..Len(log)
      BY <1>1, <2>1
    <3> QED BY <2>2, <3>1
  <2>5. at'[x] <= Len(log')
    BY <1>1, <2>1
  <2> QED BY <1>1, <2>3, <2>4, <2>5 DEF SequentialAnswer
<1> QED BY <1>2, <1>3

LEMMA AnswerStep ==
  TypeInv /\ LogInv /\ ReplicaInv /\ AnswerInv /\ [Next]_vars => AnswerInv'
<1> SUFFICES ASSUME TypeInv, LogInv, ReplicaInv, AnswerInv, [Next]_vars PROVE AnswerInv'
  OBVIOUS
<1>0. TypeInv'
  BY TypeStep
<1>1. CASE UNCHANGED vars
  BY <1>1 DEF vars, store, callers, settlement, AnswerInv, SequentialAnswer, Prefix
<1>2. ASSUME NEW c \in Coordinators, NEW r \in Requests, Invoke(c, r) \/ PutNothing(c, r)
      PROVE  AnswerInv'
  <2>1. PICK n \in Ops :
          /\ outcome'[n] \in {"pending", "empty"} /\ log' = log
          /\ request' = [request EXCEPT ![n] = r]
          /\ \A x \in Ops \ {n} : /\ outcome'[x] = outcome[x]
                                  /\ result'[x] = result[x] /\ at'[x] = at[x]
    BY <1>2, InvokeFrame
  <2>2. SequentialAnswer(n)'
    BY <2>1 DEF SequentialAnswer, Answers
  <2>3. ASSUME NEW x \in Ops \ {n} PROVE SequentialAnswer(x)'
    <3>1. request'[x] = request[x] /\ SequentialAnswer(x)
      BY <2>1 DEF AnswerInv, TypeInv, TypeOK
    <3> QED BY <2>1, <3>1 DEF SequentialAnswer
  <2> QED BY <2>2, <2>3 DEF AnswerInv
<1>3. ASSUME NEW o \in Ops, Steps(o) PROVE AnswerInv'
  <2>1. /\ UNCHANGED request
        /\ \A x \in Ops \ {o} : /\ outcome'[x] = outcome[x]
                                /\ result'[x] = result[x] /\ at'[x] = at[x]
    BY <1>3, StepFrame DEF Frame
  <2>2. Len(log) <= Len(log') /\ (log' = log \/ ApplyAppend(o))
    BY <1>3, LogLength, OnlyAppendsLog
  <2>3. ASSUME NEW x \in Ops PROVE SequentialAnswer(x)'
    <3>1. CASE x = o /\ Settles(o) /\ outcome'[o] \in Answers
      BY <1>3, <2>1, <3>1, GivenAnswer
    <3>2. CASE x = o /\ Settles(o) /\ outcome'[o] \notin Answers
      BY <3>2 DEF SequentialAnswer, Answers
    <3>3. CASE x # o \/ ~Settles(o)
      <4>1. outcome'[x] = outcome[x] /\ result'[x] = result[x] /\ at'[x] = at[x]
        BY <1>3, <2>1, <3>3, OutcomeKept
      <4> QED BY <1>0, <2>1, <2>2, <4>1, AnswerStays
    <3> QED BY <3>1, <3>2, <3>3
  <2> QED BY <2>3 DEF AnswerInv
<1> QED BY <1>1, <1>2, <1>3 DEF Next, Steps

(* Every answer is the one a single tree would give that runs the mutations  *)
(* of the log one after the other, whichever instance gave it; a write that  *)
(* was not appended would have changed nothing in that tree.                 *)
THEOREM AnswersAreThoseOfOneTree == Spec => []AnswersAreSequential
<1>1. Spec => [](TypeInv /\ QueueInv /\ LogInv /\ ReplicaInv /\ AnswerInv)
  BY TypeInit, QueueInit, LogInit, ReplicaInit, AnswerInit,
     TypeStep, QueueStep, LogStep, ReplicaStep, AnswerStep, PTL DEF Spec
<1>2. TypeInv /\ AnswerInv => AnswersAreSequential
  <2> SUFFICES ASSUME TypeInv, AnswerInv, NEW o \in Ops, outcome[o] \in {"nothing", "invalid"}
               PROVE  LET seen == Prefix(at[o])
                          done == Apply(Replay(seen), request[o])
                      IN  /\ done.threw <=> outcome[o] = "invalid"
                          /\ outcome[o] = "nothing" =>
                               /\ done.tree = Replay(seen)
                               /\ done.result =
                                    IF request[o].type = "deleteRange" THEN 0 ELSE Null
    BY DEF AnswerInv, SequentialAnswer, AnswersAreSequential, Prefix
  <2> DEFINE t == Replay(SubSeq(log, 1, at[o]))
  <2>1. /\ at[o] \in Nat /\ at[o] <= Len(log) /\ Evaluate(t, request[o]) = outcome[o]
        /\ log \in Seq(Batch) /\ Len(log) \in Nat
    BY LoggedTyped DEF AnswerInv, SequentialAnswer, TypeInv, TypeOK, Answers
  <2>2. at[o] \in 0..Len(log)
    BY <2>1
  <2>3. Counted(t)
    BY <2>1, <2>2, ReplayIsWellFormed DEF WellFormed
  <2> HIDE DEF t
  <2>4. Rejected(t, request[o]) \/ Absent(t, request[o])
    BY <2>1 DEF Evaluate
  <2>5. request[o].type \in WriteTypes
    BY <2>4 DEF Rejected, Absent, WriteTypes
  <2>6. request[o] \in Requests
    BY DEF TypeInv, CallPlaced
  <2>7. IsMutation(request[o])
    BY <2>5, <2>6, WritesAssumption DEF Writes
  <2> QED BY <2>1, <2>3, <2>7, VerdictIsRight DEF Prefix, t
<1> QED BY <1>1, <1>2, PTL

-----------------------------------------------------------------------------
(* Entry ids. *)

(* The ids a mutation hands out are those its tree is numbered on by. *)
LEMMA ResultsAreNew ==
  ASSUME NEW t, WellFormed(t), NEW m, IsMutation(m), ~Apply(t, m).threw,
         DuplicateKeys # "replace"
  PROVE  /\ m.type = "put" =>
              /\ Apply(t, m).result = t.nextSequence
              /\ Apply(t, m).result < Apply(t, m).tree.nextSequence
         /\ m.type = "putMany" =>
              \A id \in Seqs!ToSet(Apply(t, m).result) :
                  /\ id \in Nat /\ t.nextSequence <= id
                  /\ id < Apply(t, m).tree.nextSequence
<1>1. t.nextSequence \in Nat
  BY DEF WellFormed, Counted
<1>2. CASE m.type = "put"
  <2>1. Apply(t, m) = Put(t, m.key, m.value) /\ m.key \in Int
    BY <1>2 DEF Apply, IsMutation
  <2> QED BY <1>1, <1>2, <2>1, PutFollows
<1>3. CASE m.type = "putMany"
  <2>1. Apply(t, m) = PutMany(t, m.entries) /\ Entries(m.entries)
    BY <1>3 DEF Apply, IsMutation, Entries
  <2> DEFINE n == Len(m.entries)
  <2>2. n \in Nat
    BY <2>1, LenProperties DEF Entries
  <2>3. /\ Apply(t, m).result = Numbered(t.nextSequence, n)
        /\ Apply(t, m).tree.nextSequence = t.nextSequence + n
    BY <2>1, PutManyFollows DEF Putting
  <2> HIDE DEF n
  <2>4. \A id \in Seqs!ToSet(Numbered(t.nextSequence, n)) :
           id \in Nat /\ t.nextSequence <= id /\ id < t.nextSequence + n
    BY <1>1, <2>2 DEF Numbered, Seqs!ToSet
  <2> QED BY <1>3, <2>3, <2>4
<1> QED BY <1>2, <1>3

(* What a call was given lies between the counters of the tree in front of   *)
(* its batch and behind it.                                                  *)
LEMMA GivenInPlace ==
  ASSUME TypeInv, LogInv, AnswerInv, NEW o \in Ops, outcome[o] = "committed",
         DuplicateKeys # "replace"
  PROVE  /\ at[o] \in 1..Len(log) /\ log[at[o]].op = o
         /\ \A id \in Given(o) : /\ id \in Nat
                                  /\ Replay(Prefix(at[o] - 1)).nextSequence <= id
                                  /\ id < Replay(Prefix(at[o])).nextSequence
<1> DEFINE n == at[o]
           t == Replay(SubSeq(log, 1, n - 1))
<1>1. /\ n \in 1..Len(log) /\ log[n].op = o /\ log \in Seq(Batch)
      /\ ~Apply(t, request[o]).threw /\ result[o] = Apply(t, request[o]).result
  BY LoggedTyped DEF AnswerInv, SequentialAnswer, TypeInv, TypeOK, Answers
<1>2. n - 1 \in 0..Len(log)
  BY <1>1, LoggedTyped
<1>3. log[n].mutation = request[o] /\ IsMutation(request[o])
  BY <1>1, ReplayUnfolds, <1>2 DEF LogInv, Logged
<1>4. WellFormed(t) /\ t.nextSequence \in Nat
  BY <1>1, <1>2, ReplayIsWellFormed DEF WellFormed, Counted
<1>5. Replay(SubSeq(log, 1, n)) = Apply(t, request[o]).tree
  BY <1>1, <1>3, ReplayExtends
<1> HIDE DEF t
<1>6. \A id \in Given(o) :
         /\ id \in Nat /\ t.nextSequence <= id
         /\ id < Apply(t, request[o]).tree.nextSequence
  BY <1>1, <1>3, <1>4, ResultsAreNew DEF Given
<1> QED BY <1>1, <1>5, <1>6 DEF Prefix, t

LEMMA GivenApart ==
  ASSUME TypeInv, LogInv, AnswerInv, DuplicateKeys # "replace",
         NEW o \in Ops, outcome[o] = "committed",
         NEW p \in Ops, outcome[p] = "committed", at[o] < at[p]
  PROVE  Given(o) \intersect Given(p) = {}
<1> DEFINE Counter(i) == Replay(Prefix(i)).nextSequence
<1>1. /\ at[o] \in 1..Len(log) /\ at[p] \in 1..Len(log)
      /\ \A id \in Given(o) : id \in Nat /\ id < Counter(at[o])
      /\ \A id \in Given(p) : id \in Nat /\ Counter(at[p] - 1) <= id
  BY GivenInPlace
<1>2. Len(log) \in Nat /\ log \in Seq(Batch)
  BY LoggedTyped DEF TypeInv, TypeOK
<1>3. at[p] - 1 \in 0..Len(log) /\ at[o] \in 0..(at[p] - 1)
  BY <1>1, <1>2
<1>4. Counter(at[p] - 1) >= Counter(at[o])
  BY <1>2, <1>3, ReplayFollows DEF Follows, Prefix
<1>5. Counter(at[p] - 1) \in Nat /\ Counter(at[o]) \in Nat
  <2>1. at[o] \in 0..Len(log)
    BY <1>1
  <2> QED BY <1>2, <1>3, <2>1, ReplayIsWellFormed DEF WellFormed, Counted, Prefix
<1> HIDE DEF Counter
<1> QED BY <1>1, <1>4, <1>5

(* No two calls are ever given the same entry id, on whichever instances     *)
(* they were made.                                                           *)
THEOREM IdsAreUniqueAcrossInstances == Spec => []IdsAreHandedOutOnce
<1>1. Spec => [](TypeInv /\ QueueInv /\ LogInv /\ ReplicaInv /\ AnswerInv)
  BY TypeInit, QueueInit, LogInit, ReplicaInit, AnswerInit,
     TypeStep, QueueStep, LogStep, ReplicaStep, AnswerStep, PTL DEF Spec
<1>2. TypeInv /\ LogInv /\ AnswerInv => IdsAreHandedOutOnce
  <2> SUFFICES ASSUME TypeInv, LogInv, AnswerInv, DuplicateKeys # "replace",
                      NEW o \in Ops, outcome[o] = "committed",
                      NEW p \in Ops, outcome[p] = "committed", o # p
               PROVE  Given(o) \intersect Given(p) = {}
    BY DEF IdsAreHandedOutOnce
  <2>1. /\ at[o] \in 1..Len(log) /\ at[p] \in 1..Len(log)
        /\ log[at[o]].op = o /\ log[at[p]].op = p
    BY GivenInPlace
  <2>2. at[o] < at[p] \/ at[p] < at[o]
    BY <2>1, LoggedTyped
  <2> QED BY <2>2, GivenApart
<1> QED BY <1>1, <1>2, PTL

-----------------------------------------------------------------------------
(* Evaluations. *)

JudgedAt(i) == Evaluate(Replay(SubSeq(log, 1, i - 1)), log[i].mutation) = "append"

(* The verdict an append carries is one on the tree at its base version. *)
JudgedAppend(o) ==
    wire[o] = "sent" =>
        base[o] <= Len(log) /\ Evaluate(Replay(SubSeq(log, 1, base[o])), request[o]) = "append"

JudgedInv ==
    /\ \A i \in 1..Len(log) : JudgedAt(i)
    /\ \A o \in Ops : JudgedAppend(o)

LEMMA JudgedInit == Init => JudgedInv
  BY EmptySeq DEF Init, JudgedInv, JudgedAppend

LEMMA JudgedStep == TypeInv /\ ReplicaInv /\ JudgedInv /\ [Next]_vars => JudgedInv'
<1> SUFFICES ASSUME TypeInv, ReplicaInv, JudgedInv, [Next]_vars PROVE JudgedInv'
  OBVIOUS
<1>0. TypeInv'
  BY TypeStep
<1>1. CASE UNCHANGED vars
  BY <1>1 DEF vars, store, callers, exchange, JudgedInv, JudgedAt, JudgedAppend
<1>2. ASSUME NEW c \in Coordinators, NEW r \in Requests, Invoke(c, r) \/ PutNothing(c, r)
      PROVE  JudgedInv'
  <2>1. PICK n \in Ops :
          /\ wire[n] = "none" /\ UNCHANGED <<log, wire, base>>
          /\ \A x \in Ops \ {n} : request'[x] = request[x]
    BY <1>2, InvokeFrame DEF exchange, TypeInv, TypeOK
  <2>2. \A i \in 1..Len(log') : JudgedAt(i)'
    BY <2>1 DEF JudgedInv, JudgedAt
  <2>3. ASSUME NEW x \in Ops PROVE JudgedAppend(x)'
    BY <2>1 DEF JudgedInv, JudgedAppend
  <2> QED BY <2>2, <2>3 DEF JudgedInv
<1>3. ASSUME NEW o \in Ops, Steps(o) PROVE JudgedInv'
  <2>1. /\ UNCHANGED request /\ \A x \in Ops \ {o} : wire'[x] = wire[x] /\ base'[x] = base[x]
    BY <1>3, StepFrame DEF Frame
  <2>2. /\ Len(log) \in Nat /\ Len(log') \in Nat /\ Len(log) <= Len(log')
        /\ (log' = log \/ ApplyAppend(o))
    BY <1>3, LogLength, OnlyAppendsLog
  <2>3. \A n \in 0..Len(log) :
           SubSeq(log', 1, n) = SubSeq(log, 1, n) /\ (n > 0 => log'[n] = log[n])
    BY <1>0, <2>2, PrefixStays DEF Prefix
  <2>4. ASSUME NEW i \in 1..Len(log), i \in 1..Len(log') PROVE JudgedAt(i)'
    <3>1. i \in 0..Len(log) /\ i - 1 \in 0..Len(log) /\ i > 0
      BY <2>2
    <3>2. SubSeq(log', 1, i - 1) = SubSeq(log, 1, i - 1) /\ log'[i] = log[i]
      BY <2>3, <3>1
    <3> QED BY <3>2 DEF JudgedInv, JudgedAt
  <2>5. ASSUME NEW i \in 1..Len(log'), i \notin 1..Len(log) PROVE JudgedAt(i)'
    <3>1. CASE log' = log
      BY <2>5, <3>1
    <3>2. CASE ApplyAppend(o)
      <4>1. /\ wire[o] = "sent" /\ Len(log) = base[o] /\ Len(log') = Len(log) + 1
            /\ log'[Len(log) + 1].mutation = request[o]
        BY <3>2, LogGrows DEF ApplyAppend
      <4>2. i = Len(log) + 1 /\ i - 1 = base[o] /\ base[o] \in 0..Len(log)
        BY <2>2, <2>5, <4>1
      <4>3. Evaluate(Replay(SubSeq(log, 1, base[o])), request[o]) = "append"
        BY <4>1 DEF JudgedInv, JudgedAppend
      <4>4. SubSeq(log', 1, i - 1) = SubSeq(log, 1, base[o]) /\ log'[i].mutation = request[o]
        BY <2>3, <4>1, <4>2
      <4> QED BY <4>3, <4>4 DEF JudgedAt
    <3> QED BY <2>2, <3>1, <3>2
  <2>6. ASSUME NEW x \in Ops, wire[x] = "sent", wire'[x] = wire[x], base'[x] = base[x]
        PROVE  JudgedAppend(x)'
    <3>1. /\ base[x] <= Len(log) /\ base[x] \in Nat
          /\ Evaluate(Replay(SubSeq(log, 1, base[x])), request[x]) = "append"
      BY <2>6 DEF JudgedInv, JudgedAppend, TypeInv, TypeOK
    <3>2. base[x] \in 0..Len(log) /\ base[x] <= Len(log')
      BY <2>2, <3>1
    <3>3. SubSeq(log', 1, base[x]) = SubSeq(log, 1, base[x])
      BY <2>3, <3>2
    <3> QED BY <2>1, <2>6, <3>1, <3>2, <3>3 DEF JudgedAppend
  <2>7. JudgedAppend(o)'
    <3>1. CASE SendAppend(o)
      <4>1. /\ HasLog(o) /\ log' = log /\ base' = [base EXCEPT ![o] = SyncedVersion(o)]
            /\ Evaluate(SyncedTree(o), request[o]) = "append"
        BY <3>1 DEF SendAppend, Replays, CatchUp, Verdict, store
      <4>2. /\ SyncedVersion(o) <= Len(log)
            /\ SyncedTree(o) = Replay(SubSeq(log, 1, SyncedVersion(o)))
        BY <4>1, SyncedIsPrefix DEF Prefix
      <4>3. base'[o] = SyncedVersion(o)
        BY <4>1 DEF TypeInv, TypeOK
      <4> QED BY <2>1, <4>1, <4>2, <4>3 DEF JudgedAppend
    <3>2. CASE Settles(o)
      BY <2>6, <3>2 DEF Settles, exchange, JudgedAppend
    <3>3. CASE Asks(o) \/ ServeLog(o) \/ ApplyAppend(o) \/ RefuseAppend(o)
      BY <3>3 DEF Asks, ServeLog, ApplyAppend, RefuseAppend, JudgedAppend, TypeInv, TypeOK
    <3> QED BY <1>3, <3>1, <3>2, <3>3, StepOnCall
  <2>8. ASSUME NEW x \in Ops PROVE JudgedAppend(x)'
    <3>1. CASE x = o
      BY <2>7, <3>1
    <3>2. CASE x # o
      <4>1. wire'[x] = wire[x] /\ base'[x] = base[x]
        BY <2>1, <3>2
      <4> QED BY <2>6, <4>1 DEF JudgedAppend
    <3> QED BY <3>1, <3>2
  <2> QED BY <2>4, <2>5, <2>8 DEF JudgedInv
<1> QED BY <1>1, <1>2, <1>3 DEF Next, Steps

(* Every mutation in the log was found worth appending on exactly the tree   *)
(* it is applied to, whatever the evaluation looks at.                       *)
THEOREM WritesAreJudgedWhereApplied == Spec => []WritesAreJudgedInPlace
<1>1. Spec => [](TypeInv /\ QueueInv /\ ReplicaInv /\ JudgedInv)
  BY TypeInit, QueueInit, ReplicaInit, JudgedInit,
     TypeStep, QueueStep, ReplicaStep, JudgedStep, PTL DEF Spec
<1>2. TypeInv /\ JudgedInv => WritesAreJudgedInPlace
  BY LoggedTyped DEF JudgedInv, JudgedAt, WritesAreJudgedInPlace
<1> QED BY <1>1, <1>2, PTL

-----------------------------------------------------------------------------
(* Corruption. *)

(* Nothing a replica has applied throws on the log, but for the last batch   *)
(* of a corrupted one.                                                       *)
Sound(batches, n, broken) ==
    /\ \A i \in 1..n : ~broken \/ i < n => ~Throws(batches, i)
    /\ broken => n >= 1 /\ Throws(batches, n)

Unpoisoned(c) == Sound(log, Len(applied[c]), corrupted[c])

CorruptionInv == \A c \in Coordinators : Unpoisoned(c)

LEMMA CorruptionInit == Init => CorruptionInv
  BY EmptySeq DEF Init, CorruptionInv, Unpoisoned, Sound

(* What throws in the slice that is replayed throws in the log. *)
LEMMA ThrowingIsInLog ==
  ASSUME TypeInv, ReplicaInv, NEW o \in Ops, HasLog(o), NEW j \in 1..Len(Unseen(o))
  PROVE  j \in Throwing(applied[owner[o]], Unseen(o)) <=> Throws(log, base[o] + j)
<1>1. /\ Unseen(o) \in Seq(Batch) /\ Len(Unseen(o)) \in Nat /\ base[o] \in Nat
      /\ Len(applied[owner[o]]) = base[o]
      /\ \A i \in 1..Len(Unseen(o)) : Unseen(o)[i] = log[Len(applied[owner[o]]) + i]
  BY UnseenContinues, UnseenTyped DEF TypeInv, TypeOK
<1>2. DOMAIN Unseen(o) = 1..Len(Unseen(o))
  BY <1>1, LenProperties
<1>3. Unseen(o)[j] = log[base[o] + j]
  BY <1>1
<1>4. j - 1 \in 0..Len(Unseen(o)) /\ base[o] + (j - 1) = (base[o] + j) - 1
  BY <1>1
<1>5. applied[owner[o]] \o SubSeq(Unseen(o), 1, j - 1) = Prefix(base[o] + (j - 1))
  BY <1>4, UnseenIsNext
<1>6. j \in DOMAIN Unseen(o)
  BY <1>2
<1>7. j \in Throwing(applied[owner[o]], Unseen(o))
        <=> Apply(Replay(applied[owner[o]] \o SubSeq(Unseen(o), 1, j - 1)),
                  Unseen(o)[j].mutation).threw
  BY <1>6 DEF Throwing
<1>8. applied[owner[o]] \o SubSeq(Unseen(o), 1, j - 1) = SubSeq(log, 1, (base[o] + j) - 1)
  BY <1>4, <1>5 DEF Prefix
<1>9. Apply(Replay(applied[owner[o]] \o SubSeq(Unseen(o), 1, j - 1)), Unseen(o)[j].mutation)
        = Apply(Replay(SubSeq(log, 1, (base[o] + j) - 1)), log[base[o] + j].mutation)
  BY <1>3, <1>8
<1> QED BY <1>7, <1>9 DEF Throws

LEMMA ThrowsStays ==
  ASSUME TypeInv, TypeInv', NEW o \in Ops, log' = log \/ ApplyAppend(o), NEW i \in 1..Len(log)
  PROVE  Throws(log', i) <=> Throws(log, i)
<1>1. Len(log) \in Nat
  BY LoggedTyped
<1>2. i \in 0..Len(log) /\ i - 1 \in 0..Len(log) /\ i > 0
  BY <1>1
<1>3. \A n \in 0..Len(log) :
         SubSeq(log', 1, n) = SubSeq(log, 1, n) /\ (n > 0 => log'[n] = log[n])
  BY PrefixStays DEF Prefix
<1>4. SubSeq(log', 1, i - 1) = SubSeq(log, 1, i - 1) /\ log'[i] = log[i]
  BY <1>2, <1>3
<1> QED BY <1>4 DEF Throws

LEMMA WhoApplies ==
  ASSUME TypeInv, NEW o \in Ops, Steps(o)
  PROVE  \/ FailReplay(o) \/ FinishAppend(o) \/ FailApply(o)
         \/ HasLog(o) /\ ~ReplayThrows(o) /\ CatchUp(o)
         \/ UNCHANGED <<applied, corrupted>>
  BY DEF Steps, Step, Serve, Disturb, RefuseCorrupted, AnswerLocally, StartSync,
         RefuseOversized, RefuseMismatched, AnswerSynced, AnswerUnappended, SendAppend,
         Retry, GiveUp, ServeLog, ApplyAppend, RefuseAppend,
         SyncRejects, AppendRejects, Replays, AskForLog, replicas

LEMMA CorruptionOfOne ==
  ASSUME TypeInv, TypeInv', LogInv, ReplicaInv, CorruptionInv, NEW o \in Ops, Steps(o),
         NEW c \in Coordinators
  PROVE  Unpoisoned(c)'
<1>0. /\ Unpoisoned(c) /\ Len(applied[c]) \in Nat /\ Len(applied[c]) <= Len(log)
      /\ Len(log) \in Nat /\ (log' = log \/ ApplyAppend(o))
  BY LenProperties, LoggedTyped, OnlyAppendsLog
  DEF CorruptionInv, ReplicaInv, ReplicaOk, Agrees, TypeInv, TypeOK
<1>a. \A i \in 1..Len(log) : Throws(log', i) <=> Throws(log, i)
  BY <1>0, ThrowsStays
<1>1. ASSUME applied'[c] = applied[c], corrupted'[c] = corrupted[c] PROVE Unpoisoned(c)'
  <2>1. ASSUME NEW i \in 1..Len(applied[c]), ~corrupted[c] \/ i < Len(applied[c])
        PROVE  ~Throws(log', i)
    BY <1>0, <1>a, <2>1 DEF Unpoisoned, Sound
  <2>2. ASSUME corrupted[c] PROVE Len(applied[c]) >= 1 /\ Throws(log', Len(applied[c]))
    <3>1. Len(applied[c]) >= 1 /\ Throws(log, Len(applied[c]))
      BY <1>0, <2>2 DEF Unpoisoned, Sound
    <3>2. Len(applied[c]) \in 1..Len(log)
      BY <1>0, <3>1
    <3> QED BY <1>a, <3>1, <3>2
  <2> QED BY <1>1, <2>1, <2>2 DEF Unpoisoned, Sound
<1>2. CASE FailReplay(o)
  <2>1. /\ HasLog(o) /\ log' = log
        /\ corrupted' = [corrupted EXCEPT ![owner[o]] = TRUE]
    BY <1>2 DEF FailReplay, store
  <2>2. PICK i \in Throwing(applied[owner[o]], Unseen(o)) :
          /\ \A j \in Throwing(applied[owner[o]], Unseen(o)) : i <= j
          /\ applied' = [applied EXCEPT ![owner[o]] = @ \o SubSeq(Unseen(o), 1, i)]
    BY <1>2 DEF FailReplay
  <2>3. CASE c # owner[o]
    BY <1>1, <2>1, <2>2, <2>3 DEF TypeInv, TypeOK
  <2>4. CASE c = owner[o]
    <3>1. /\ Len(Unseen(o)) \in Nat /\ i \in 1..Len(Unseen(o)) /\ base[o] \in Nat
          /\ Len(applied[c]) = base[o] /\ ~corrupted[c]
          /\ base[o] + Len(Unseen(o)) <= Len(log)
      <4>1. DOMAIN Unseen(o) = 1..Len(Unseen(o))
        BY <2>1, UnseenTyped, LenProperties
      <4>2. i \in 1..Len(Unseen(o))
        BY <2>2, <4>1 DEF Throwing
      <4> QED BY <2>1, <2>4, <4>2, UnseenContinues DEF TypeInv, TypeOK
    <3>2. /\ applied'[c] = applied[c] \o SubSeq(Unseen(o), 1, i) /\ corrupted'[c]
          /\ i \in 0..Len(Unseen(o))
      <4>1. applied'[c] = applied[c] \o SubSeq(Unseen(o), 1, i)
        BY <2>2, <2>4 DEF TypeInv, TypeOK
      <4>2. corrupted'[c]
        BY <2>1, <2>4 DEF TypeInv, TypeOK
      <4>3. i \in 0..Len(Unseen(o))
        BY <3>1
      <4> QED BY <4>1, <4>2, <4>3
    <3>3. Len(applied'[c]) = base[o] + i
      BY <2>1, <2>4, <3>2, UnseenIsNext
    <3>4. Throws(log, base[o] + i)
      BY <2>1, <2>2, <3>1, ThrowingIsInLog
    <3>5. ASSUME NEW k \in 1..(base[o] + i), k < base[o] + i PROVE ~Throws(log, k)
      <4>1. CASE k <= base[o]
        <5>1. k \in 1..Len(applied[c])
          BY <3>1, <4>1
        <5> QED BY <1>0, <3>1, <5>1 DEF Unpoisoned, Sound
      <4>2. CASE k > base[o]
        <5>0. base[o] \in Nat /\ Len(Unseen(o)) \in Nat /\ i \in 1..Len(Unseen(o))
          BY <3>1
        <5>1. k - base[o] \in 1..Len(Unseen(o)) /\ ~(i <= k - base[o])
              /\ base[o] + (k - base[o]) = k
          BY <5>0, <3>5, <4>2
        <5>2. k - base[o] \notin Throwing(applied[owner[o]], Unseen(o))
          BY <2>2, <5>1
        <5> QED BY <2>1, <5>1, <5>2, ThrowingIsInLog
      <4> QED BY <3>1, <4>1, <4>2
    <3>6. base[o] + i \in 1..Len(log) /\ base[o] + i >= 1
      BY <1>0, <3>1
    <3> QED BY <2>1, <3>2, <3>3, <3>4, <3>5, <3>6 DEF Unpoisoned, Sound
  <2> QED BY <2>3, <2>4
<1>3. CASE HasLog(o) /\ ~ReplayThrows(o) /\ CatchUp(o)
  <2>1. /\ applied' = [applied EXCEPT ![owner[o]] = @ \o Unseen(o)]
        /\ corrupted' = corrupted /\ log' = log
        /\ Throwing(applied[owner[o]], Unseen(o)) = {}
    BY <1>3 DEF CatchUp, ReplayThrows, store
  <2>2. CASE c # owner[o]
    BY <1>1, <2>1, <2>2 DEF TypeInv, TypeOK
  <2>3. CASE c = owner[o]
    <3>1. /\ Len(Unseen(o)) \in Nat /\ base[o] \in Nat
          /\ Len(applied[c]) = base[o] /\ ~corrupted[c]
          /\ Unseen(o) \in Seq(Batch)
      BY <1>3, <2>3, UnseenContinues, UnseenTyped DEF TypeInv, TypeOK
    <3>2. applied'[c] = applied[c] \o Unseen(o)
      BY <2>1, <2>3 DEF TypeInv, TypeOK
    <3>3. Len(applied'[c]) = base[o] + Len(Unseen(o))
      <4>1. applied[c] \in Seq(Batch)
        BY DEF TypeInv, TypeOK
      <4>2. Len(applied[c] \o Unseen(o)) = Len(applied[c]) + Len(Unseen(o))
        BY <3>1, <4>1, ConcatProperties
      <4> QED BY <3>1, <3>2, <4>2
    <3>5. ASSUME NEW k \in 1..(base[o] + Len(Unseen(o))) PROVE ~Throws(log, k)
      <4>1. CASE k <= base[o]
        <5>1. k \in 1..Len(applied[c])
          BY <3>1, <4>1
        <5> QED BY <1>0, <3>1, <5>1 DEF Unpoisoned, Sound
      <4>2. CASE k > base[o]
        <5>1. k - base[o] \in 1..Len(Unseen(o)) /\ base[o] + (k - base[o]) = k
          BY <3>1, <4>2
        <5> QED BY <1>3, <2>1, <5>1, ThrowingIsInLog
      <4> QED BY <3>1, <4>1, <4>2
    <3> QED BY <2>1, <3>1, <3>3, <3>5 DEF Unpoisoned, Sound
  <2> QED BY <2>2, <2>3
<1>4. CASE FinishAppend(o) \/ FailApply(o)
  <2>1. /\ HasAppended(o) /\ log' = log
        /\ applied' = [applied EXCEPT ![owner[o]] = Append(@, log[answer[o]])]
        /\ \/ ~LocalApply(o).threw /\ corrupted' = corrupted
           \/ LocalApply(o).threw /\ corrupted' = [corrupted EXCEPT ![owner[o]] = TRUE]
    BY <1>4 DEF FinishAppend, FailApply, ApplyLocally, store
  <2>2. CASE c # owner[o]
    BY <1>1, <2>1, <2>2 DEF TypeInv, TypeOK
  <2>3. CASE c = owner[o]
    <3>1. /\ answer[o] \in 1..Len(log) /\ answer[o] = base[o] + 1 /\ base[o] \in Nat
          /\ Len(applied[c]) = base[o] /\ ~corrupted[c]
      BY <2>1, <2>3, AppendedIsNext, RunningReplica
      DEF HasAppended, ReplicaInv, RunOk, TypeInv, TypeOK
    <3>2. LocalApply(o).threw <=> Throws(log, answer[o])
      BY <2>1, AppendedIsNext DEF Throws, Prefix
    <3>3. Len(applied'[c]) = answer[o]
      <4>1. applied'[c] = Append(applied[c], log[answer[o]]) /\ applied[c] \in Seq(Batch)
        BY <2>1, <2>3 DEF TypeInv, TypeOK
      <4>2. log[answer[o]] \in Batch
        BY <3>1, LoggedTyped
      <4> QED BY <3>1, <4>1, <4>2, AppendProperties
    <3>4. ASSUME NEW k \in 1..answer[o], k < answer[o] PROVE ~Throws(log, k)
      <4>1. k \in 1..Len(applied[c])
        BY <3>1, <3>4
      <4> QED BY <1>0, <3>1, <4>1 DEF Unpoisoned, Sound
    <3>5. CASE ~LocalApply(o).threw /\ corrupted' = corrupted
      <4>1. ~corrupted'[c] /\ ~Throws(log, answer[o])
        BY <3>1, <3>2, <3>5
      <4>2. ASSUME NEW k \in 1..answer[o] PROVE ~Throws(log, k)
        BY <3>1, <3>4, <4>1
      <4> QED BY <2>1, <3>3, <4>1, <4>2 DEF Unpoisoned, Sound
    <3>6. CASE LocalApply(o).threw /\ corrupted' = [corrupted EXCEPT ![owner[o]] = TRUE]
      <4>1. corrupted'[c] /\ Throws(log, answer[o]) /\ answer[o] >= 1
        BY <2>3, <3>1, <3>2, <3>6 DEF TypeInv, TypeOK
      <4> QED BY <2>1, <3>3, <3>4, <4>1 DEF Unpoisoned, Sound
    <3> QED BY <2>1, <3>5, <3>6
  <2> QED BY <2>2, <2>3
<1>5. CASE UNCHANGED <<applied, corrupted>>
  BY <1>1, <1>5
<1> QED BY <1>2, <1>3, <1>4, <1>5, WhoApplies

LEMMA CorruptionStep ==
  TypeInv /\ LogInv /\ ReplicaInv /\ CorruptionInv /\ [Next]_vars => CorruptionInv'
<1> SUFFICES ASSUME TypeInv, LogInv, ReplicaInv, CorruptionInv, [Next]_vars
             PROVE  CorruptionInv'
  OBVIOUS
<1>0. TypeInv'
  BY TypeStep
<1>1. CASE UNCHANGED <<log, applied, corrupted>>
  BY <1>1 DEF CorruptionInv, Unpoisoned
<1>2. CASE UNCHANGED vars
  BY <1>1, <1>2 DEF vars, store, replicas
<1>3. ASSUME NEW c \in Coordinators, NEW r \in Requests, Invoke(c, r) \/ PutNothing(c, r)
      PROVE  CorruptionInv'
  BY <1>1, <1>3, InvokeFrame DEF replicas
<1>4. ASSUME NEW o \in Ops, Steps(o) PROVE CorruptionInv'
  BY <1>0, <1>4, CorruptionOfOne DEF CorruptionInv
<1> QED BY <1>2, <1>3, <1>4 DEF Next, Steps

LEMMA CorruptedByTheLog ==
  ASSUME TypeInv, ReplicaInv, CorruptionInv
  PROVE  CorruptionIsInTheLog
<1> SUFFICES ASSUME NEW c \in Coordinators, corrupted[c]
             PROVE  /\ applied[c] = SubSeq(log, 1, Len(applied[c]))
                    /\ Throwing(<<>>, applied[c]) = {Len(applied[c])}
  BY DEF CorruptionIsInTheLog
<1>1. applied[c] \in Seq(Batch) /\ Agrees(applied[c], log)
  BY DEF TypeInv, TypeOK, ReplicaInv, ReplicaOk
<1>2. applied[c] = Prefix(Len(applied[c])) /\ Len(applied[c]) \in Nat
  BY <1>1, AgreeingIsPrefix
<1>3. DOMAIN applied[c] = 1..Len(applied[c])
  BY <1>1, LenProperties
<1>4. Unpoisoned(c) /\ Len(applied[c]) \in 1..Len(applied[c])
  BY <1>2 DEF CorruptionInv, Unpoisoned, Sound
<1>5. ASSUME NEW i \in 1..Len(applied[c])
      PROVE  i \in Throwing(<<>>, applied[c]) <=> Throws(log, i)
  <2>1. i - 1 \in 0..Len(applied[c]) /\ i - 1 \in Nat
    BY <1>2
  <2>2. SubSeq(applied[c], 1, i - 1) = Prefix(i - 1)
    BY <1>1, <2>1, FrontIsPrefix
  <2>3. SubSeq(applied[c], 1, i - 1) \in Seq(Batch)
    <3>1. SubSeq(applied[c], 0 + 1, i - 1) \in Seq(Batch)
      BY <1>1, <1>2, <2>1, SliceTyped
    <3> QED BY <3>1
  <2>4. <<>> \o SubSeq(applied[c], 1, i - 1) = SubSeq(applied[c], 1, i - 1)
    BY <2>3, ConcatEmptySeq
  <2>5. applied[c][i] = log[i]
    BY <1>1 DEF Agrees
  <2> QED BY <1>3, <2>2, <2>4, <2>5 DEF Throwing, Throws, Prefix
<1>6. ASSUME NEW i \in 1..Len(applied[c]) PROVE Throws(log, i) <=> i = Len(applied[c])
  <2>1. i < Len(applied[c]) \/ i = Len(applied[c])
    BY <1>2
  <2> QED BY <1>4, <2>1, <1>2 DEF Unpoisoned, Sound
<1>7. Throwing(<<>>, applied[c]) \subseteq 1..Len(applied[c])
  BY <1>3 DEF Throwing
<1>8. Throwing(<<>>, applied[c]) = {Len(applied[c])}
  BY <1>4, <1>5, <1>6, <1>7
<1> QED BY <1>2, <1>8 DEF Prefix

(* A corrupted instance stopped at a batch that throws on the log itself, so *)
(* that every peer that gets so far stops there: corruption is never         *)
(* something only one instance did.                                          *)
THEOREM CorruptionComesFromTheLog == Spec => []CorruptionIsInTheLog
<1>1. Spec => [](TypeInv /\ QueueInv /\ LogInv /\ ReplicaInv /\ CorruptionInv)
  BY TypeInit, QueueInit, LogInit, ReplicaInit, CorruptionInit,
     TypeStep, QueueStep, LogStep, ReplicaStep, CorruptionStep, PTL DEF Spec
<1> QED BY <1>1, CorruptedByTheLog, PTL

-----------------------------------------------------------------------------
(* Falling behind. *)

(* A longer run of batches holds no fewer mutations. *)
LEMMA MoreMutations ==
  ASSUME NEW s \in Seq(Batch), NEW t \in Seq(Batch), Len(s) <= Len(t),
         \A i \in 1..Len(s) : t[i] = s[i]
  PROVE  /\ MutationCount(s) \in Nat /\ MutationCount(t) \in Nat
         /\ MutationCount(s) <= MutationCount(t)
<1> DEFINE S == {i \in 1..Len(s) : s[i].init # Null}
           T == {i \in 1..Len(t) : t[i].init # Null}
<1>1. /\ Len(s) \in Nat /\ Len(t) \in Nat
      /\ DOMAIN s = 1..Len(s) /\ DOMAIN t = 1..Len(t)
  BY LenProperties
<1>2. MutationCount(s) = Len(s) + Cardinality(S) /\ MutationCount(t) = Len(t) + Cardinality(T)
  BY <1>1 DEF MutationCount
<1>3. IsFiniteSet(1..Len(t))
  BY <1>1, FS_Interval
<1>4. S \subseteq T
  <2> SUFFICES ASSUME NEW i \in S PROVE i \in T
    OBVIOUS
  <2>1. i \in 1..Len(s) /\ s[i].init # Null
    OBVIOUS
  <2>2. i \in 1..Len(t) /\ t[i] = s[i]
    BY <1>1, <2>1
  <2> QED BY <2>1, <2>2
<1>5. T \subseteq 1..Len(t)
  OBVIOUS
<1> HIDE DEF S, T
<1>6. IsFiniteSet(T)
  BY <1>3, <1>5, FS_Subset
<1>7. IsFiniteSet(S) /\ Cardinality(S) <= Cardinality(T)
  BY <1>4, <1>6, FS_Subset
<1>8. Cardinality(S) \in Nat /\ Cardinality(T) \in Nat
  BY <1>6, <1>7, FS_CardinalityType
<1> QED BY <1>1, <1>2, <1>7, <1>8

LEMMA SlicesGrow ==
  ASSUME TypeInv, TypeInv', NEW o \in Ops, log' = log \/ ApplyAppend(o),
         NEW k \in Nat, NEW m \in 0..Len(log), NEW n \in m..Len(log')
  PROVE  /\ MutationCount(SubSeq(log, k + 1, m)) \in Nat
         /\ MutationCount(SubSeq(log', k + 1, n)) \in Nat
         /\ MutationCount(SubSeq(log, k + 1, m)) <= MutationCount(SubSeq(log', k + 1, n))
<1>1. /\ log \in Seq(Batch) /\ log' \in Seq(Batch) /\ Len(log) \in Nat /\ Len(log') \in Nat
      /\ m \in Nat /\ m <= Len(log) /\ n \in Nat /\ n <= Len(log') /\ m <= n
  BY LenProperties DEF TypeInv, TypeOK
<1>2. \A i \in 1..Len(log) : log'[i] = log[i]
  BY LogGrows
<1> DEFINE s == SubSeq(log, k + 1, m)
           t == SubSeq(log', k + 1, n)
<1>3. /\ s \in Seq(Batch) /\ Len(s) = IF k < m THEN m - k ELSE 0
      /\ \A i \in 1..(m - k) : s[i] = log[k + i]
  BY <1>1, SliceTyped
<1>4. /\ t \in Seq(Batch) /\ Len(t) = IF k < n THEN n - k ELSE 0
      /\ \A i \in 1..(n - k) : t[i] = log'[k + i]
  BY <1>1, SliceTyped
<1> HIDE DEF s, t
<1>5. Len(s) <= Len(t)
  BY <1>1, <1>3, <1>4
<1>6. ASSUME NEW i \in 1..Len(s) PROVE t[i] = s[i]
  <2>1. i \in 1..(m - k) /\ i \in 1..(n - k) /\ k + i \in 1..Len(log)
    BY <1>1, <1>3
  <2> QED BY <1>2, <1>3, <1>4, <2>1
<1>7. /\ MutationCount(s) \in Nat /\ MutationCount(t) \in Nat
      /\ MutationCount(s) <= MutationCount(t)
  BY <1>3, <1>4, <1>5, <1>6, MoreMutations
<1> QED BY <1>7 DEF s, t

(* The instance has more to catch up with than one sync may bring. *)
Lagging(c) ==
    MutationCount(SubSeq(log, currentVersion[c] + 1, Len(log))) > MaxSyncMutationsPerBatch

(* So has a call made after one that was refused for it. *)
Stuck(o, p) ==
    outcome[o] = "oversized" /\ o < p /\ owner[o] = owner[p] =>
        /\ outcome[p] \in Answers => ReadsLocally(p)
        /\ pc[p] = "running" => /\ wire[p] \in {"asked", "served"}
                                /\ wire[p] = "served" => Oversized(p)

LagOk(o) ==
    /\ outcome[o] = "oversized" => Lagging(owner[o])
    /\ \A p \in Ops : Stuck(o, p)

LagInv == ~StaleReads => \A o \in Ops : LagOk(o)

LEMMA LagInit == Init => LagInv
  BY DEF Init, LagInv, LagOk, Stuck

LEMMA WhoIsRefused ==
  ASSUME TypeInv, NEW o \in Ops, Steps(o), Settles(o), outcome'[o] = "oversized"
  PROVE  RefuseOversized(o)
<1> USE DEF TypeInv, TypeOK, Settle, Fail
<1>1. ~StartSync(o) /\ ~SendAppend(o) /\ ~Retry(o) /\ ~ServeLog(o) /\ ~ApplyAppend(o)
      /\ ~RefuseAppend(o)
  BY DEF Settles, StartSync, SendAppend, Retry, ServeLog, ApplyAppend, RefuseAppend
<1>2. ~RefuseCorrupted(o) /\ ~RefuseMismatched(o) /\ ~FailReplay(o) /\ ~FailApply(o)
  BY DEF RefuseCorrupted, RefuseMismatched, FailReplay, FailApply
<1>3. ~GiveUp(o) /\ ~SyncRejects(o) /\ ~AppendRejects(o)
  BY DEF GiveUp, SyncRejects, AppendRejects
<1>4. ~AnswerLocally(o) /\ ~AnswerSynced(o) /\ ~AnswerUnappended(o) /\ ~FinishAppend(o)
  BY DEF AnswerLocally, AnswerSynced, AnswerUnappended, FinishAppend
<1> QED BY <1>1, <1>2, <1>3, <1>4 DEF Steps, Step, Serve, Disturb

(* A call that works on the replica of an instance that was refused is newer *)
(* than the refusal.                                                         *)
LEMMA RefusedBefore ==
  ASSUME TypeInv, QueueInv, NEW o \in Ops, NEW p \in Ops, outcome[o] = "oversized",
         owner[o] = owner[p], pc[p] \in {"queued", "running"}
  PROVE  o < p
<1>1. o \in Nat /\ p \in Nat /\ pc[o] = "done" /\ pc[p] # "done"
  BY OpsAreNumbers DEF TypeInv, TypeOK, CallPlaced
<1>2. Queued(o) /\ Queued(p)
  BY <1>1 DEF Queued, TypeInv, CallPlaced
<1>3. RunsAfter(p, o)
  BY DEF QueueInv
<1> QED BY <1>1, <1>2, <1>3 DEF RunsAfter

LEMMA RefusedStays ==
  ASSUME TypeInv, QueueInv, LagInv, ~StaleReads, NEW s \in Ops, Steps(s),
         NEW o \in Ops, outcome[o] = "oversized"
  PROVE  currentVersion'[owner[o]] = currentVersion[owner[o]]
<1>1. owner[o] \in Coordinators
  BY DEF TypeInv, TypeOK, CallPlaced
<1>2. CASE Replays(s) \/ HasAppended(s)
  <2>1. CASE owner[s] = owner[o]
    <3>1. pc[s] = "running" /\ o < s
      BY <1>2, <2>1, RefusedBefore DEF Replays, HasLog, HasAppended
    <3>2. Stuck(o, s)
      BY DEF LagInv, LagOk
    <3> QED BY <1>2, <2>1, <3>1, <3>2 DEF Stuck, Replays, HasLog, HasAppended
  <2>2. CASE owner[s] # owner[o]
    BY <1>1, <2>2, StepOnReplica
    DEF Synced, Stopped, Applied, Rested, CatchUp, TypeInv, TypeOK
  <2> QED BY <2>1, <2>2
<1>3. CASE ~Replays(s) /\ ~HasAppended(s)
  BY <1>3
  DEF Steps, Step, Serve, Disturb, RefuseCorrupted, AnswerLocally, StartSync,
      RefuseOversized, RefuseMismatched, FailReplay, AnswerSynced, AnswerUnappended,
      SendAppend, FinishAppend, FailApply, ApplyLocally, Retry, GiveUp, ServeLog,
      ApplyAppend, RefuseAppend, SyncRejects, AppendRejects, replicas
<1> QED BY <1>2, <1>3

LEMMA LaggingStays ==
  ASSUME TypeInv, TypeInv', QueueInv, ReplicaInv, LagInv, ~StaleReads, NEW s \in Ops, Steps(s),
         NEW o \in Ops, outcome'[o] = "oversized"
  PROVE  Lagging(owner[o])'
<1>1. /\ Len(log) \in Nat /\ Len(log') \in Nat /\ Len(log) <= Len(log')
      /\ (log' = log \/ ApplyAppend(s)) /\ MaxSyncMutationsPerBatch \in Nat
  BY LogLength, OnlyAppendsLog, SyncLimitAssumption
<1>2. UNCHANGED owner /\ \A x \in Ops \ {s} : outcome'[x] = outcome[x]
  BY StepFrame DEF Frame
<1>3. CASE outcome[o] = "oversized"
  <2>1. currentVersion'[owner[o]] = currentVersion[owner[o]] /\ Lagging(owner[o])
    BY <1>3, RefusedStays DEF LagInv, LagOk
  <2>2. currentVersion[owner[o]] \in Nat
    BY <1>3 DEF TypeInv, TypeOK, CallPlaced
  <2>3. Len(log) \in 0..Len(log) /\ Len(log') \in Len(log)..Len(log')
    BY <1>1
  <2> DEFINE k == currentVersion[owner[o]]
             was == MutationCount(SubSeq(log, k + 1, Len(log)))
             is == MutationCount(SubSeq(log', k + 1, Len(log')))
  <2>4. was \in Nat /\ is \in Nat /\ was <= is
    BY <1>1, <2>2, <2>3, SlicesGrow
  <2>5. was > MaxSyncMutationsPerBatch
    BY <2>1 DEF Lagging
  <2>6. is > MaxSyncMutationsPerBatch
    <3> HIDE DEF was, is
    <3> QED BY <1>1, <2>4, <2>5
  <2> QED BY <2>1, <2>6, <1>2 DEF Lagging
<1>4. CASE outcome[o] # "oversized"
  <2>1. o = s /\ Settles(s)
    BY <1>2, <1>4, OutcomeKept
  <2>2. RefuseOversized(s)
    BY <2>1, WhoIsRefused
  <2>3. HasLog(s) /\ Oversized(s) /\ log' = log /\ currentVersion' = currentVersion
    BY <2>2 DEF RefuseOversized, store, replicas
  <2>4. base[s] = currentVersion[owner[s]] /\ base[s] \in Nat
    BY <2>3, UnseenContinues DEF TypeInv, TypeOK
  <2>5. answer[s] \in 0..Len(log) /\ Len(log') \in answer[s]..Len(log')
    BY <1>1, <2>3, UnseenTyped
  <2> DEFINE k == currentVersion[owner[s]]
             was == MutationCount(SubSeq(log, k + 1, answer[s]))
             is == MutationCount(SubSeq(log', k + 1, Len(log')))
  <2>6. was \in Nat /\ is \in Nat /\ was <= is
    BY <1>1, <2>4, <2>5, SlicesGrow
  <2>7. was > MaxSyncMutationsPerBatch
    BY <2>3, <2>4 DEF Oversized, Unseen
  <2>8. is > MaxSyncMutationsPerBatch
    <3> HIDE DEF was, is
    <3> QED BY <1>1, <2>6, <2>7
  <2> QED BY <1>2, <2>1, <2>3, <2>8 DEF Lagging
<1> QED BY <1>3, <1>4

(* The step of a call made after the refusal. *)
LEMMA StuckSteps ==
  ASSUME TypeInv, TypeInv', QueueInv, ReplicaInv, LagInv, ~StaleReads, NEW s \in Ops, Steps(s),
         NEW o \in Ops, outcome[o] = "oversized", o < s, owner[o] = owner[s]
  PROVE  Stuck(o, s)'
<1>1. Stuck(o, s) /\ Lagging(owner[s])
  BY DEF LagInv, LagOk
<1>2. UNCHANGED <<owner, request>>
  BY StepFrame DEF Frame
<1>3. ~Replays(s) /\ ~HasAppended(s)
  BY <1>1 DEF Stuck, Replays, HasLog, HasAppended
<1>4. CASE Settles(s)
  <2>1. pc'[s] = "done"
    BY <1>4 DEF Settles
  <2>2. outcome'[s] \in Answers => ReadsLocally(s)
    BY <1>3, <1>4, WhoAnswers
    DEF AnswerLocally, AnswerSynced, AnswerUnappended, FinishAppend, ApplyLocally
  <2>3. ReadsLocally(s)' <=> ReadsLocally(s)
    BY <1>2 DEF ReadsLocally
  <2> QED BY <2>1, <2>2, <2>3 DEF Stuck
<1>5. CASE Asks(s)
  <2>1. wire'[s] = "asked" /\ pc'[s] = "running"
    BY <1>5 DEF Asks
  <2>2. outcome'[s] \notin Answers
    BY <2>1 DEF TypeInv, CallPlaced, Answers
  <2> QED BY <2>1, <2>2 DEF Stuck
<1>6. CASE ServeLog(s)
  <2>1. /\ pc[s] = "running" /\ wire' = [wire EXCEPT ![s] = "served"] /\ log' = log
        /\ answer' = [answer EXCEPT ![s] = Len(log)] /\ UNCHANGED <<pc, base, outcome>>
    <3>1. PICK v \in 0..Len(log) : v = Len(log) /\ answer' = [answer EXCEPT ![s] = v]
      BY <1>6 DEF ServeLog
    <3> QED BY <1>6, <3>1 DEF ServeLog, store, settlement
  <2>2. wire'[s] = "served" /\ answer'[s] = Len(log) /\ base'[s] = currentVersion[owner[s]]
    BY <2>1 DEF ReplicaInv, RunOk, TypeInv, TypeOK
  <2>3. Oversized(s)'
    BY <1>1, <2>1, <2>2 DEF Oversized, Unseen, Lagging
  <2>4. outcome'[s] \notin Answers
    BY <2>1 DEF TypeInv, CallPlaced, Answers
  <2> QED BY <2>2, <2>3, <2>4 DEF Stuck
<1>7. CASE ApplyAppend(s) \/ RefuseAppend(s)
  <2>1. wire[s] = "sent" /\ UNCHANGED <<pc, outcome>>
    BY <1>7 DEF ApplyAppend, RefuseAppend, settlement
  <2>2. pc'[s] # "running"
    BY <1>1, <2>1 DEF Stuck
  <2>3. ReadsLocally(s)' <=> ReadsLocally(s)
    BY <1>2 DEF ReadsLocally
  <2> QED BY <1>1, <2>1, <2>2, <2>3 DEF Stuck
<1>8. ~SendAppend(s)
  BY <1>3 DEF SendAppend
<1> QED BY <1>4, <1>5, <1>6, <1>7, <1>8, StepOnCall

LEMMA StuckStays ==
  ASSUME TypeInv, TypeInv', QueueInv, ReplicaInv, LagInv, ~StaleReads, NEW s \in Ops, Steps(s),
         NEW o \in Ops, NEW p \in Ops
  PROVE  Stuck(o, p)'
<1>1. /\ UNCHANGED <<owner, request>>
      /\ \A x \in Ops \ {s} :
            /\ outcome'[x] = outcome[x] /\ pc'[x] = pc[x] /\ wire'[x] = wire[x]
            /\ base'[x] = base[x] /\ answer'[x] = answer[x]
  BY StepFrame DEF Frame
<1> SUFFICES ASSUME outcome'[o] = "oversized", o < p, owner[o] = owner[p]
             PROVE  Stuck(o, p)'
  BY <1>1 DEF Stuck
<1>2. o \in Nat /\ p \in Nat /\ o # p
  BY OpsAreNumbers
<1>3. CASE outcome[o] = "oversized" /\ p = s
  BY <1>3, StuckSteps
<1>4. CASE outcome[o] = "oversized" /\ p # s
  <2>1. Stuck(o, p)
    BY <1>4 DEF LagInv, LagOk
  <2>2. ReadsLocally(p)' <=> ReadsLocally(p)
    BY <1>1 DEF ReadsLocally
  <2>3. ASSUME pc[p] = "running", wire[p] = "served" PROVE Oversized(p)'
    <3>1. Oversized(p)
      BY <1>4, <2>1, <2>3 DEF Stuck
    <3>2. /\ base[p] \in Nat /\ answer[p] \in Nat /\ answer[p] <= Len(log)
          /\ Len(log) \in Nat /\ Len(log') \in Nat /\ Len(log) <= Len(log')
      BY <2>3, LogLength DEF TypeInv, TypeOK, CallPlaced
    <3>3. answer[p] \in 0..Len(log) /\ answer[p] \in answer[p]..Len(log')
      BY <3>2
    <3>4. log' = log \/ ApplyAppend(s)
      BY OnlyAppendsLog
    <3> DEFINE was == MutationCount(SubSeq(log, base[p] + 1, answer[p]))
               is == MutationCount(SubSeq(log', base[p] + 1, answer[p]))
    <3>5. was \in Nat /\ is \in Nat /\ was <= is
      BY <3>2, <3>3, <3>4, SlicesGrow
    <3>6. was > MaxSyncMutationsPerBatch /\ MaxSyncMutationsPerBatch \in Nat
      BY <3>1, SyncLimitAssumption DEF Oversized, Unseen
    <3>7. is > MaxSyncMutationsPerBatch
      <4> HIDE DEF was, is
      <4> QED BY <3>5, <3>6
    <3>8. base'[p] = base[p] /\ answer'[p] = answer[p]
      BY <1>1, <1>4
    <3> QED BY <3>7, <3>8 DEF Oversized, Unseen
  <2>4. outcome'[p] = outcome[p] /\ pc'[p] = pc[p] /\ wire'[p] = wire[p]
    BY <1>1, <1>4
  <2>5. outcome[p] \in Answers => ReadsLocally(p)
    BY <1>4, <2>1 DEF Stuck
  <2>6. pc[p] = "running" => wire[p] \in {"asked", "served"}
    BY <1>4, <2>1 DEF Stuck
  <2> QED BY <2>2, <2>3, <2>4, <2>5, <2>6 DEF Stuck
<1>5. CASE outcome[o] # "oversized"
  <2>1. o = s /\ Settles(s)
    BY <1>1, <1>5, OutcomeKept
  <2>2. pc[s] \in {"queued", "running"} /\ Queued(s)
    BY <2>1 DEF Settles, Queued
  <2>3. p # s /\ RunsAfter(s, p)
    BY <1>2, <2>1 DEF QueueInv
  <2>4. outcome[p] \notin Answers /\ pc[p] # "running"
    BY <2>1, <2>2, <2>3 DEF RunsAfter, Queued, TypeInv, CallPlaced, Answers
  <2> QED BY <1>1, <2>3, <2>4 DEF Stuck
<1> QED BY <1>3, <1>4, <1>5

LEMMA LagStep == TypeInv /\ QueueInv /\ ReplicaInv /\ LagInv /\ [Next]_vars => LagInv'
<1> SUFFICES ASSUME TypeInv, QueueInv, ReplicaInv, LagInv, [Next]_vars, ~StaleReads,
                    NEW o \in Ops
             PROVE  LagOk(o)'
  BY DEF LagInv
<1>0. TypeInv'
  BY TypeStep
<1>a. LagOk(o)
  BY DEF LagInv
<1>b. ASSUME NEW p \in Ops, UNCHANGED <<log, wire, base, answer>>, outcome'[o] = outcome[o],
             outcome'[p] = outcome[p], pc'[p] = pc[p], owner'[o] = owner[o],
             owner'[p] = owner[p], request'[p] = request[p]
      PROVE  Stuck(o, p)'
  <2>1. Stuck(o, p)
    BY <1>a DEF LagOk
  <2>2. ReadsLocally(p)' <=> ReadsLocally(p)
    BY <1>b DEF ReadsLocally
  <2>3. Oversized(p)' <=> Oversized(p)
    BY <1>b DEF Oversized, Unseen
  <2> QED BY <1>b, <2>1, <2>2, <2>3 DEF Stuck
<1>1. CASE UNCHANGED vars
  <2>1. UNCHANGED <<log, currentVersion, wire, base, answer, outcome, pc, owner, request>>
    BY <1>1 DEF vars, store, replicas, callers, exchange, settlement
  <2>2. outcome'[o] = "oversized" => Lagging(owner[o])'
    BY <1>a, <2>1 DEF LagOk, Lagging
  <2>3. \A p \in Ops : Stuck(o, p)'
    BY <1>b, <2>1
  <2> QED BY <2>2, <2>3 DEF LagOk
<1>2. ASSUME NEW c \in Coordinators, NEW r \in Requests, Invoke(c, r) \/ PutNothing(c, r)
      PROVE  LagOk(o)'
  <2>0. PICK n \in Ops :
          /\ outcome'[n] \in {"pending", "empty"} /\ pc'[n] \in {"queued", "done"}
          /\ owner' = [owner EXCEPT ![n] = c] /\ request' = [request EXCEPT ![n] = r]
          /\ UNCHANGED <<log, replicas, exchange>>
          /\ \A x \in Ops \ {n} : outcome'[x] = outcome[x] /\ pc'[x] = pc[x]
    BY <1>2, InvokeFrame
  <2>a. \A x \in Ops \ {n} : owner'[x] = owner[x] /\ request'[x] = request[x]
    BY <2>0 DEF TypeInv, TypeOK
  <2>1. /\ outcome'[n] \in {"pending", "empty"} /\ pc'[n] \in {"queued", "done"}
        /\ UNCHANGED <<log, currentVersion, wire, base, answer>>
        /\ \A x \in Ops \ {n} : /\ outcome'[x] = outcome[x] /\ pc'[x] = pc[x]
                                /\ owner'[x] = owner[x] /\ request'[x] = request[x]
    BY <2>0, <2>a DEF replicas, exchange
  <2>2. outcome'[o] = "oversized" => Lagging(owner[o])'
    BY <1>a, <2>1 DEF LagOk, Lagging
  <2>3. ASSUME NEW p \in Ops PROVE Stuck(o, p)'
    <3>1. CASE o = n \/ p = n
      BY <2>1, <3>1 DEF Stuck, Answers
    <3>2. CASE o # n /\ p # n
      BY <1>b, <2>1, <3>2
    <3> QED BY <3>1, <3>2
  <2> QED BY <2>2, <2>3 DEF LagOk
<1>3. ASSUME NEW s \in Ops, Steps(s) PROVE LagOk(o)'
  <2>1. outcome'[o] = "oversized" => Lagging(owner[o])'
    BY <1>0, <1>3, LaggingStays
  <2>2. \A p \in Ops : Stuck(o, p)'
    BY <1>0, <1>3, StuckStays
  <2> QED BY <2>1, <2>2 DEF LagOk
<1> QED BY <1>1, <1>2, <1>3 DEF Next, Steps

(* An instance that was refused a sync for its size answers no later call,   *)
(* unless the store answers with an old log, but for local reads: it stays   *)
(* behind, and what it lacks only grows.                                     *)
THEOREM LaggardsStayBehind == Spec => []OversizedIsForGood
<1>1. Spec => [](TypeInv /\ QueueInv /\ ReplicaInv /\ LagInv)
  BY TypeInit, QueueInit, ReplicaInit, LagInit, TypeStep, QueueStep, ReplicaStep, LagStep,
     PTL DEF Spec
<1>2. LagInv => OversizedIsForGood
  BY DEF LagInv, LagOk, Stuck, OversizedIsForGood
<1> QED BY <1>1, <1>2, PTL

-----------------------------------------------------------------------------
(* Poison. *)

(* Whatever the log holds and however long it is: a mutation in it throws    *)
(* where it is applied only when its entries no longer fit under the         *)
(* sequence counter's limit, since every other reason to throw was judged    *)
(* before it was appended, on the same tree.                                 *)
THEOREM OnlyOverflowIsFatal == Spec => []OnlyOverflowPoisons
<1>1. Spec => [](TypeInv /\ QueueInv /\ ReplicaInv /\ JudgedInv)
  BY TypeInit, QueueInit, ReplicaInit, JudgedInit,
     TypeStep, QueueStep, ReplicaStep, JudgedStep, PTL DEF Spec
<1>2. TypeInv /\ JudgedInv => OnlyOverflowPoisons
  <2> SUFFICES ASSUME TypeInv, JudgedInv, NEW i \in Throwing(<<>>, log)
               PROVE  Overflows(Replay(SubSeq(log, 1, i - 1)), log[i].mutation)
    BY DEF OnlyOverflowPoisons
  <2> DEFINE s == SubSeq(log, 1, i - 1)
             t == Replay(s)
             m == log[i].mutation
  <2>1. /\ log \in Seq(Batch) /\ Len(log) \in Nat /\ i \in 1..Len(log) /\ log[i] \in Batch
    BY LoggedTyped DEF TypeInv, TypeOK, Throwing
  <2>2. i \in Nat /\ i - 1 \in Nat /\ i - 1 <= Len(log)
    BY <2>1
  <2>3. s \in Seq(Batch)
    <3>1. SubSeq(log, 0 + 1, i - 1) \in Seq(Batch)
      BY <2>1, <2>2, SliceTyped
    <3> QED BY <3>1
  <2>4. IsMutation(m)
    BY <2>1, WritesAssumption DEF Batch
  <2>5. Evaluate(t, m) = "append"
    BY <2>1 DEF JudgedInv, JudgedAt
  <2>6. Apply(Replay(<<>> \o s), m).threw
    BY DEF Throwing
  <2>9. Counted(t)
    <3>1. i - 1 \in 0..Len(log)
      BY <2>1
    <3> QED BY <2>1, <3>1, ReplayIsWellFormed DEF WellFormed
  <2> HIDE DEF s
  <2>7. <<>> \o s = s
    BY <2>3
  <2>8. Apply(t, m).threw
    BY <2>6, <2>7
  <2> HIDE DEF t, m
  <2>10. Overflows(t, m)
    BY <2>4, <2>5, <2>8, <2>9, ApplyCounts
  <2> QED BY <2>10 DEF s, t, m
<1> QED BY <1>1, <1>2, PTL

-----------------------------------------------------------------------------
(***************************************************************************)
(* Linearizability: when reads are strong and the store serves its latest    *)
(* log, every behaviour of the instances is one of a single tree             *)
(* (LinearTree.tla).  A write takes effect when the store applies its        *)
(* append; a call is answered when its promise settles, with a tree of its   *)
(* own interval because its answer is fresh (FreshInv) and is that of a      *)
(* prefix of the log (AnswerInv).  And the two safety properties that        *)
(* settling rests on: the steps of a call are numbered downwards, and the    *)
(* first pending call of an instance can always take one.                    *)
(***************************************************************************)

StrongReads == ~StaleReads /\ \A c \in Coordinators : ReadMode[c] = "strong"

(* A number nobody has used asks nothing; an append under way belongs to a   *)
(* call that is not answered, or failed without knowing what became of it.   *)
MapInv == \A o \in Ops :
    /\ pc[o] = "idle" => request[o] = Null
    /\ wire[o] = "sent" => outcome[o] \in {"pending", "appendFailed", "applyFailed"}

LEMMA MapInit == Init => MapInv
  BY DEF Init, MapInv

LEMMA MapStep == TypeInv /\ MapInv /\ [Next]_vars => MapInv'
<1> SUFFICES ASSUME TypeInv, MapInv, [Next]_vars PROVE MapInv'
  OBVIOUS
<1>1. CASE UNCHANGED vars
  BY <1>1 DEF vars, MapInv, callers, exchange, settlement
<1>2. ASSUME NEW c \in Coordinators, NEW r \in Requests, Invoke(c, r) \/ PutNothing(c, r)
      PROVE  MapInv'
  <2>1. PICK n \in Ops :
          /\ wire[n] = "none" /\ pc'[n] \in {"queued", "done"} /\ wire' = wire
          /\ request' = [request EXCEPT ![n] = r]
          /\ \A x \in Ops \ {n} : pc'[x] = pc[x] /\ outcome'[x] = outcome[x]
    BY <1>2, InvokeFrame DEF exchange
  <2>2. \A x \in Ops \ {n} : request'[x] = request[x]
    BY <2>1 DEF TypeInv, TypeOK
  <2> QED BY <2>1, <2>2 DEF MapInv
<1>3. ASSUME NEW o \in Ops, Steps(o) PROVE MapInv'
  <2>1. Frame(o)
    BY <1>3, StepFrame
  <2>2. pc'[o] # "idle"
    BY <2>1 DEF Frame, Progresses
  <2>3. wire'[o] = "sent" => outcome'[o] \in {"pending", "appendFailed", "applyFailed"}
    <3>1. CASE Settles(o)
      BY <3>1 DEF Settles, FailsCleanly, FailsInDoubt, ObservesLocally, ObservesSynced,
                  Commits, HasLog, HasAppended, exchange, MapInv, TypeInv, CallPlaced
    <3>2. CASE SendAppend(o)
      BY <3>2 DEF SendAppend, Replays, HasLog, settlement, TypeInv, CallPlaced
    <3>3. CASE Asks(o) \/ ServeLog(o) \/ ApplyAppend(o) \/ RefuseAppend(o)
      BY <3>3 DEF Asks, ServeLog, ApplyAppend, RefuseAppend, TypeInv, TypeOK
    <3> QED BY <1>3, <3>1, <3>2, <3>3, StepOnCall
  <2> QED BY <2>1, <2>2, <2>3 DEF Frame, MapInv
<1> QED BY <1>1, <1>2, <1>3 DEF Next, Steps

-----------------------------------------------------------------------------
(* The abstract state. *)

LEMMA HistoryTyped ==
  ASSUME NEW l \in Seq(Batch)
  PROVE  /\ History(l) \in Seq([op : Ops, mutation : Writes])
         /\ Len(History(l)) = Len(l) /\ DOMAIN History(l) = 1..Len(l)
         /\ \A i \in 1..Len(l) : History(l)[i] = [op |-> l[i].op, mutation |-> l[i].mutation]
<1>1. Len(l) \in Nat /\ DOMAIN l = 1..Len(l) /\ \A i \in 1..Len(l) : l[i] \in Batch
  BY LenProperties, ElementOfSeq
<1>2. /\ DOMAIN History(l) = 1..Len(l)
      /\ \A i \in 1..Len(l) : History(l)[i] = [op |-> l[i].op, mutation |-> l[i].mutation]
  BY <1>1 DEF History
<1>3. \A i \in 1..Len(l) :
         [op |-> l[i].op, mutation |-> l[i].mutation] \in [op : Ops, mutation : Writes]
  BY <1>1 DEF Batch
<1>4. History(l) \in [1..Len(l) -> [op : Ops, mutation : Writes]]
  BY <1>1, <1>3 DEF History
<1>5. History(l) \in Seq([op : Ops, mutation : Writes])
  <2> DEFINE H == [op : Ops, mutation : Writes]
  <2>1. History(l) \in [1..Len(l) -> H]
    BY <1>4
  <2> HIDE DEF H
  <2>2. Seq(H) = UNION {[1..n -> H] : n \in Nat}
    BY SeqDef
  <2>3. History(l) \in Seq(H)
    BY <1>1, <2>1, <2>2
  <2> QED BY <2>3 DEF H
<1>6. Len(History(l)) = Len(l)
  BY <1>1, <1>2, <1>5, LenProperties
<1> QED BY <1>2, <1>5, <1>6

(* The tree of the first writes is the replay of the first batches. *)
LEMMA TreeAtIsReplay ==
  ASSUME TypeInv, NEW n \in 0..Len(log)
  PROVE  Abstract!TreeAt(n) = Replay(SubSeq(log, 1, n))
<1>1. log \in Seq(Batch) /\ Len(log) \in Nat /\ n \in Nat /\ n <= Len(log)
  BY LoggedTyped DEF TypeInv, TypeOK
<1>2. /\ SubSeq(log, 0 + 1, n) \in Seq(Batch)
      /\ Len(SubSeq(log, 0 + 1, n)) = IF 0 < n THEN n - 0 ELSE 0
      /\ \A i \in 1..(n - 0) : SubSeq(log, 0 + 1, n)[i] = log[0 + i]
  BY <1>1, SliceTyped
<1>3. /\ SubSeq(log, 1, n) \in Seq(Batch) /\ Len(SubSeq(log, 1, n)) = n
      /\ \A i \in 1..n : SubSeq(log, 1, n)[i] = log[i]
  BY <1>1, <1>2
<1>4. DOMAIN SubSeq(log, 1, n) = 1..n
  BY <1>3, LenProperties
<1>5. \A i \in 1..n : History(log)[i].mutation = log[i].mutation
  <2> SUFFICES ASSUME NEW i \in 1..n PROVE History(log)[i].mutation = log[i].mutation
    OBVIOUS
  <2>1. i \in 1..Len(log)
    BY <1>1
  <2>2. History(log)[i] = [op |-> log[i].op, mutation |-> log[i].mutation]
    BY <1>1, <2>1, HistoryTyped
  <2> QED BY <2>2
<1>6. [i \in 1..n |-> History(log)[i].mutation]
      = [i \in DOMAIN SubSeq(log, 1, n) |-> SubSeq(log, 1, n)[i].mutation]
  BY <1>3, <1>4, <1>5
<1> QED BY <1>6 DEF Abstract!TreeAt, Replay

LEMMA HistoryAppended ==
  ASSUME TypeInv, TypeInv', NEW o \in Ops, ApplyAppend(o)
  PROVE  History(log') = Append(History(log), [op |-> o, mutation |-> request[o]])
<1> DEFINE w == [op |-> o, mutation |-> request[o]]
           H == [op : Ops, mutation : Writes]
<1>1. PICK b \in Batch :
        /\ b.op = o /\ b.mutation = request[o]
        /\ Len(log) \in Nat /\ Len(log') = Len(log) + 1
        /\ \A i \in 1..Len(log) : log'[i] = log[i]
        /\ log'[Len(log) + 1] = b
  BY LogGrows
<1>2. w \in H
  BY <1>1 DEF Batch
<1>3. /\ History(log) \in Seq(H) /\ Len(History(log)) = Len(log)
      /\ \A i \in 1..Len(log) :
            History(log)[i] = [op |-> log[i].op, mutation |-> log[i].mutation]
  BY HistoryTyped DEF TypeInv, TypeOK
<1>4. DOMAIN log' = 1..Len(log')
  BY LenProperties DEF TypeInv, TypeOK
<1>5. /\ DOMAIN History(log') = 1..(Len(log) + 1)
      /\ \A i \in 1..(Len(log) + 1) :
            History(log')[i] = [op |-> log'[i].op, mutation |-> log'[i].mutation]
  BY <1>1, <1>4 DEF History
<1> HIDE DEF w, H
<1>6. /\ Append(History(log), w) \in Seq(H)
      /\ Len(Append(History(log), w)) = Len(History(log)) + 1
      /\ \A i \in 1..Len(History(log)) : Append(History(log), w)[i] = History(log)[i]
      /\ Append(History(log), w)[Len(History(log)) + 1] = w
  BY <1>2, <1>3, AppendProperties
<1>7. /\ Append(History(log), w) \in Seq(H)
      /\ Len(Append(History(log), w)) = Len(log) + 1
      /\ \A i \in 1..Len(log) : Append(History(log), w)[i] = History(log)[i]
      /\ Append(History(log), w)[Len(log) + 1] = w
  BY <1>3, <1>6
<1>8. ASSUME NEW i \in 1..(Len(log) + 1) PROVE History(log')[i] = Append(History(log), w)[i]
  <2>1. CASE i \in 1..Len(log)
    <3>1. History(log')[i] = [op |-> log'[i].op, mutation |-> log'[i].mutation]
      BY <1>5
    <3>2. log'[i] = log[i]
      BY <1>1, <2>1
    <3>3. History(log)[i] = [op |-> log[i].op, mutation |-> log[i].mutation]
      BY <1>3, <2>1
    <3>4. Append(History(log), w)[i] = History(log)[i]
      BY <1>7, <2>1
    <3> QED BY <3>1, <3>2, <3>3, <3>4
  <2>2. CASE i = Len(log) + 1
    <3>1. History(log')[i] = [op |-> log'[i].op, mutation |-> log'[i].mutation]
      BY <1>5
    <3>2. log'[i].op = o /\ log'[i].mutation = request[o]
      BY <1>1, <2>2
    <3>3. Append(History(log), w)[i] = w
      BY <1>7, <2>2
    <3>4. [op |-> log'[i].op, mutation |-> log'[i].mutation] = w
      BY <3>2 DEF w
    <3> QED BY <3>1, <3>3, <3>4
  <2>3. Len(log) \in Nat
    BY <1>1
  <2>4. i \in 1..Len(log) \/ i = Len(log) + 1
    BY <2>3
  <2> QED BY <2>1, <2>2, <2>4
<1>9. History(log') \in Seq(H) /\ Len(History(log')) = Len(log) + 1
  <2>1. History(log') \in Seq([op : Ops, mutation : Writes])
        /\ Len(History(log')) = Len(log')
    BY HistoryTyped DEF TypeInv, TypeOK
  <2> QED BY <1>1, <2>1 DEF H
<1> QED BY <1>7, <1>8, <1>9, SeqEqual DEF w

-----------------------------------------------------------------------------
(* Calls, seen from the abstract tree. *)

LEMMA RepliesAs ==
  ASSUME TypeInv, NEW o \in Ops,
         \A x \in Ops \ {o} : outcome'[x] = outcome[x] /\ result'[x] = result[x]
  PROVE  ReplyOfOutcome' = [ReplyOfOutcome EXCEPT ![o] = Reply(outcome'[o], result'[o])]
  BY DEF ReplyOfOutcome

LEMMA PendingIsOpen ==
  ASSUME TypeInv, NEW o \in Ops, pc[o] \in {"queued", "running"}
  PROVE  o \in Abstract!Open
<1>1. outcome[o] = "pending" /\ request[o] # Null
  BY NullAssumption DEF TypeInv, CallPlaced
<1>2. Reply("pending", result[o]) = [kind |-> "none", value |-> Null]
  BY DEF Reply, ReplyKind, Answers
<1>3. ReplyOfOutcome[o] = [kind |-> "none", value |-> Null]
  BY <1>1, <1>2 DEF ReplyOfOutcome
<1> QED BY <1>1, <1>3 DEF Abstract!Open, Abstract!Unanswered

LEMMA NotInHistory ==
  ASSUME TypeInv, LogInv, NEW o \in Ops, wire[o] # "appended"
  PROVE  o \notin Abstract!TookEffect
<1> SUFFICES ASSUME NEW i \in DOMAIN History(log), History(log)[i].op = o PROVE FALSE
  BY DEF Abstract!TookEffect
<1>1. log \in Seq(Batch)
  BY DEF TypeInv, TypeOK
<1>2. i \in 1..Len(log) /\ History(log)[i] = [op |-> log[i].op, mutation |-> log[i].mutation]
  BY <1>1, HistoryTyped
<1>3. log[i].op = o
  BY <1>2
<1> QED BY <1>2, <1>3 DEF LogInv, Logged

-----------------------------------------------------------------------------
(* Steps, seen from the abstract tree. *)

LEMMA CallsAreAsked ==
  ASSUME TypeInv, MapInv, NEW c \in Coordinators, NEW r \in Requests,
         Invoke(c, r) \/ PutNothing(c, r)
  PROVE  Abstract!Next
<1>1. PICK n \in Ops : n = invoked + 1 /\ invoked \in Nat
  BY OpsAssumption DEF TypeInv, TypeOK, Invoke, PutNothing, Ops
<1>2. pc[n] = "idle" /\ outcome[n] = "pending" /\ request[n] = Null
  BY <1>1, OpsAreNumbers DEF TypeInv, CallPlaced, MapInv
<1>3. Len(History(log)) = Len(log)
  BY HistoryTyped DEF TypeInv, TypeOK
<1>4. log' = log /\ History(log') = History(log)
  BY DEF Invoke, PutNothing, store
<1>5. /\ request' = [request EXCEPT ![n] = r]
      /\ since' = [since EXCEPT ![n] = Len(History(log))]
  BY <1>1, <1>3 DEF Invoke, PutNothing
<1>6. CASE Invoke(c, r)
  <2>1. ReplyOfOutcome' = ReplyOfOutcome
    BY <1>6 DEF Invoke, settlement, ReplyOfOutcome
  <2>2. Abstract!Ask(n, r)
    BY <1>2, <1>4, <1>5, <2>1 DEF Abstract!Ask
  <2> QED BY <2>2 DEF Abstract!Next
<1>7. CASE PutNothing(c, r)
  <2>1. /\ r.type = "putMany" /\ r.entries = <<>>
        /\ outcome' = [outcome EXCEPT ![n] = "empty"]
        /\ result' = [result EXCEPT ![n] = <<>>]
    BY <1>1, <1>7 DEF PutNothing, Settle
  <2>2. outcome'[n] = "empty" /\ result'[n] = <<>>
    BY <2>1 DEF TypeInv, TypeOK
  <2>3. \A x \in Ops \ {n} : outcome'[x] = outcome[x] /\ result'[x] = result[x]
    BY <2>1 DEF TypeInv, TypeOK
  <2>4. Reply("empty", <<>>) = [kind |-> "empty", value |-> <<>>]
    BY DEF Reply, ReplyKind
  <2>5. ReplyOfOutcome' = [ReplyOfOutcome EXCEPT ![n] = [kind |-> "empty", value |-> <<>>]]
    BY <2>2, <2>3, <2>4, RepliesAs
  <2>6. Abstract!AskNothing(n, r)
    BY <1>2, <1>4, <1>5, <2>1, <2>5 DEF Abstract!AskNothing
  <2> QED BY <2>6 DEF Abstract!Next
<1> QED BY <1>6, <1>7

(* The store applies an append: the write takes effect, even if its caller   *)
(* was already told that it failed.                                          *)
LEMMA AppendsTakeEffect ==
  ASSUME TypeInv, TypeInv', LogInv, MapInv, NEW o \in Ops, ApplyAppend(o)
  PROVE  Abstract!Next
<1>1. /\ wire[o] = "sent" /\ request[o] \in Writes /\ request' = request /\ since' = since
      /\ outcome' = outcome /\ result' = result
  BY DEF ApplyAppend, callers, settlement, TypeInv, CallPlaced
<1>2. o \in Abstract!Open \union Abstract!InDoubt
  <2>1. CASE outcome[o] = "pending"
    <3>1. pc[o] \in {"queued", "running"}
      BY <1>1, <2>1 DEF TypeInv, TypeOK, CallPlaced
    <3> QED BY <3>1, PendingIsOpen
  <2>2. CASE outcome[o] \in {"appendFailed", "applyFailed"}
    <3>1. Reply(outcome[o], result[o]).kind = "unknown"
      BY <2>2 DEF Reply, ReplyKind, Answers
    <3> QED BY <3>1 DEF ReplyOfOutcome, Abstract!InDoubt
  <2> QED BY <1>1, <2>1, <2>2 DEF MapInv
<1>3. o \notin Abstract!TookEffect
  BY <1>1, NotInHistory
<1>4. request[o].type \in WriteTypes
  BY <1>1 DEF Writes
<1>5. History(log') = Append(History(log), [op |-> o, mutation |-> request[o]])
  BY HistoryAppended
<1>6. ReplyOfOutcome' = ReplyOfOutcome
  BY <1>1 DEF ReplyOfOutcome
<1>7. Abstract!TakeEffect(o)
  BY <1>1, <1>2, <1>3, <1>4, <1>5, <1>6 DEF Abstract!TakeEffect
<1> QED BY <1>7 DEF Abstract!Next

(* What a call that settles is told beyond SequentialAnswer. *)
LEMMA ToldValue ==
  ASSUME TypeInv, StrongReads, NEW o \in Ops, Steps(o), Settles(o)
  PROVE  /\ outcome'[o] \in Failures \union {"nothing", "invalid"} => result'[o] = Null
         /\ outcome'[o] = "observed" => /\ request[o].type \in ReadTypes
                                        /\ request[o].type = "sync" => result'[o] = Null
         /\ outcome'[o] \in {"nothing", "invalid"} => request[o].type \in WriteTypes
<1> USE DEF TypeInv, TypeOK, CallPlaced, Settle, Fail, Failures, Settles
<1>1. CASE RefuseCorrupted(o) \/ RefuseOversized(o) \/ RefuseMismatched(o) \/ FailReplay(o)
  BY <1>1 DEF RefuseCorrupted, RefuseOversized, RefuseMismatched, FailReplay
<1>2. CASE FailApply(o) \/ GiveUp(o) \/ SyncRejects(o) \/ AppendRejects(o)
  BY <1>2 DEF FailApply, GiveUp, SyncRejects, AppendRejects
<1>3. CASE AnswerSynced(o)
  BY <1>3 DEF AnswerSynced
<1>4. CASE AnswerUnappended(o)
  BY <1>4 DEF AnswerUnappended
<1>5. CASE FinishAppend(o)
  BY <1>5 DEF FinishAppend
<1>6. CASE AnswerLocally(o)
  BY <1>6 DEF AnswerLocally, Ready, ReadsLocally, StrongReads
<1>7. CASE StartSync(o) \/ SendAppend(o) \/ Retry(o)
  BY <1>7 DEF StartSync, SendAppend, Retry, Replays, HasLog, WasRefused
<1>8. CASE ServeLog(o) \/ ApplyAppend(o) \/ RefuseAppend(o)
  BY <1>8 DEF ServeLog, ApplyAppend, RefuseAppend
<1> QED BY <1>1, <1>2, <1>3, <1>4, <1>5, <1>6, <1>7, <1>8 DEF Steps, Step, Serve, Disturb

(* A call settles: the abstract tree answers it. *)
LEMMA SettlingAnswers ==
  ASSUME TypeInv, TypeInv', LogInv, TraceInv, FreshInv', AnswerInv', StrongReads,
         NEW o \in Ops, Steps(o), Settles(o)
  PROVE  Abstract!Next
<1> DEFINE told == [kind |-> ReplyKind(outcome'[o]), value |-> result'[o]]
<1>1. /\ log' = log /\ wire' = wire /\ request' = request /\ since' = since
      /\ owner[o] \in Coordinators /\ owner' = owner
      /\ pc[o] \in {"queued", "running"} /\ outcome'[o] # "pending"
      /\ outcome'[o] # "empty" /\ \A x \in Ops \ {o} : /\ outcome'[x] = outcome[x]
                                                       /\ result'[x] = result[x]
  <2>1. Frame(o)
    BY StepFrame
  <2>2. pc'[o] = "done" /\ outcome[o] = "pending" /\ pc[o] \in {"queued", "running"}
        /\ log' = log /\ wire' = wire
    BY DEF Settles, exchange
  <2> QED BY <2>1, <2>2 DEF Frame, TypeInv, CallPlaced
<1>2. UNCHANGED <<History(log), request, since>>
  BY <1>1 DEF History
<1>3. o \in Abstract!Open
  BY <1>1, PendingIsOpen
<1>4. ReplyOfOutcome' = [ReplyOfOutcome EXCEPT ![o] = told]
  <2>1. Reply(outcome'[o], result'[o]) = told
    BY <1>1 DEF Reply
  <2> QED BY <1>1, <2>1, RepliesAs
<1>5. /\ outcome'[o] \in Failures \union {"nothing", "invalid"} => result'[o] = Null
      /\ outcome'[o] = "observed" => /\ request[o].type \in ReadTypes
                                     /\ request[o].type = "sync" => result'[o] = Null
      /\ outcome'[o] \in {"nothing", "invalid"} => request[o].type \in WriteTypes
  BY ToldValue
<1>6. outcome'[o] \in Effectless => o \notin Abstract!TookEffect
  <2>1. outcome'[o] \in Effectless => wire[o] # "appended"
    BY <1>1 DEF Settles, FailsCleanly, FailsInDoubt, ObservesLocally, ObservesSynced,
                Commits, HasLog, Effectless, Answers, Failures, TypeInv, CallPlaced
  <2> QED BY <2>1, NotInHistory
<1>7. CASE outcome'[o] \in {"appendFailed", "applyFailed"}
  <2>1. told = [kind |-> "unknown", value |-> Null]
    BY <1>5, <1>7 DEF ReplyKind, Answers, Failures
  <2>2. Abstract!FailInDoubt(o)
    BY <1>2, <1>3, <1>4, <2>1 DEF Abstract!FailInDoubt, Abstract!Answer
  <2> QED BY <2>2 DEF Abstract!Next
<1>8. CASE outcome'[o] \in Failures \ {"appendFailed", "applyFailed"}
  <2>1. told = [kind |-> "failed", value |-> Null]
    BY <1>5, <1>8 DEF ReplyKind, Answers, Failures
  <2>2. Abstract!FailCleanly(o)
    BY <1>2, <1>3, <1>4, <1>6, <1>8, <2>1
    DEF Abstract!FailCleanly, Abstract!Answer, Effectless
  <2> QED BY <2>2 DEF Abstract!Next
<1>9. CASE outcome'[o] = "committed"
  <2>1. SequentialAnswer(o)'
    BY DEF AnswerInv
  <2>2. /\ at'[o] \in Nat /\ at'[o] >= 1 /\ at'[o] <= Len(log) /\ log[at'[o]].op = o
        /\ ~Apply(Replay(SubSeq(log, 1, at'[o] - 1)), request[o]).threw
        /\ result'[o] = Apply(Replay(SubSeq(log, 1, at'[o] - 1)), request[o]).result
    BY <1>1, <1>9, <2>1 DEF SequentialAnswer, Answers, TypeInv, TypeOK
  <2>3. at'[o] \in 1..Len(log) /\ at'[o] - 1 \in 0..Len(log)
    BY <2>2, LoggedTyped
  <2>4. Abstract!TreeAt(at'[o] - 1) = Replay(SubSeq(log, 1, at'[o] - 1))
    BY <2>3, TreeAtIsReplay
  <2>5. at'[o] \in DOMAIN History(log)
        /\ History(log)[at'[o]] = [op |-> log[at'[o]].op, mutation |-> log[at'[o]].mutation]
    BY <2>3, HistoryTyped DEF TypeInv, TypeOK
  <2>6. History(log)[at'[o]].op = o
    BY <2>2, <2>5
  <2>7. told = [kind |-> "committed", value |-> result'[o]]
    BY <1>9 DEF ReplyKind, Answers
  <2>8. Abstract!Answer(o, "committed", Apply(Abstract!TreeAt(at'[o] - 1), request[o]).result)
    BY <1>2, <1>4, <2>2, <2>4, <2>7 DEF Abstract!Answer
  <2>9. ~Apply(Abstract!TreeAt(at'[o] - 1), request[o]).threw
    BY <2>2, <2>4
  <2>10. Abstract!AnswerWrite(o)
    BY <1>3, <2>5, <2>6, <2>8, <2>9 DEF Abstract!AnswerWrite
  <2> QED BY <2>10 DEF Abstract!Next
<1>10. CASE outcome'[o] \in {"observed", "nothing", "invalid"}
  <2>1. SequentialAnswer(o)' /\ FreshAnswer(o)'
    BY DEF AnswerInv, FreshInv
  <2>2. /\ at'[o] \in Nat /\ since[o] \in Nat /\ at'[o] <= Len(log) /\ since[o] <= at'[o]
        /\ outcome'[o] = "observed" /\ request[o].type # "sync" =>
             result'[o] = Replay(SubSeq(log, 1, at'[o])).entries
        /\ outcome'[o] # "observed" =>
             Evaluate(Replay(SubSeq(log, 1, at'[o])), request[o]) = outcome'[o]
    BY <1>1, <1>10, <2>1
    DEF SequentialAnswer, FreshAnswer, StrongReads, Answers, TypeInv, TypeOK
  <2>3. at'[o] \in 0..Len(log) /\ at'[o] \in since[o]..Len(History(log))
    BY <2>2, LoggedTyped, HistoryTyped DEF TypeInv, TypeOK
  <2>4. Abstract!TreeAt(at'[o]) = Replay(SubSeq(log, 1, at'[o]))
    BY <2>3, TreeAtIsReplay
  <2>5. told = [kind |-> outcome'[o], value |-> result'[o]]
    BY <1>10 DEF ReplyKind, Answers
  <2>6. Abstract!Answer(o, outcome'[o], result'[o])
    BY <1>2, <1>4, <2>5 DEF Abstract!Answer
  <2>7. Abstract!AnswerFrom(o, at'[o])
    BY <1>5, <1>10, <2>2, <2>4, <2>6 DEF Abstract!AnswerFrom, ReadTypes
  <2>8. o \notin Abstract!TookEffect
    BY <1>6, <1>10 DEF Effectless, Answers
  <2>9. Abstract!AnswerRead(o)
    BY <1>3, <2>3, <2>7, <2>8 DEF Abstract!AnswerRead
  <2> QED BY <2>9 DEF Abstract!Next
<1>11. outcome'[o] \in Failures \union {"committed", "observed", "nothing", "invalid"}
  BY <1>1 DEF TypeInv, TypeOK, Answers
<1> QED BY <1>7, <1>8, <1>9, <1>10, <1>11

LinearInv == TypeInv /\ QueueInv /\ LogInv /\ ReplicaInv /\ TraceInv /\ FreshInv
             /\ AnswerInv /\ MapInv

LEMMA LinearInit == Init => Abstract!Init
<1> SUFFICES ASSUME Init PROVE Abstract!Init
  OBVIOUS
<1>1. /\ log = <<>> /\ request = [o \in Ops |-> Null] /\ since = [o \in Ops |-> 0]
      /\ outcome = [o \in Ops |-> "pending"] /\ result = [o \in Ops |-> Null]
  BY DEF Init
<1>2. History(<<>>) = <<>>
  BY DEF History
<1>3. \A o \in Ops : Reply(outcome[o], result[o]) = [kind |-> "none", value |-> Null]
  BY <1>1 DEF Reply, ReplyKind, Answers
<1>4. ReplyOfOutcome = [o \in Ops |-> [kind |-> "none", value |-> Null]]
  BY <1>3 DEF ReplyOfOutcome
<1> QED BY <1>1, <1>2, <1>4 DEF Abstract!Init, Abstract!Unanswered

LEMMA LinearStep ==
  StrongReads /\ LinearInv /\ LinearInv' /\ [Next]_vars => [Abstract!Next]_(Abstract!vars)
<1> SUFFICES ASSUME StrongReads, LinearInv, LinearInv', [Next]_vars
             PROVE  Abstract!Next \/ UNCHANGED Abstract!vars
  OBVIOUS
<1>0. ASSUME log' = log, request' = request, since' = since, outcome' = outcome,
             result' = result
      PROVE  UNCHANGED Abstract!vars
  BY <1>0 DEF Abstract!vars, History, ReplyOfOutcome
<1>1. CASE UNCHANGED vars
  BY <1>0, <1>1 DEF vars, store, callers, settlement
<1>2. ASSUME NEW c \in Coordinators, NEW r \in Requests, Invoke(c, r) \/ PutNothing(c, r)
      PROVE  Abstract!Next
  BY <1>2, CallsAreAsked DEF LinearInv
<1>3. ASSUME NEW o \in Ops, Steps(o) PROVE Abstract!Next \/ UNCHANGED Abstract!vars
  <2>1. CASE ApplyAppend(o)
    BY <2>1, AppendsTakeEffect DEF LinearInv
  <2>2. CASE Settles(o)
    BY <1>3, <2>2, SettlingAnswers DEF LinearInv
  <2>3. CASE ~Settles(o) /\ ~ApplyAppend(o)
    <3>1. log' = log /\ outcome' = outcome /\ result' = result
      BY <1>3, <2>3, OnlyAppendsLog, OutcomeKept DEF LinearInv
    <3>2. request' = request /\ since' = since
      BY <1>3, StepFrame DEF Frame, LinearInv
    <3> QED BY <1>0, <3>1, <3>2
  <2> QED BY <2>1, <2>2, <2>3
<1> QED BY <1>1, <1>2, <1>3 DEF Next, Steps

(* Whatever the tree makes of a mutation, and for any number of instances    *)
(* and calls: with strong reads and a store that serves its latest log, the  *)
(* instances behave as one tree whose calls take effect one at a time.       *)
THEOREM InstancesAreLinearizable ==
  ASSUME StrongReads
  PROVE  Spec => ImplementsLinearTree
<1>1. Spec => []LinearInv
  BY TypeInit, QueueInit, LogInit, ReplicaInit, TraceInit, FreshInit, AnswerInit, MapInit,
     TypeStep, QueueStep, LogStep, ReplicaStep, TraceStep, FreshStep, AnswerStep, MapStep,
     PTL DEF Spec, LinearInv
<1>2. LinearInv /\ LinearInv' /\ [Next]_vars => [Abstract!Next]_(Abstract!vars)
  BY LinearStep
<1> QED BY <1>1, <1>2, LinearInit, PTL DEF Spec, ImplementsLinearTree, Abstract!Spec
-----------------------------------------------------------------------------
(* Every call settles.  That is a liveness property, which rests on the      *)
(* fairness of the event loop and of the store; what the queue and the retry *)
(* loop contribute to it is safety: there is always a call that can go on,   *)
(* and no call can go on for ever.                                           *)

Pending(o) == pc[o] \in {"queued", "running"}

(* The steps a call still has in front of it, at most: four an attempt.      *)
StepsLeft(o) ==
    CASE pc[o] = "queued" -> 4 * MaxRetries + 1
      [] pc[o] = "running" -> 4 * (MaxRetries - 1 - attempt[o]) +
            (CASE wire[o] = "asked" -> 4 [] wire[o] = "served" -> 3
               [] wire[o] = "sent" -> 2 [] OTHER -> 1)
      [] OTHER -> 0

EveryStepCounts ==
    [][\A o \in Ops : Pending(o) =>
          IF Steps(o) THEN StepsLeft(o)' < StepsLeft(o)
                      ELSE StepsLeft(o)' = StepsLeft(o)]_vars

(* What a call, or the store for it, can do next: the guards of Step(o) and  *)
(* of Serve(o), in that order.                                               *)
CanGoOn(o) ==
    \/ Ready(o) /\ corrupted[owner[o]]
    \/ Ready(o) /\ ~corrupted[owner[o]] /\ ReadsLocally(o)
    \/ Ready(o) /\ ~corrupted[owner[o]] /\ ~ReadsLocally(o)
    \/ HasLog(o) /\ Oversized(o)
    \/ HasLog(o) /\ ~Oversized(o) /\ Mismatched(o)
    \/ /\ HasLog(o) /\ ~Oversized(o) /\ ~Mismatched(o)
       /\ \E i \in Throwing(applied[owner[o]], Unseen(o)) :
             \A j \in Throwing(applied[owner[o]], Unseen(o)) : i <= j
    \/ Replays(o) /\ request[o].type \in ReadTypes
    \/ Replays(o) /\ request[o].type \in WriteTypes /\ Verdict(o) \in {"invalid", "nothing"}
    \/ Replays(o) /\ request[o].type \in WriteTypes /\ Verdict(o) = "append"
    \/ HasAppended(o) /\ ~LocalApply(o).threw
    \/ HasAppended(o) /\ LocalApply(o).threw
    \/ WasRefused(o) /\ attempt[o] + 1 < MaxRetries
    \/ WasRefused(o) /\ attempt[o] + 1 >= MaxRetries
    \/ pc[o] = "running" /\ wire[o] = "asked" /\ \E v \in 0..Len(log) : StaleReads \/ v = Len(log)
    \/ wire[o] = "sent" /\ Len(log) = base[o]
    \/ wire[o] = "sent" /\ (Len(log) # base[o] \/ SpuriousRefusals)

SomebodyCanGoOn ==
    \A o \in Ops : Pending(o) =>
        \E p \in Ops : p <= o /\ owner[p] = owner[o] /\ Pending(p) /\ CanGoOn(p)

WireInv == \A o \in Ops : pc[o] = "running" => wire[o] # "none"

LEMMA WireInit == Init => WireInv
  BY DEF Init, WireInv

LEMMA WireStep == TypeInv /\ WireInv /\ [Next]_vars => WireInv'
<1> SUFFICES ASSUME TypeInv, WireInv, [Next]_vars PROVE WireInv'
  OBVIOUS
<1>1. CASE UNCHANGED vars
  BY <1>1 DEF vars, WireInv, exchange
<1>2. ASSUME NEW c \in Coordinators, NEW r \in Requests, Invoke(c, r) \/ PutNothing(c, r)
      PROVE  WireInv'
  <2>1. wire' = wire /\ \A o \in Ops : pc'[o] = "running" => pc[o] = "running"
    BY <1>2 DEF Invoke, PutNothing, Settle, exchange, TypeInv, TypeOK
  <2> QED BY <2>1 DEF WireInv
<1>3. ASSUME NEW o \in Ops, Steps(o) PROVE WireInv'
  <2>1. \A p \in Ops \ {o} : pc'[p] = pc[p] /\ wire'[p] = wire[p]
    BY <1>3, StepFrame DEF Frame
  <2>2. pc'[o] = "running" => wire'[o] # "none"
    <3>1. CASE Settles(o)
      BY <3>1 DEF Settles
    <3>2. CASE Asks(o)
      BY <3>2 DEF Asks
    <3>3. CASE SendAppend(o) \/ ServeLog(o) \/ ApplyAppend(o) \/ RefuseAppend(o)
      BY <3>3 DEF SendAppend, ServeLog, ApplyAppend, RefuseAppend, TypeInv, TypeOK
    <3> QED BY <1>3, <3>1, <3>2, <3>3, StepOnCall
  <2> QED BY <2>1, <2>2 DEF WireInv
<1> QED BY <1>1, <1>2, <1>3 DEF Next, Steps

(* A step of a call, or of the store for it, brings it closer to its end.    *)
LEMMA StepCounts ==
  ASSUME TypeInv, TypeInv', WireInv, NEW o \in Ops, Steps(o), Pending(o)
  PROVE  StepsLeft(o)' < StepsLeft(o)
<1>1. /\ MaxRetries \in Nat /\ MaxRetries >= 1
      /\ attempt[o] \in 0..(MaxRetries - 1) /\ attempt'[o] \in 0..(MaxRetries - 1)
      /\ attempt \in [Ops -> 0..(MaxRetries - 1)]
      /\ wire \in [Ops -> {"none", "asked", "served", "sent", "appended", "refused"}]
      /\ pc[o] = "running" => wire[o] # "none"
      /\ pc[o] = "queued" => wire[o] = "none"
  BY RetriesAssumption DEF TypeInv, TypeOK, CallPlaced, WireInv
<1>2. CASE Settles(o)
  BY <1>1, <1>2 DEF Settles, StepsLeft
<1>3. CASE Asks(o)
  <2>1. pc'[o] = "running" /\ wire'[o] = "asked"
    BY <1>3 DEF Asks
  <2>2. CASE pc[o] = "queued"
    BY <1>1, <2>1, <2>2 DEF StepsLeft
  <2>3. CASE WasRefused(o) /\ attempt' = [attempt EXCEPT ![o] = @ + 1]
    <3>1. pc[o] = "running" /\ wire[o] = "refused" /\ attempt'[o] = attempt[o] + 1
      BY <1>1, <2>3 DEF WasRefused
    <3> QED BY <1>1, <2>1, <3>1 DEF StepsLeft
  <2> QED BY <1>3, <2>2, <2>3 DEF Asks
<1>4. CASE SendAppend(o) \/ ServeLog(o) \/ ApplyAppend(o) \/ RefuseAppend(o)
  <2>1. /\ pc[o] = "running" /\ pc' = pc /\ attempt' = attempt
        /\ \/ wire[o] = "served" /\ wire'[o] = "sent"
           \/ wire[o] = "asked" /\ wire'[o] = "served"
           \/ wire[o] = "sent" /\ wire'[o] \in {"appended", "refused"}
    BY <1>1, <1>4 DEF SendAppend, ServeLog, ApplyAppend, RefuseAppend, Replays, HasLog, Pending
  <2> QED BY <1>1, <2>1 DEF StepsLeft
<1> QED BY <1>2, <1>3, <1>4, StepOnCall

LEMMA StepsLeftKept ==
  ASSUME TypeInv, NEW o \in Ops, Pending(o), [Next]_vars, ~Steps(o)
  PROVE  StepsLeft(o)' = StepsLeft(o)
<1>1. pc'[o] = pc[o] /\ wire'[o] = wire[o] /\ attempt'[o] = attempt[o]
  <2>1. CASE UNCHANGED vars
    BY <2>1 DEF vars, exchange
  <2>2. ASSUME NEW c \in Coordinators, NEW r \in Requests, Invoke(c, r) \/ PutNothing(c, r)
        PROVE  pc'[o] = pc[o] /\ wire'[o] = wire[o] /\ attempt'[o] = attempt[o]
    BY <2>2, InvokeFrame DEF Pending, exchange
  <2>3. ASSUME NEW p \in Ops, Steps(p)
        PROVE  pc'[o] = pc[o] /\ wire'[o] = wire[o] /\ attempt'[o] = attempt[o]
    <3>1. p # o
      BY <2>3
    <3>2. attempt' = attempt \/ attempt' = [attempt EXCEPT ![p] = @ + 1]
      BY <2>3, StepOnCall
      DEF Settles, Asks, SendAppend, ServeLog, ApplyAppend, RefuseAppend, exchange
    <3>3. attempt'[o] = attempt[o]
      BY <3>1, <3>2 DEF TypeInv, TypeOK
    <3> QED BY <2>3, <3>1, <3>3, StepFrame DEF Frame
  <2> QED BY <2>1, <2>2, <2>3 DEF Next, Steps
<1> QED BY <1>1 DEF StepsLeft

LEMMA StepsLeftBounded ==
  ASSUME TypeInv, NEW o \in Ops
  PROVE  StepsLeft(o) \in 0..(4 * MaxRetries + 1)
<1>1. /\ MaxRetries \in Nat /\ MaxRetries >= 1 /\ attempt[o] \in 0..(MaxRetries - 1)
  BY RetriesAssumption DEF TypeInv, TypeOK
<1> QED BY <1>1 DEF StepsLeft

(* A call takes at most 4 * MaxRetries + 1 steps, its own and those of the   *)
(* store for it: each of them leaves it fewer, and nothing that happens      *)
(* elsewhere gives it more (coordinator.ts:94-140).                          *)
THEOREM CallsAreShort ==
  Spec => /\ [](\A o \in Ops : StepsLeft(o) \in 0..(4 * MaxRetries + 1))
          /\ EveryStepCounts
<1>1. Spec => [](TypeInv /\ WireInv)
  BY TypeInit, WireInit, TypeStep, WireStep, PTL DEF Spec
<1>2. TypeInv => \A o \in Ops : StepsLeft(o) \in 0..(4 * MaxRetries + 1)
  BY StepsLeftBounded
<1>3. TypeInv /\ TypeInv' /\ WireInv /\ [Next]_vars =>
         [\A o \in Ops : Pending(o) =>
             IF Steps(o) THEN StepsLeft(o)' < StepsLeft(o)
                         ELSE StepsLeft(o)' = StepsLeft(o)]_vars
  BY StepCounts, StepsLeftKept
<1> QED BY <1>1, <1>2, <1>3, PTL DEF Spec, EveryStepCounts

(* A call at the front of its queue can go on, wherever it is.               *)
LEMMA FrontCanGoOn ==
  ASSUME TypeInv, WireInv, NEW o \in Ops, Pending(o),
         pc[o] = "queued" => Ready(o)
  PROVE  CanGoOn(o)
<1>1. CASE pc[o] = "queued"
  BY <1>1 DEF CanGoOn
<1>2. CASE pc[o] = "running" /\ wire[o] = "asked"
  <2>1. Len(log) \in 0..Len(log)
    BY LoggedTyped DEF TypeInv, TypeOK
  <2> QED BY <1>2, <2>1 DEF CanGoOn
<1>3. CASE pc[o] = "running" /\ wire[o] = "served"
  <2>1. HasLog(o)
    BY <1>3 DEF HasLog
  <2>2. CASE Oversized(o) \/ Mismatched(o)
    BY <2>1, <2>2 DEF CanGoOn
  <2>3. CASE ~Oversized(o) /\ ~Mismatched(o) /\ ReplayThrows(o)
    <3> DEFINE thrown == Throwing(applied[owner[o]], Unseen(o))
    <3>1. thrown \subseteq DOMAIN Unseen(o) /\ DOMAIN Unseen(o) = 1..Len(Unseen(o))
      BY <2>1, UnseenTyped, LenProperties DEF Throwing
    <3>2. thrown \subseteq Nat /\ thrown # {}
      BY <2>1, <2>3, <3>1, UnseenTyped, LenProperties DEF ReplayThrows
    <3>3. \E i \in thrown : \A j \in thrown : i <= j
      BY <3>2, LeastNumber
    <3> QED BY <2>1, <2>3, <3>3 DEF CanGoOn
  <2>4. CASE ~Oversized(o) /\ ~Mismatched(o) /\ ~ReplayThrows(o)
    <3>1. Replays(o)
      BY <2>1, <2>4 DEF Replays
    <3>2. request[o].type \in WriteTypes \union ReadTypes
      BY <1>3, RequestsAssumption DEF TypeInv, CallPlaced
    <3>3. Verdict(o) \in {"invalid", "nothing", "append"}
      BY DEF Verdict, Evaluate
    <3> QED BY <3>1, <3>2, <3>3 DEF CanGoOn
  <2> QED BY <2>2, <2>3, <2>4
<1>4. CASE pc[o] = "running" /\ wire[o] = "sent"
  BY <1>4 DEF CanGoOn
<1>5. CASE pc[o] = "running" /\ wire[o] = "appended"
  BY <1>5 DEF CanGoOn, HasAppended
<1>6. CASE pc[o] = "running" /\ wire[o] = "refused"
  <2>1. MaxRetries \in Nat /\ attempt[o] \in Nat
    BY RetriesAssumption DEF TypeInv, TypeOK
  <2> QED BY <1>6, <2>1 DEF CanGoOn, WasRefused
<1> QED BY <1>1, <1>2, <1>3, <1>4, <1>5, <1>6 DEF Pending, WireInv, TypeInv, TypeOK

(* No circle of calls that wait for each other, and no call that waits for   *)
(* nothing: of the pending calls of an instance the first one can go on      *)
(* (ConcurrentInMemoryBTree.ts, runExclusive in coordinator.ts:66-79).       *)
THEOREM NobodyWaitsForEver == Spec => []SomebodyCanGoOn
<1>1. Spec => [](TypeInv /\ QueueInv /\ WireInv)
  BY TypeInit, QueueInit, WireInit, TypeStep, QueueStep, WireStep, PTL DEF Spec
<1>2. TypeInv /\ QueueInv /\ WireInv => SomebodyCanGoOn
  <2> SUFFICES ASSUME TypeInv, QueueInv, WireInv, NEW o \in Ops, Pending(o)
               PROVE  \E p \in Ops : /\ p <= o /\ owner[p] = owner[o]
                                     /\ Pending(p) /\ CanGoOn(p)
    BY DEF SomebodyCanGoOn
  <2> DEFINE waiting == {p \in Ops : owner[p] = owner[o] /\ Pending(p)}
  <2>1. waiting \subseteq Nat /\ waiting # {}
    BY OpsAreNumbers
  <2>2. PICK p \in waiting : \A q \in waiting : p <= q
    BY <2>1, LeastNumber
  <2>3. p <= o /\ p \in Ops /\ owner[p] = owner[o] /\ Pending(p)
    BY <2>2
  <2>4. ASSUME pc[p] = "queued", after[p] # 0 PROVE pc[after[p]] = "done"
    <3>1. Queued(p)
      BY <2>4, <2>3 DEF Queued, TypeInv, CallPlaced
    <3>2. /\ after[p] \in Ops /\ after[p] < p
          /\ Queued(after[p]) /\ owner[after[p]] = owner[p]
      BY <2>3, <2>4, <3>1 DEF QueueInv, ChainedInOrder
    <3>3. after[p] \notin waiting
      BY <2>2, <2>3, <3>2, OpsAreNumbers
    <3>4. pc[after[p]] \in {"idle", "queued", "running", "done"}
      BY <3>2 DEF TypeInv, TypeOK
    <3> QED BY <2>3, <3>2, <3>3, <3>4 DEF Pending, Queued
  <2>5. CanGoOn(p)
    BY <2>3, <2>4, FrontCanGoOn DEF Ready
  <2> QED BY <2>3, <2>5
<1> QED BY <1>1, <1>2, PTL
=============================================================================
