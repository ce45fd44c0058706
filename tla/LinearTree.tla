----------------------------- MODULE LinearTree -----------------------------
(***************************************************************************)
(* What the instances of ConcurrentInMemoryBTree promise together: one tree, *)
(* written by one caller at a time.  history is the sequence of the writes   *)
(* that took effect, and each call takes effect, at most once, at a moment   *)
(* between being made and being answered; a call that fails without saying   *)
(* whether it took effect may still do so later.  The promise is the same    *)
(* whatever the tree does with a mutation, so the tree is a parameter.       *)
(* Coordinator.tla implements this module when reads are strong and the      *)
(* store serves its latest log.                                              *)
(***************************************************************************)
EXTENDS Integers, Sequences

CONSTANTS
    Null, Ops, Requests, WriteTypes,
    Run(_),        \* mutations, in order -> the tree they make of an empty one
    Apply(_, _),   \* tree, mutation -> the next tree, the result, did it throw
    Evaluate(_, _) \* tree, mutation -> "append", or how it is answered instead

VARIABLES
    history, \* the writes that took effect: a sequence of [op, mutation]
    asked,   \* call -> its request, Null before it is made
    seen,    \* call -> how much of history there was when it was made
    reply    \* call -> [kind, value], Unanswered before it is answered

vars == <<history, asked, seen, reply>>

Unanswered == [kind |-> "none", value |-> Null]

Open == {o \in Ops : asked[o] # Null /\ reply[o] = Unanswered}
InDoubt == {o \in Ops : reply[o].kind = "unknown"}
TookEffect == {history[i].op : i \in DOMAIN history}

(* The tree after the first n writes. *)
TreeAt(n) == Run([i \in 1..n |-> history[i].mutation])

Init ==
    /\ history = <<>>
    /\ asked = [o \in Ops |-> Null]
    /\ seen = [o \in Ops |-> 0]
    /\ reply = [o \in Ops |-> Unanswered]

Answer(o, kind, value) ==
    /\ reply' = [reply EXCEPT ![o] = [kind |-> kind, value |-> value]]
    /\ UNCHANGED <<history, asked, seen>>

Ask(o, r) ==
    /\ asked[o] = Null
    /\ asked' = [asked EXCEPT ![o] = r]
    /\ seen' = [seen EXCEPT ![o] = Len(history)]
    /\ UNCHANGED <<history, reply>>

(* A call that concerns no entry is asked and answered at once. *)
AskNothing(o, r) ==
    /\ asked[o] = Null
    /\ r.type = "putMany" /\ r.entries = <<>>
    /\ asked' = [asked EXCEPT ![o] = r]
    /\ seen' = [seen EXCEPT ![o] = Len(history)]
    /\ reply' = [reply EXCEPT ![o] = [kind |-> "empty", value |-> <<>>]]
    /\ UNCHANGED history

TakeEffect(o) ==
    /\ o \in (Open \union InDoubt) \ TookEffect
    /\ asked[o].type \in WriteTypes
    /\ history' = Append(history, [op |-> o, mutation |-> asked[o]])
    /\ UNCHANGED <<asked, seen, reply>>

(* A write that took effect answers what its mutation gave at its place. *)
AnswerWrite(o) ==
    /\ o \in Open
    /\ \E i \in DOMAIN history :
          LET done == Apply(TreeAt(i - 1), asked[o])
          IN  /\ history[i].op = o
              /\ ~done.threw
              /\ Answer(o, "committed", done.result)

(* Everything else answers from the tree at some moment of its own interval. *)
AnswerFrom(o, n) ==
    \/ /\ asked[o].type \in {"read", "syncThenRead"}
       /\ Answer(o, "observed", TreeAt(n).entries)
    \/ /\ asked[o].type = "sync"
       /\ Answer(o, "observed", Null)
    \/ /\ asked[o].type \in WriteTypes
       /\ Evaluate(TreeAt(n), asked[o]) # "append"
       /\ Answer(o, Evaluate(TreeAt(n), asked[o]), Null)

AnswerRead(o) ==
    /\ o \in Open \ TookEffect
    /\ \E n \in seen[o]..Len(history) : AnswerFrom(o, n)

FailCleanly(o) == o \in Open \ TookEffect /\ Answer(o, "failed", Null)

FailInDoubt(o) == o \in Open /\ Answer(o, "unknown", Null)

Next ==
    \E o \in Ops :
        \/ \E r \in Requests : Ask(o, r) \/ AskNothing(o, r)
        \/ TakeEffect(o) \/ AnswerWrite(o) \/ AnswerRead(o)
        \/ FailCleanly(o) \/ FailInDoubt(o)

Spec == Init /\ [][Next]_vars
=============================================================================
