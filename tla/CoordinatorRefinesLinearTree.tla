-------------------- MODULE CoordinatorRefinesLinearTree --------------------
(* The refinement mapping from Coordinator to LinearTree: the log is the     *)
(* history, and a call is answered when its promise settles.                 *)
EXTENDS Coordinator

ReplyKind(how) ==
    CASE how \in Answers \union {"empty"} -> how
      [] how \in {"appendFailed", "applyFailed"} -> "unknown"
      [] how = "pending" -> "none"
      [] OTHER -> "failed"

Reply(how, value) ==
    [kind |-> ReplyKind(how), value |-> IF how = "pending" THEN Null ELSE value]

History(batches) ==
    [i \in DOMAIN batches |-> [op |-> batches[i].op, mutation |-> batches[i].mutation]]
ReplyOfOutcome == [o \in Ops |-> Reply(outcome[o], result[o])]

Abstract == INSTANCE LinearTree WITH
    history <- History(log), asked <- request, seen <- since, reply <- ReplyOfOutcome

(* Every behaviour of the instances is one of a single tree whose calls take *)
(* effect at most once, inside their own interval: linearizability, with     *)
(* failed calls left in doubt only where the code cannot know                *)
(* (ADR-0021, ADR-0012, coordinator.ts).                                     *)
ImplementsLinearTree == Abstract!Spec
=============================================================================
