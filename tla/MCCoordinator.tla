--------------------------- MODULE MCCoordinator ---------------------------
(* Coordinator for TLC: the instances, their configurations and the calls    *)
(* of each run.                                                              *)
EXTENDS Coordinator, TLC

CONSTANTS c1, c2, c3

Strong == [c \in Coordinators |-> "strong"]
Mixed == [c \in Coordinators |-> IF c = c2 THEN "local" ELSE "strong"]
OneConfig == [c \in Coordinators |-> "f"]
TwoConfigs == [c \in Coordinators |-> IF c = c3 THEN "g" ELSE "f"]

Symmetry == Permutations({c1, c2})

PutReq(k, v) == [type |-> "put", key |-> k, value |-> v]
PutManyReq(s) ==
    [type |-> "putMany", entries |-> [i \in DOMAIN s |-> [key |-> s[i], value |-> "v"]]]
RemoveReq(k) == [type |-> "remove", key |-> k]
Req(t) == [type |-> t]

(* Writes that are refused, that find nothing and that commute with nothing. *)
CoreRequests == {PutReq(1, "v"), RemoveReq(1), Req("clear"), Req("read")}
FaultRequests == {PutReq(1, "v"), PutManyReq(<<2, 3>>), PutManyReq(<<>>), Req("sync")}
OverflowRequests == {PutReq(1, "v"), PutManyReq(<<2, 3>>), PutManyReq(<<>>), Req("syncThenRead")}
=============================================================================
