------------------------------ MODULE MCEngine ------------------------------
(* Values of the constants of Engine for TLC.                              *)
EXTENDS Engine

CONSTANTS a, b, x, y, l1, l2, client, other, worker

(* x is shorter than y, and Torn, a file as it was created, is empty.      *)
MCSize == [c \in {x, y, Torn, None} |-> CASE c = x -> 1 [] c = y -> 2 [] OTHER -> 0]
MCSizeOne == [c \in {x, Torn, None} |-> IF c = x THEN 1 ELSE 0]

(* The command line and the FUSE mount: one call after the other.          *)
SerialTask == {client}
Served == {"stat", "read", "write", "delete", "rename", "list"}
Kept == {"flush", "expire", "invalidate", "invalidatePrefix"}

OpsAll == [t \in {client} |-> Served \cup Kept]
OpsNoList == [t \in {client} |-> (Served \cup Kept) \ {"list"}]
OpsMutations == [t \in {client} |-> 
    {"write", "delete", "flush", "invalidate", "invalidatePrefix"}]
OpsWriteListFlush == [t \in {client} |-> {"write", "list", "flush"}]
OpsWriteFlush == [t \in {client} |-> {"write", "flush"}]

(* A server: its requests and its background loop.                         *)
OpsServer == [t \in {client, worker} |->
    IF t = client THEN {"read", "write"} ELSE {"flush"}]
OpsServerWrites == [t \in {client, worker} |->
    IF t = client THEN {"write"} ELSE {"flush"}]

NoHazard == [h \in Hazard |-> 0]
OneRemote == [h \in Hazard |-> IF h = "remote" THEN 1 ELSE 0]
OneOfEach == [h \in Hazard |-> 1]
=============================================================================
