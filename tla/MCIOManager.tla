---------------------------- MODULE MCIOManager ----------------------------
(* IOManager for TLC: which caller registers which events.                 *)
EXTENDS IOManager, TLC

CONSTANTS k1, k2

(* Every descriptor is used in one direction only.  Two callers share 5    *)
(* and both grow the table; the size for 5 is 7, so that a late resize for *)
(* 5 drops the context of 9.  epoll refuses 3.                             *)
Growing == (k1 :> {<<5, "READ">>, <<9, "WRITE">>}) @@
           (k2 :> {<<5, "READ">>, <<3, "READ">>})

(* A reader and a writer share one descriptor.                             *)
TwoWay == (k1 :> {<<3, "READ">>}) @@ (k2 :> {<<3, "WRITE">>})
=============================================================================
