--------------------------- MODULE MCControlLease ---------------------------
(***************************************************************************)
(* Two processes and three handles: two handles of one process (a          *)
(* controller and the resume or cancel that follows it) and one of another.*)
(***************************************************************************)
EXTENDS ControlLease, TLC

CONSTANTS o1, o2, o3, p1, p2

MCOwner == {o1, o2, o3}
MCPid == {p1, p2}
MCPidOf == (o1 :> p1) @@ (o2 :> p1) @@ (o3 :> p2)
=============================================================================
