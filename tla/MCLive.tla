------------------------------- MODULE MCLive -------------------------------
(* Small instances of Live for TLC: one worker, pages of two organisations. *)
EXTENDS Live

CONSTANTS home, other, p1, p2, p3

MCOrgOf == [x \in User \cup Tab |-> IF x = p3 THEN other ELSE home]
=============================================================================
