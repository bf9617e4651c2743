---------------------------- MODULE MCAggregate ----------------------------
(* Small instances of Aggregate for TLC.                                   *)
EXTENDS Aggregate

CONSTANTS u1, work, play

\* Two rules that disagree on a label, so that their order matters.
MCRule == {[matches |-> {work}, category |-> "productive", users |-> {u1}],
           [matches |-> {work, play}, category |-> "distracting", users |-> {u1}]}
=============================================================================
