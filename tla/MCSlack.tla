------------------------------- MODULE MCSlack -------------------------------
(***************************************************************************)
(* A short SLACK_ALLOW_DURATIONS on a 21-bit machine: two weeks do not fit *)
(* and wrap to a negative length, "never" does not parse, "0h" is zero and *)
(* one week fits in seconds but not in the clock's units.                  *)
(***************************************************************************)
EXTENDS SlackProperties

MCSettings ==
    << [label |-> "2w", n |-> 2, unit |-> 604800],
       [label |-> "never", n |-> -1, unit |-> 1],
       [label |-> "0h", n |-> 0, unit |-> 3600],
       [label |-> "1w", n |-> 1, unit |-> 604800],
       [label |-> "1h", n |-> 1, unit |-> 3600] >>

MCOldLabels == {"12h"}
=============================================================================
