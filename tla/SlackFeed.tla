------------------------------ MODULE SlackFeed ------------------------------
(***************************************************************************)
(* What the Slack listener promises: a press or slash command that is      *)
(* valid reaches the main loop at least once, and only the death of the    *)
(* process between Slack's acknowledgement and the main loop loses it.     *)
(***************************************************************************)
CONSTANTS Press

VARIABLES
    fate,       \* how far each press has come
    valid,      \* the presses a permitted user made of something on offer
    up          \* the process is running

Fates == {"unsent", "waiting", "held", "queued", "applied", "dropped"}

Init ==
    /\ fate = [p \in Press |-> "unsent"] /\ valid = {} /\ up = FALSE

Send(p) ==
    /\ fate[p] = "unsent" /\ fate' = [fate EXCEPT ![p] = "waiting"]
    /\ valid' \in {valid, valid \cup {p}}
    /\ UNCHANGED up

\* Acknowledged: Slack will not send it again.
Take(p) ==
    /\ up /\ fate[p] = "waiting" /\ fate' = [fate EXCEPT ![p] = "held"]
    /\ UNCHANGED <<valid, up>>

Refuse(p) ==
    /\ up /\ p \notin valid
    /\ fate[p] = "held" /\ fate' = [fate EXCEPT ![p] = "dropped"]
    /\ UNCHANGED <<valid, up>>

\* Queued straight from "waiting" if the acknowledgement was lost.
Queue(p) ==
    /\ up /\ p \in valid /\ fate[p] \in {"held", "waiting"}
    /\ fate' = [fate EXCEPT ![p] = "queued"]
    /\ UNCHANGED <<valid, up>>

Apply(p) ==
    /\ up /\ fate[p] = "queued" /\ fate' = [fate EXCEPT ![p] = "applied"]
    /\ UNCHANGED <<valid, up>>

Start == ~up /\ up' = TRUE /\ UNCHANGED <<fate, valid>>

Die ==
    /\ up /\ up' = FALSE /\ UNCHANGED valid
    /\ fate' \in [Press -> Fates]
    /\ \A p \in Press :
         IF fate[p] \in {"held", "queued"}
         THEN fate'[p] \in {"dropped", "waiting"}
         ELSE fate'[p] = fate[p]

Next ==
    \/ \E p \in Press : Send(p) \/ Take(p) \/ Refuse(p) \/ Queue(p) \/ Apply(p)
    \/ Start \/ Die

Spec == Init /\ [][Next]_<<fate, valid, up>>
=============================================================================
