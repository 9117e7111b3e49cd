---------------------------- MODULE AlertContract ----------------------------
(***************************************************************************)
(* What the whole program promises about alerts, without its channels,     *)
(* timers, client lists and statements: which devices it is silent about   *)
(* and why.  Monitor.tla implements it.                                    *)
(*                                                                         *)
(* A wait for IP addresses collects devices that it alerts when it is over *)
(* whatever has happened since.  No decision, reload or reap, and no clean *)
(* stop, comes between an alert and its record or between the collection   *)
(* of a device and its alert.                                              *)
(***************************************************************************)
CONSTANT Device

VARIABLES
    state,      \* "up", "stopped" by a signal, or "down" before and after it
    silent,     \* devices the process sends no alert about
    kept,       \* devices with a row, which the next process may be silent about
    told,       \* devices somebody was alerted about
    vouched,    \* devices the operator listed or allowed
    owed,       \* devices a wait for addresses has collected
    out         \* the device alerted and not recorded yet, if there is one

vars == <<state, silent, kept, told, vouched, owed, out>>

Init ==
    /\ state = "down" /\ silent = {} /\ kept = {}
    /\ told = {} /\ vouched = {} /\ owed = {} /\ out = {}

AtRest == state = "up" /\ out = {} /\ owed = {}

\* What a wait collects was not silent then.
Collects ==
    /\ owed \subseteq owed' /\ owed' \subseteq Device
    /\ (owed' \ owed) \cap silent = {}

Collect ==
    /\ state = "up" /\ out = {} /\ Collects
    /\ UNCHANGED <<state, silent, kept, told, vouched, out>>

Send(d) ==
    /\ state = "up" /\ out = {} /\ out' = {d} /\ told' = told \cup {d}
    /\ UNCHANGED <<state, silent, kept, vouched>>

AlertNew(d) == Send(d) /\ d \notin silent /\ Collects

\* The only alert about a device that may be silent by now, once for each wait.
AlertCollected(d) == Send(d) /\ d \in owed /\ owed' = owed \ {d}

\* Delivered or not, stored or not, the device is silent from now on.
Record ==
    /\ out # {} /\ out' = {}
    /\ silent' = silent \cup out /\ kept' \in {kept, kept \cup out}
    /\ UNCHANGED <<state, told, vouched, owed>>

\* A button appears under an alert and nowhere else.
Vouch(d) ==
    /\ state = "up" /\ d \in told /\ vouched' = vouched \cup {d}
    /\ UNCHANGED <<state, silent, kept, told, owed, out>>

Allow(d) ==
    /\ AtRest /\ d \in vouched
    /\ silent' = silent \cup {d} /\ kept' = kept \cup {d}
    /\ UNCHANGED <<state, told, vouched, owed, out>>

\* Whoever the operator lists is silent at once, and rows bring back only
\* devices that were silent before.
Loads ==
    /\ vouched \subseteq vouched' /\ vouched' \ vouched \subseteq silent'
    /\ silent' \subseteq silent \cup kept' \cup vouched'

\* A reload, a reap or a sweep.
Review ==
    /\ AtRest /\ Loads /\ kept' \subseteq kept
    /\ UNCHANGED <<state, told, owed, out>>

Start ==
    /\ state # "up" /\ state' = "up" /\ Loads
    /\ UNCHANGED <<kept, told, owed, out>>

Stop ==
    /\ AtRest /\ state' = "stopped" /\ silent' = {}
    /\ UNCHANGED <<kept, told, vouched, owed, out>>

Crash ==
    /\ state = "up" /\ state' = "down"
    /\ silent' = {} /\ owed' = {} /\ out' = {}
    /\ UNCHANGED <<kept, told, vouched>>

Next ==
    \/ Collect \/ Record \/ Review \/ Start \/ Stop \/ Crash
    \/ \E d \in Device : AlertNew(d) \/ AlertCollected(d) \/ Vouch(d) \/ Allow(d)

Spec == Init /\ [][Next]_vars
=============================================================================
