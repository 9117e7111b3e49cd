------------------------------ MODULE Database ------------------------------
(***************************************************************************)
(* internal/database: the known_macs table with the timestamps it really   *)
(* stores, in seconds as time.Now().Unix() gives them, and the SQL of each *)
(* method.  All calls come from the main goroutine, so one call is one     *)
(* step; RemoveOldMacs commits its changes in one transaction.             *)
(*                                                                         *)
(* A definition headed "Mistake:" is no part of any specification: it is a *)
(* wrong variant of the one below it, and shows a property can fail.       *)
(***************************************************************************)
EXTENDS Integers

CONSTANTS
    Mac,          \* identifiers, all of them non-empty
    RemoveDelay,  \* REMOVE_DELAY in seconds
    Null,         \* SQL NULL
    MaxTime       \* bound: the last second of a behaviour

ASSUME DatabaseAssumption ==
    RemoveDelay \in Nat /\ MaxTime \in Nat /\ Null \notin Nat

VARIABLES
    table,    \* one entry per stored identifier
    now,      \* time.Now().Unix()
    contact   \* history: when an identifier was last online or vouched for

vars == <<table, now, contact>>

Time    == 0 .. MaxTime
Stamps  == Time \cup {Null}
Entries == [expires : Stamps, seen : Stamps]
Stored  == DOMAIN table

\* The two WHERE clauses on expires_at.
Expired(entry) == entry.expires # Null /\ entry.expires <= now
Live(entry)    == entry.expires # Null /\ entry.expires > now

Put(mac, entry) ==
    [m \in Stored \cup {mac} |-> IF m = mac THEN entry ELSE table[m]]

Keep(macs) == [m \in macs |-> table[m]]

-----------------------------------------------------------------------------
Init ==
    /\ table = [m \in {} |-> Null] /\ now = 0
    /\ contact = [m \in Mac |-> 0]

\* INSERT OR IGNORE.
UpdateKnownMacs(mac) ==
    /\ IF mac \in Stored
       THEN UNCHANGED <<table, contact>>
       ELSE /\ table' = Put(mac, [expires |-> Null, seen |-> Null])
            /\ contact' = [contact EXCEPT ![mac] = now]
    /\ UNCHANGED now

\* The upsert.  `until' was computed when the button was pressed, is cut to
\* whole seconds and may be over by now.
AllowMac(mac, until) ==
    /\ table' = Put(mac, [expires |-> until, seen |-> Null])
    /\ contact' = [contact EXCEPT ![mac] = now]
    /\ UNCHANGED now

ClearAll ==
    /\ table' = Keep({})
    /\ UNCHANGED <<now, contact>>

PurgeExpired ==
    /\ table' = Keep({m \in Stored : ~Expired(table[m])})
    /\ UNCHANGED <<now, contact>>

Overdue(entry) == entry.seen # Null /\ entry.seen + RemoveDelay < now

\* Mistake: last_seen is given the time to forget at, not the time of absence.
StampDeadline(mac, online) ==
    IF Live(table[mac]) THEN table[mac]
    ELSE IF mac \in online THEN [table[mac] EXCEPT !.seen = Null]
    ELSE [table[mac] EXCEPT !.seen = IF @ = Null THEN now + RemoveDelay + 1 ELSE @]

\* Mistake: a device that is back keeps its last_seen.
StampOnce(mac, online) ==
    IF Live(table[mac]) \/ mac \in online THEN table[mac]
    ELSE [table[mac] EXCEPT !.seen = IF @ = Null THEN now ELSE @]

\* Mistake: a live temporary allow is treated like any other row.
StampLive(mac, online) ==
    IF mac \in online THEN [table[mac] EXCEPT !.seen = Null]
    ELSE [table[mac] EXCEPT !.seen = IF @ = Null THEN now ELSE @]

\* The update of one row that is not deleted.
Stamp(mac, online) ==
    IF Live(table[mac]) THEN table[mac]
    ELSE IF mac \in online THEN [table[mac] EXCEPT !.seen = Null]
    ELSE [table[mac] EXCEPT !.seen = IF @ = Null THEN now ELSE @]

RemoveOldMacs(online) ==
    /\ LET forgotten == {m \in Stored \ online :
                           ~Live(table[m]) /\ Overdue(table[m])}
       IN table' = [m \in Stored \ forgotten |-> Stamp(m, online)]
    /\ contact' = [m \in Mac |-> IF m \in online THEN now ELSE contact[m]]
    /\ UNCHANGED now

Tick ==
    /\ now < MaxTime /\ now' = now + 1
    /\ UNCHANGED <<table, contact>>

Next ==
    \/ \E mac \in Mac : UpdateKnownMacs(mac)
    \/ \E mac \in Mac, until \in Stamps : AllowMac(mac, until)
    \/ ClearAll \/ PurgeExpired \/ Tick
    \/ \E online \in SUBSET Mac : RemoveOldMacs(online)

Spec == Init /\ [][Next]_vars

-----------------------------------------------------------------------------
(***************************************************************************)
(* Every entry holds timestamps, last_seen is never in the future, and a   *)
(* live temporary allow is never counted absent.                           *)
(***************************************************************************)
TypeOK ==
    /\ Stored \subseteq Mac /\ table \in [Stored -> Entries]
    /\ now \in Time /\ contact \in [Mac -> Time]
    /\ \A m \in Stored :
          table[m].seen # Null => table[m].seen <= now /\ ~Live(table[m])

(***************************************************************************)
(* RemoveOldMacs forgets an identifier only when, for longer than          *)
(* REMOVE_DELAY, no call has found it online and nothing has inserted or   *)
(* allowed it, although the table only keeps the first miss.               *)
(***************************************************************************)
Forgets(m) == m \in Stored /\ m \notin DOMAIN table'

ForgottenOnlyAfterDelay ==
    [][\A online \in SUBSET Mac : RemoveOldMacs(online) =>
          \A m \in Mac : Forgets(m) => contact[m] + RemoveDelay < now]_vars

(***************************************************************************)
(* The phases the main loop sees, and the promise that on these phases the *)
(* SQL does what KnownMacsTable says.                                      *)
(***************************************************************************)
Phase(m) ==
    IF m \notin Stored THEN [allow |-> "none", absence |-> "none"]
    ELSE [allow   |-> IF table[m].expires = Null THEN "permanent"
                      ELSE IF Live(table[m]) THEN "live" ELSE "lapsed",
          absence |-> IF table[m].seen = Null THEN "none"
                      ELSE IF Overdue(table[m]) THEN "overdue" ELSE "counting"]

Store == INSTANCE KnownMacsStore WITH rows <- [m \in Mac |-> Phase(m)]

ImplementsStore == Store!Spec
=============================================================================
