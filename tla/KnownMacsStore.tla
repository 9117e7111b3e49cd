--------------------------- MODULE KnownMacsStore ---------------------------
(***************************************************************************)
(* What the rest of the program may rely on about the known_macs table:    *)
(* the operations of KnownMacsTable, in any order, and time, which moves   *)
(* rows forward on its own.  Database.tla implements this specification.   *)
(***************************************************************************)
EXTENDS KnownMacsTable

CONSTANT Mac
VARIABLE rows

Init == rows = EmptyTable(Mac)

Learn(mac) == rows' = UpdateKnownMacs(rows, mac)

\* The deadline may have passed by the time the decision is applied.
Allow(mac) == \E allow \in Allows \ {"none"} : rows' = AllowMac(rows, mac, allow)

Clear == rows' = ClearAll(rows)

Purge == rows' = PurgeExpired(rows)

Reap == \E online \in SUBSET Mac : rows' = RemoveOldMacs(rows, online)

Age == /\ rows' \in [Mac -> Row]
       /\ \A mac \in Mac : rows'[mac] \in Later(rows[mac])

Next == \/ \E mac \in Mac : Learn(mac) \/ Allow(mac)
        \/ Clear \/ Purge \/ Reap \/ Age

Spec == Init /\ [][Next]_rows
=============================================================================
