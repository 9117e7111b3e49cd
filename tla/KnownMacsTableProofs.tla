------------------------ MODULE KnownMacsTableProofs ------------------------
(***************************************************************************)
(* What each SQL statement does to the type of the table, to the           *)
(* identifiers it stores and to those whose allow is in force.             *)
(***************************************************************************)
EXTENDS KnownMacsTable, TLAPS

\* A row put through the reaper is a row; it is no more allowed than before.
LEMMA ReapedRow ==
    ASSUME NEW row \in Row, NEW isOnline \in BOOLEAN
    PROVE  /\ Reaped(row, isOnline) \in Row
           /\ Reaped(row, isOnline).allow \in {row.allow, "none"}
<1>1. CASE row.allow \in {"none", "live"}
  BY <1>1 DEF Reaped
<1>2. CASE row.allow \notin {"none", "live"} /\ isOnline
  BY <1>2 DEF Reaped, Row, Allows, Absences
<1>3. CASE row.allow \notin {"none", "live"} /\ ~isOnline
  BY <1>3 DEF Reaped, NoRow, Row, Allows, Absences
<1> QED
  BY <1>1, <1>2, <1>3

\* Inserting a row stores at most that row, and puts no other in force.
LEMMA UpdateTable ==
    ASSUME NEW D, NEW rows \in [D -> Row], NEW mac \in D
    PROVE  /\ UpdateKnownMacs(rows, mac) \in [D -> Row]
           /\ Stored(UpdateKnownMacs(rows, mac)) = Stored(rows) \cup {mac}
           /\ Current(UpdateKnownMacs(rows, mac)) \subseteq Current(rows) \cup {mac}
BY DEF UpdateKnownMacs, Stored, Current, Row, Allows, Absences

\* Allowing stores the one row, and puts no other in force.
LEMMA AllowTable ==
    ASSUME NEW D, NEW rows \in [D -> Row], NEW mac \in D,
           NEW allow \in Allows \ {"none"}
    PROVE  /\ AllowMac(rows, mac, allow) \in [D -> Row]
           /\ Stored(AllowMac(rows, mac, allow)) = Stored(rows) \cup {mac}
           /\ Current(AllowMac(rows, mac, allow)) \subseteq Current(rows) \cup {mac}
BY DEF AllowMac, Stored, Current, Row, Allows, Absences

\* Nothing is stored in a cleared table.
LEMMA ClearTable ==
    ASSUME NEW D, NEW rows \in [D -> Row]
    PROVE  /\ ClearAll(rows) \in [D -> Row]
           /\ Stored(ClearAll(rows)) = {}
           /\ Current(ClearAll(rows)) = {}
BY DEF ClearAll, NoRow, Stored, Current, Row, Allows, Absences

\* Purging stores nothing; no purged row is in force afterwards.
LEMMA PurgeTable ==
    ASSUME NEW D, NEW rows \in [D -> Row]
    PROVE  /\ PurgeExpired(rows) \in [D -> Row]
           /\ Stored(PurgeExpired(rows)) \subseteq Stored(rows)
           /\ Current(PurgeExpired(rows)) \subseteq Current(rows) \ Expired(rows)
BY DEF PurgeExpired, NoRow, Stored, Current, Expired, Row, Allows, Absences

\* Reaping stores nothing and brings no allow into force.
LEMMA RemoveOldTable ==
    ASSUME NEW D, NEW rows \in [D -> Row], NEW online
    PROVE  /\ RemoveOldMacs(rows, online) \in [D -> Row]
           /\ Stored(RemoveOldMacs(rows, online)) \subseteq Stored(rows)
           /\ Current(RemoveOldMacs(rows, online)) \subseteq Current(rows)
<1> DEFINE new == RemoveOldMacs(rows, online)
<1>1. new = [m \in D |-> Reaped(rows[m], m \in online)]
  BY DEF RemoveOldMacs
<1>2. ASSUME NEW m \in D
      PROVE  new[m] \in Row /\ new[m].allow \in {rows[m].allow, "none"}
  <2>1. rows[m] \in Row /\ (m \in online) \in BOOLEAN
    OBVIOUS
  <2>2. new[m] = Reaped(rows[m], m \in online)
    BY <1>1
  <2> QED
    BY <2>1, <2>2, ReapedRow
<1>3. new \in [D -> Row]
  BY <1>1, <1>2
<1> QED
  BY <1>2, <1>3 DEF Stored, Current

\* Time neither stores a row nor brings an allow back into force.
LEMMA LaterTable ==
    ASSUME NEW D, NEW rows \in [D -> Row], NEW mac \in D, NEW row \in Later(rows[mac])
    PROVE  LET new == [rows EXCEPT ![mac] = row] IN
           /\ new \in [D -> Row]
           /\ Stored(new) = Stored(rows)
           /\ Current(new) \subseteq Current(rows)
BY DEF Later, Stored, Current, Row, Allows
=============================================================================
