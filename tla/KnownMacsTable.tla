--------------------------- MODULE KnownMacsTable ---------------------------
(***************************************************************************)
(* The known_macs table (internal/database/database.go) as its callers see *)
(* it: one row per identifier, whose two timestamps are reduced to the     *)
(* phase they put the row in at the present moment.                        *)
(*                                                                         *)
(*   allow    "none"       there is no row                                 *)
(*            "permanent"  expires_at IS NULL                              *)
(*            "live"       expires_at > now                                *)
(*            "lapsed"     expires_at <= now                               *)
(*   absence  "none"       last_seen IS NULL                               *)
(*            "counting"   last_seen set, delay not yet exceeded           *)
(*            "overdue"    last_seen + delay < now                         *)
(*                                                                         *)
(* Every SQL statement of the package is an operator from a table to a     *)
(* table.  Database.tla has the same operations on integer timestamps.     *)
(*                                                                         *)
(* A definition headed "Mistake:" is no part of any specification: it is a *)
(* wrong variant of the one below it, and shows a property can fail.       *)
(***************************************************************************)

Allows   == {"none", "permanent", "live", "lapsed"}
Absences == {"none", "counting", "overdue"}

Row   == [allow : Allows, absence : Absences]
NoRow == [allow |-> "none", absence |-> "none"]

EmptyTable(Mac) == [m \in Mac |-> NoRow]

\* The identifiers that have a row, whatever its phase.
Stored(rows) == {m \in DOMAIN rows : rows[m].allow # "none"}

\* The rows the query of LoadKnownMacs selects.
Current(rows) == {m \in DOMAIN rows : rows[m].allow \in {"permanent", "live"}}

LoadKnownMacs(rows, seed) == seed \cup Current(rows)

\* INSERT OR IGNORE: an existing row is left as it is, even a lapsed one.
UpdateKnownMacs(rows, mac) ==
    [rows EXCEPT ![mac] = IF @.allow = "none"
                          THEN [allow |-> "permanent", absence |-> "none"]
                          ELSE @]

\* The upsert overwrites the expiry and clears last_seen.
AllowMac(rows, mac, allow) ==
    [rows EXCEPT ![mac] = [allow |-> allow, absence |-> "none"]]

ClearAll(rows) == [m \in DOMAIN rows |-> NoRow]

PermanentMacs(rows) == {m \in DOMAIN rows : rows[m].allow = "permanent"}

Expired(rows) == {m \in DOMAIN rows : rows[m].allow = "lapsed"}

PurgeExpired(rows) ==
    [m \in DOMAIN rows |-> IF m \in Expired(rows) THEN NoRow ELSE rows[m]]

\* Mistake: the age of the absence is tested before the device's presence.
ReapedThoughOnline(row, isOnline) ==
    IF row.allow \in {"none", "live"} THEN row
    ELSE IF row.absence = "overdue"   THEN NoRow
    ELSE [row EXCEPT !.absence = IF isOnline THEN "none" ELSE "counting"]

\* One row of the RemoveOldMacs transaction; a live allow outlasts absence.
Reaped(row, isOnline) ==
    IF row.allow \in {"none", "live"} THEN row
    ELSE IF isOnline                  THEN [row EXCEPT !.absence = "none"]
    ELSE IF row.absence = "overdue"   THEN NoRow
    ELSE [row EXCEPT !.absence = "counting"]

RemoveOldMacs(rows, online) ==
    [m \in DOMAIN rows |-> Reaped(rows[m], m \in online)]

-----------------------------------------------------------------------------
(***************************************************************************)
(* The passage of time moves a row from one phase to the next and never    *)
(* back.                                                                   *)
(***************************************************************************)
Later(row) ==
    {r \in Row : /\ \/ r.allow = row.allow
                    \/ row.allow = "live" /\ r.allow = "lapsed"
                 /\ \/ r.absence = row.absence
                    \/ row.absence = "counting" /\ r.absence = "overdue"}
=============================================================================
