--------------------------- MODULE DatabaseProofs ---------------------------
(***************************************************************************)
(* The known_macs table, for every set of identifiers, REMOVE_DELAY and    *)
(* span of time: its types, the delay before a row is forgotten, and that  *)
(* the SQL implements KnownMacsStore.                                      *)
(***************************************************************************)
EXTENDS Database, TLAPS

USE DatabaseAssumption DEF vars

(***************************************************************************)
(* last_seen is a first miss: nothing found the identifier online, stored  *)
(* it or allowed it later than that.                                       *)
(***************************************************************************)
MissAfterContact ==
    \A m \in Stored : table[m].seen # Null => contact[m] <= table[m].seen

ContactPast == \A m \in Mac : contact[m] <= now

Inv == TypeOK /\ MissAfterContact /\ ContactPast

-----------------------------------------------------------------------------
(***************************************************************************)
(* The invariant, entry by entry.  A step is given as the set of entries   *)
(* that remain and the value of each.                                      *)
(***************************************************************************)
EntryOK(entry, time, last) ==
    /\ entry \in Entries
    /\ entry.seen # Null =>
         /\ last <= entry.seen /\ entry.seen <= time
         /\ entry.expires = Null \/ entry.expires <= time

\* What the invariant says of one entry.
LEMMA InvEntries ==
    ASSUME Inv
    PROVE  /\ Stored \subseteq Mac /\ now \in Time /\ contact \in [Mac -> Time]
           /\ \A m \in Mac : contact[m] <= now
           /\ \A m \in Stored : EntryOK(table[m], now, contact[m])
<1>1. ASSUME NEW m \in Stored PROVE EntryOK(table[m], now, contact[m])
  <2>1. table[m] \in Entries
    BY DEF Inv, TypeOK
  <2>2. table[m].expires = Null \/ table[m].expires \in Nat
    BY <2>1 DEF Entries, Stamps, Time
  <2> QED
    BY <2>1, <2>2 DEF Inv, TypeOK, MissAfterContact, EntryOK, Live, Time
<1> QED
  BY <1>1 DEF Inv, TypeOK, ContactPast

\* An entry-by-entry statement of the invariant gives the invariant.
LEMMA EntriesInv ==
    ASSUME NEW S \in SUBSET Mac, table' = [m \in S |-> table'[m]],
           now' \in Time, contact' \in [Mac -> Time],
           \A m \in Mac : contact'[m] <= now',
           \A m \in S : EntryOK(table'[m], now', contact'[m])
    PROVE  Inv'
<1>1. DOMAIN table' = S
  OBVIOUS
<1>2. \A m \in S : table'[m] \in Entries
  BY DEF EntryOK
<1>3. \A m \in S : table'[m].seen # Null =>
         /\ contact'[m] <= table'[m].seen /\ table'[m].seen <= now'
         /\ table'[m].expires = Null \/ ~(table'[m].expires > now')
  BY DEF EntryOK, Entries, Stamps, Time
<1>4. table' \in [S -> Entries]
  BY <1>2
<1> QED
  BY <1>1, <1>3, <1>4 DEF Inv, TypeOK, MissAfterContact, ContactPast, Stored, Live

\* The empty table satisfies the invariant.
LEMMA InitInv == Init => Inv
<1> SUFFICES ASSUME Init PROVE Inv
  OBVIOUS
<1>1. DOMAIN table = {} /\ table \in [{} -> Entries]
  BY DEF Init
<1>2. now \in Time /\ contact \in [Mac -> Time] /\ ContactPast
  BY DEF Init, Time, ContactPast
<1> QED
  BY <1>1, <1>2 DEF Inv, TypeOK, MissAfterContact, Stored

\* Every operation, and the clock, keeps the invariant.
LEMMA NextInv == Inv /\ [Next]_vars => Inv'
<1> SUFFICES ASSUME Inv, [Next]_vars PROVE Inv'
  OBVIOUS
<1>1. /\ Stored \subseteq Mac /\ now \in Time /\ now \in Nat
      /\ contact \in [Mac -> Time] /\ \A m \in Mac : contact[m] <= now
      /\ \A m \in Stored : EntryOK(table[m], now, contact[m])
  BY InvEntries DEF Time
<1>2. ASSUME NEW until \in Stamps, NEW last
      PROVE  EntryOK([expires |-> until, seen |-> Null], now, last)
  BY DEF EntryOK, Entries, Stamps
<1>3. CASE UNCHANGED vars
  BY <1>3 DEF Inv, TypeOK, MissAfterContact, ContactPast, Stored, Live
<1>4. ASSUME NEW mac \in Mac, NEW until \in Stamps,
             table' = Put(mac, [expires |-> until, seen |-> Null]),
             contact' = [contact EXCEPT ![mac] = now], now' = now
      PROVE  Inv'
  <2>1. /\ table' = [m \in Stored \cup {mac} |-> table'[m]]
        /\ table'[mac] = [expires |-> until, seen |-> Null]
        /\ \A m \in Stored \ {mac} : table'[m] = table[m] /\ contact'[m] = contact[m]
    BY <1>1, <1>4 DEF Put
  <2>2. \A m \in Stored \cup {mac} : EntryOK(table'[m], now', contact'[m])
    BY <1>1, <1>2, <1>4, <2>1
  <2>3. contact' \in [Mac -> Time] /\ \A m \in Mac : contact'[m] <= now'
    BY <1>1, <1>4
  <2> QED
    BY <1>1, <1>4, <2>1, <2>2, <2>3, EntriesInv
<1>5. ASSUME NEW mac \in Mac, UpdateKnownMacs(mac) PROVE Inv'
  <2>1. Null \in Stamps
    BY DEF Stamps
  <2> QED
    BY <1>3, <1>4, <1>5, <2>1 DEF UpdateKnownMacs
<1>6. ASSUME NEW mac \in Mac, NEW until \in Stamps, AllowMac(mac, until) PROVE Inv'
  BY <1>4, <1>6 DEF AllowMac
<1>7. ASSUME NEW macs \in SUBSET Stored, table' = Keep(macs), UNCHANGED <<now, contact>>
      PROVE  Inv'
  <2>1. table' = [m \in macs |-> table'[m]] /\ \A m \in macs : table'[m] = table[m]
    BY <1>7 DEF Keep
  <2> QED
    BY <1>1, <1>7, <2>1, EntriesInv
<1>8. CASE ClearAll \/ PurgeExpired
  BY <1>7, <1>8 DEF ClearAll, PurgeExpired
<1>9. CASE Tick
  <2>1. now' \in Time /\ now' = now + 1 /\ table' = [m \in Stored |-> table'[m]]
    BY <1>1, <1>9 DEF Tick, Time, Inv, TypeOK, Stored
  <2>2. ASSUME NEW m \in Stored PROVE EntryOK(table[m], now + 1, contact[m])
    BY <1>1 DEF EntryOK, Entries, Stamps, Time
  <2>3. contact' = contact /\ \A m \in Mac : contact[m] <= now + 1
    BY <1>1, <1>9 DEF Tick, Time
  <2> QED
    BY <1>1, <1>9, <2>1, <2>2, <2>3, EntriesInv DEF Tick
<1>10. ASSUME NEW online \in SUBSET Mac, RemoveOldMacs(online) PROVE Inv'
  <2> DEFINE forgotten == {m \in Stored \ online : ~Live(table[m]) /\ Overdue(table[m])}
  <2>1. /\ table' = [m \in Stored \ forgotten |-> table'[m]]
        /\ \A m \in Stored \ forgotten : table'[m] = Stamp(m, online)
        /\ contact' = [m \in Mac |-> IF m \in online THEN now ELSE contact[m]]
        /\ now' = now
    BY <1>10 DEF RemoveOldMacs
  <2>2. contact' \in [Mac -> Time] /\ \A m \in Mac : contact'[m] <= now'
    BY <1>1, <2>1
  <2>3. ASSUME NEW m \in Stored PROVE EntryOK(Stamp(m, online), now, contact'[m])
    <3>1. table[m] \in Entries /\ EntryOK(table[m], now, contact[m]) /\ m \in Mac
      BY <1>1 DEF EntryOK
    <3>2. table[m].expires = Null \/ table[m].expires \in Nat
      BY <3>1 DEF Entries, Stamps, Time
    <3>3. CASE Live(table[m])
      <4>1. table[m].seen = Null /\ Stamp(m, online) = table[m]
        BY <1>1, <3>1, <3>2, <3>3 DEF Stamp, EntryOK, Live
      <4> QED
        BY <3>1, <4>1 DEF EntryOK
    <3>4. CASE ~Live(table[m]) /\ m \in online
      BY <3>1, <3>4 DEF Stamp, EntryOK, Entries, Stamps
    <3>5. CASE ~Live(table[m]) /\ m \notin online
      <4>1. contact'[m] = contact[m] /\ contact[m] <= now
        BY <1>1, <2>1, <3>1, <3>5 DEF Time
      <4>2. CASE table[m].seen = Null
        <5>1. Stamp(m, online) = [expires |-> table[m].expires, seen |-> now]
          BY <3>1, <3>5, <4>2 DEF Stamp, Entries
        <5> QED
          BY <1>1, <3>1, <3>2, <3>5, <4>1, <5>1 DEF EntryOK, Live, Entries, Stamps, Time
      <4>3. CASE table[m].seen # Null
        <5>1. Stamp(m, online) = table[m]
          BY <3>1, <3>5, <4>3 DEF Stamp, Entries
        <5> QED
          BY <3>1, <4>1, <5>1
      <4> QED
        BY <4>2, <4>3
    <3> QED
      BY <3>3, <3>4, <3>5
  <2> QED
    BY <1>1, <2>1, <2>2, <2>3, EntriesInv
<1> QED
  BY <1>3, <1>5, <1>6, <1>8, <1>9, <1>10 DEF Next

\* The timestamps keep their type, no last_seen lies in the future, and no
\* live temporary allow is counted absent.
THEOREM TypeCorrect == Spec => []TypeOK
<1>1. Inv => TypeOK
  BY DEF Inv
<1> QED
  BY <1>1, InitInv, NextInv, PTL DEF Spec

-----------------------------------------------------------------------------
\* RemoveOldMacs never forgets an identifier that was online, stored or
\* allowed within the last REMOVE_DELAY seconds.
THEOREM ForgottenAfterDelay == Spec => ForgottenOnlyAfterDelay
<1> DEFINE A == \A online \in SUBSET Mac : RemoveOldMacs(online) =>
                  \A m \in Mac : Forgets(m) => contact[m] + RemoveDelay < now
<1>1. Inv => A
  <2> SUFFICES ASSUME Inv, NEW online \in SUBSET Mac, RemoveOldMacs(online),
                      NEW m \in Mac, Forgets(m)
               PROVE  contact[m] + RemoveDelay < now
    OBVIOUS
  <2>1. m \in Stored /\ Overdue(table[m])
    BY DEF RemoveOldMacs, Forgets
  <2>2. EntryOK(table[m], now, contact[m]) /\ contact[m] \in Nat /\ now \in Nat
    BY <2>1, InvEntries DEF Time
  <2> QED
    BY <2>1, <2>2 DEF Overdue, EntryOK, Entries, Stamps, Time
<1>2. Inv /\ [Next]_vars => [A]_vars
  BY <1>1
<1> QED
  BY <1>2, InitInv, NextInv, PTL DEF Spec, ForgottenOnlyAfterDelay
-----------------------------------------------------------------------------
(***************************************************************************)
(* Refinement.  Each statement is followed on the phases of one row.       *)
(***************************************************************************)
Phases == [m \in Mac |-> Phase(m)]

\* A phase is a row of KnownMacsTable.
LEMMA PhaseRow ==
    ASSUME NEW m \in Mac PROVE Phase(m) \in Store!Row
BY DEF Phase, Store!Row, Store!Allows, Store!Absences

\* Inserting and allowing replace one entry and touch no other phase.
LEMMA PutPhase ==
    ASSUME Inv, NEW mac \in Mac, NEW until \in Stamps, now' = now,
           table' = Put(mac, [expires |-> until, seen |-> Null])
    PROVE  /\ Phase(mac)' = [allow   |-> IF until = Null THEN "permanent"
                                        ELSE IF until > now THEN "live" ELSE "lapsed",
                             absence |-> "none"]
           /\ \A m \in Mac \ {mac} : Phase(m)' = Phase(m)
<1>1. /\ DOMAIN table' = Stored \cup {mac}
      /\ table'[mac] = [expires |-> until, seen |-> Null]
      /\ \A m \in Stored \ {mac} : table'[m] = table[m]
  BY DEF Put
<1> QED
  BY <1>1 DEF Phase, Stored, Live, Overdue

\* On phases, the reaping transaction does what Reaped says of each row.
LEMMA ReapPhase ==
    ASSUME Inv, NEW online \in SUBSET Mac, RemoveOldMacs(online), NEW m \in Mac
    PROVE  Phase(m)' = Store!Reaped(Phase(m), m \in online)
<1> DEFINE forgotten == {n \in Stored \ online : ~Live(table[n]) /\ Overdue(table[n])}
<1>1. /\ DOMAIN table' = Stored \ forgotten /\ now' = now
      /\ \A n \in Stored \ forgotten : table'[n] = Stamp(n, online)
  BY DEF RemoveOldMacs
<1>2. CASE m \notin Stored
  BY <1>1, <1>2 DEF Phase, Stored, Store!Reaped
<1>3. CASE m \in Stored
  <2>1. table[m] \in Entries /\ now \in Nat
    BY <1>3, InvEntries DEF EntryOK, Time
  <2>2. CASE Live(table[m])
    <3>1. m \in DOMAIN table' /\ table'[m] = table[m]
      BY <1>1, <1>3, <2>2 DEF Stamp
    <3>2. Phase(m).allow = "live" /\ Phase(m)' = Phase(m)
      BY <1>1, <1>3, <2>2, <3>1 DEF Phase, Stored, Live, Overdue
    <3> QED
      BY <3>2 DEF Store!Reaped
  <2>3. CASE ~Live(table[m]) /\ m \in online
    <3>1. /\ m \in DOMAIN table' /\ table'[m].expires = table[m].expires
          /\ table'[m].seen = Null
      BY <1>1, <1>3, <2>1, <2>3 DEF Stamp, Entries
    <3>2. /\ Phase(m).allow \in {"permanent", "lapsed"}
          /\ Phase(m)' = [allow |-> Phase(m).allow, absence |-> "none"]
      BY <1>1, <1>3, <2>3, <3>1 DEF Phase, Stored, Live
    <3> QED
      BY <2>3, <3>2 DEF Store!Reaped, Phase
  <2>4. CASE ~Live(table[m]) /\ m \notin online /\ Overdue(table[m])
    <3>1. m \notin DOMAIN table' /\ table[m].seen # Null
      BY <1>1, <1>3, <2>4 DEF Overdue
    <3>2. /\ Phase(m).allow \in {"permanent", "lapsed"} /\ Phase(m).absence = "overdue"
          /\ Phase(m)' = Store!NoRow
      BY <1>3, <2>4, <3>1 DEF Phase, Stored, Store!NoRow
    <3> QED
      BY <2>4, <3>2 DEF Store!Reaped
  <2>5. CASE ~Live(table[m]) /\ m \notin online /\ ~Overdue(table[m])
    <3>1. m \in DOMAIN table' /\ table'[m] = Stamp(m, online)
      BY <1>1, <1>3, <2>5
    <3>2. /\ table'[m].expires = table[m].expires /\ table'[m].seen # Null
          /\ ~(table'[m].seen + RemoveDelay < now')
      <4>1. CASE table[m].seen = Null
        <5>1. table'[m] = [expires |-> table[m].expires, seen |-> now]
          BY <2>1, <2>5, <3>1, <4>1 DEF Stamp, Entries
        <5> QED
          BY <1>1, <2>1, <5>1
      <4>2. CASE table[m].seen # Null
        <5>1. table'[m] = table[m]
          BY <2>1, <2>5, <3>1, <4>2 DEF Stamp, Entries
        <5> QED
          BY <1>1, <2>5, <4>2, <5>1 DEF Overdue
      <4> QED
        BY <4>1, <4>2
    <3>3. /\ Phase(m).allow \in {"permanent", "lapsed"} /\ Phase(m).absence # "overdue"
          /\ Phase(m)' = [allow |-> Phase(m).allow, absence |-> "counting"]
      BY <1>1, <1>3, <2>5, <3>1, <3>2 DEF Phase, Stored, Live, Overdue
    <3> QED
      BY <2>5, <3>3 DEF Store!Reaped, Phase
  <2> QED
    BY <2>2, <2>3, <2>4, <2>5
<1> QED
  BY <1>2, <1>3

\* A second that passes moves each phase along Later.
LEMMA TickPhase ==
    ASSUME Inv, Tick, NEW m \in Mac
    PROVE  Phase(m)' \in Store!Later(Phase(m))
<1>1. Phase(m)' \in Store!Row
  BY DEF Phase, Store!Row, Store!Allows, Store!Absences
<1>2. table' = table /\ now' = now + 1 /\ now \in Nat
  BY InvEntries DEF Tick, Time
<1>3. CASE m \notin Stored
  BY <1>1, <1>2, <1>3 DEF Phase, Stored, Store!Later
<1>4. CASE m \in Stored
  <2>1. /\ table[m].expires = Null \/ table[m].expires \in Nat
        /\ table[m].seen = Null \/ table[m].seen \in Nat
    BY <1>4, InvEntries DEF EntryOK, Entries, Stamps, Time
  <2>2. \/ Phase(m)'.allow = Phase(m).allow
        \/ Phase(m).allow = "live" /\ Phase(m)'.allow = "lapsed"
    BY <1>2, <1>4, <2>1 DEF Phase, Stored, Live
  <2>3. \/ Phase(m)'.absence = Phase(m).absence
        \/ Phase(m).absence = "counting" /\ Phase(m)'.absence = "overdue"
    BY <1>2, <1>4, <2>1 DEF Phase, Stored, Overdue
  <2> QED
    BY <1>1, <2>2, <2>3 DEF Store!Later
<1> QED
  BY <1>3, <1>4

\* Every call does to the phases of the rows what KnownMacsTable says, and
\* time does no more to them than KnownMacsStore lets it.
THEOREM StoreImplemented == Spec => ImplementsStore
<1>1. Init => Store!Init
  BY DEF Init, Store!Init, Store!EmptyTable, Store!NoRow, Phase, Stored
<1>2. Inv /\ [Next]_vars => [Store!Next]_Phases
  <2> SUFFICES ASSUME Inv, [Next]_vars PROVE Store!Next \/ Phases' = Phases
    BY DEF Phases
  <2>1. \A m \in Mac : Phases[m] = Phase(m) /\ Phases'[m] = Phase(m)'
    BY DEF Phases
  <2>2. Phases \in [Mac -> Store!Row] /\ Phases' \in [Mac -> Store!Row]
    BY PhaseRow DEF Phases, Phase, Store!Row, Store!Allows, Store!Absences
  <2> HIDE DEF Phases
  <2>3. ASSUME NEW mac \in Mac, UpdateKnownMacs(mac) PROVE Store!Learn(mac)
    <3>1. CASE mac \in Stored
      <4>1. Phases' = Phases /\ Phase(mac).allow # "none"
        BY <2>3, <3>1 DEF UpdateKnownMacs, Phases, Phase, Stored, Live, Overdue
      <4> QED
        BY <2>1, <2>2, <4>1 DEF Store!Learn, Store!UpdateKnownMacs, Phases
    <3>2. CASE mac \notin Stored
      <4>1. /\ table' = Put(mac, [expires |-> Null, seen |-> Null])
            /\ now' = now /\ Null \in Stamps
        BY <2>3, <3>2 DEF UpdateKnownMacs, Stamps
      <4>2. /\ Phase(mac)' = [allow |-> "permanent", absence |-> "none"]
            /\ \A m \in Mac \ {mac} : Phase(m)' = Phase(m)
        BY <4>1, PutPhase
      <4>3. Phase(mac).allow = "none"
        BY <3>2 DEF Phase
      <4> QED
        BY <2>1, <2>2, <4>2, <4>3 DEF Store!Learn, Store!UpdateKnownMacs, Phases
    <3> QED
      BY <3>1, <3>2
  <2>4. ASSUME NEW mac \in Mac, NEW until \in Stamps, AllowMac(mac, until)
        PROVE  Store!Allow(mac)
    <3> DEFINE allow == IF until = Null THEN "permanent"
                        ELSE IF until > now THEN "live" ELSE "lapsed"
    <3>1. /\ Phase(mac)' = [allow |-> allow, absence |-> "none"]
          /\ \A m \in Mac \ {mac} : Phase(m)' = Phase(m)
      BY <2>4, PutPhase DEF AllowMac
    <3>2. allow \in Store!Allows \ {"none"}
      BY DEF Store!Allows
    <3> HIDE DEF allow
    <3>3. Phases' = Store!AllowMac(Phases, mac, allow)
      BY <2>1, <2>2, <3>1 DEF Store!AllowMac
    <3> QED
      BY <3>2, <3>3 DEF Store!Allow, Phases
  <2>5. CASE ClearAll
    <3>1. \A m \in Mac : Phase(m)' = Store!NoRow
      BY <2>5 DEF ClearAll, Keep, Phase, Stored, Store!NoRow
    <3> QED
      BY <2>1, <2>2, <3>1 DEF Store!Next, Store!Clear, Store!ClearAll, Phases
  <2>6. CASE PurgeExpired
    <3>1. /\ now' = now /\ DOMAIN table' = {m \in Stored : ~Expired(table[m])}
          /\ \A m \in DOMAIN table' : table'[m] = table[m]
      BY <2>6 DEF PurgeExpired, Keep
    <3>2. ASSUME NEW m \in Mac
          PROVE  Phase(m)' = IF Phase(m).allow = "lapsed" THEN Store!NoRow ELSE Phase(m)
      <4>1. CASE m \notin Stored
        BY <3>1, <4>1 DEF Phase, Stored
      <4>2. CASE m \in Stored
        <5>1. table[m].expires = Null \/ table[m].expires \in Nat
          BY <4>2, InvEntries DEF EntryOK, Entries, Stamps, Time
        <5>2. now \in Nat
          BY InvEntries DEF Time
        <5>3. Phase(m).allow = "lapsed" <=> Expired(table[m])
          BY <4>2, <5>1, <5>2 DEF Phase, Expired, Live
        <5> QED
          BY <3>1, <4>2, <5>3 DEF Phase, Stored, Live, Overdue, Store!NoRow
      <4> QED
        BY <4>1, <4>2
    <3> QED
      BY <2>1, <2>2, <3>2 DEF Store!Next, Store!Purge, Store!PurgeExpired, Store!Expired, Phases
  <2>7. CASE Tick
    BY <2>1, <2>2, <2>7, TickPhase DEF Store!Next, Store!Age, Phases
  <2>8. ASSUME NEW online \in SUBSET Mac, RemoveOldMacs(online) PROVE Store!Reap
    <3>1. \A m \in Mac : Phases'[m] = Store!Reaped(Phases[m], m \in online)
      BY <2>1, <2>8, ReapPhase
    <3>2. Phases' = Store!RemoveOldMacs(Phases, online)
      BY <2>2, <3>1 DEF Store!RemoveOldMacs
    <3> QED
      BY <3>2 DEF Store!Reap, Phases
  <2>9. CASE UNCHANGED vars
    BY <2>9 DEF Phases, Phase, Stored, Live, Overdue
  <2> QED
    BY <2>3, <2>4, <2>5, <2>6, <2>7, <2>8, <2>9 DEF Next, Store!Next
<1> QED
  BY <1>1, <1>2, InitInv, NextInv, PTL DEF Spec, ImplementsStore, Store!Spec, Phases

=============================================================================
