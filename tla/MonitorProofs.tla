---------------------------- MODULE MonitorProofs ----------------------------
(***************************************************************************)
(* Invariants of the main loop, for every set of devices, configuration,   *)
(* channel capacity and number of backoffs.                                *)
(***************************************************************************)
EXTENDS MonitorProperties, KnownMacsTableProofs

USE DEF vars, world, store, inputs, history, timers, process

-----------------------------------------------------------------------------
(***************************************************************************)
(* Type correctness.                                                       *)
(***************************************************************************)
LEMMA InitType == Init => TypeOK
<1> SUFFICES ASSUME Init PROVE TypeOK
  OBVIOUS
<1>1. StoreType
  BY ConfigAssumption
  DEF Init, StoreType, EmptyTable, NoRow, Row, Allows, Absences, Links
<1>2. LoopType
  <2>1. Idle \in Jobs
    BY BoundsAssumption DEF Jobs, Idle, NoClients, Links
  <2>2. ctx = FALSE /\ boots = 0 /\ pc = "down" /\ alert = NoAlert /\ job = Idle
    BY DEF Init
  <2>3. 0 \in 0 .. MaxBoots
    BY BoundsAssumption
  <2> QED
    BY <2>1, <2>2, <2>3 DEF LoopType, PCs
<1>3. ChannelType
  <2>1. sig \in [Signals -> BOOLEAN] /\ ticker \in Tickers /\ sleepers \in 0 .. MaxSleepers
    BY BoundsAssumption DEF Init, NoSignal, Tickers
  <2>2. /\ teleportCh \in Seq(Clients) /\ Len(teleportCh) = 0
        /\ decisions \in Seq(Choices) /\ Len(decisions) = 0
        /\ commands \in Seq(Orders) /\ Len(commands) = 0
    BY DEF Init
  <2> QED
    BY <2>1, <2>2, BoundsAssumption DEF ChannelType
<1> QED
  BY <1>1, <1>2, <1>3 DEF TypeOK

\* A row in force is a stored row.
LEMMA CurrentStored ==
    ASSUME NEW t \in [Device -> Row]
    PROVE  Current(t) \subseteq Stored(t) /\ Stored(t) \subseteq Device
BY DEF Current, Stored

\* What a reap and reload may do to the table and to the known set.
LEMMA ReapAndReload ==
    ASSUME StoreType, RemoveOldAndReload
    PROVE  /\ rows' \in [Device -> Row] /\ known' \in SUBSET Device
           /\ Stored(rows') \subseteq Stored(rows)
           /\ Current(rows') \subseteq Current(rows)
           /\ known' = known \/ known' = seed \cup Current(rows')
<1>1. PICK removed \in Outcomes, reloaded \in Outcomes :
        /\ rows' = IF removed THEN RemoveOldMacs(rows, Listed(job.list)) ELSE rows
        /\ known' = IF reloaded THEN LoadKnownMacs(rows', seed) ELSE known
  BY DEF RemoveOldAndReload
<1>2. rows \in [Device -> Row] /\ known \in SUBSET Device /\ seed \in SUBSET Device
  BY DEF StoreType
<1>3. /\ rows' \in [Device -> Row]
      /\ Stored(rows') \subseteq Stored(rows) /\ Current(rows') \subseteq Current(rows)
  BY <1>1, <1>2, RemoveOldTable
<1> QED
  BY <1>1, <1>2, <1>3, CurrentStored DEF LoadKnownMacs

(***************************************************************************)
(* The types of the table, the sets and the histories.                     *)
(***************************************************************************)
LEMMA StepStoreType == TypeOK /\ [Next]_vars => StoreType'
<1> SUFFICES ASSUME StoreType, LoopType, ChannelType, [Next]_vars PROVE StoreType'
  BY DEF TypeOK
<1> USE ConfigAssumption
<1>1. CASE RecordDevice
  <2>1. alert.dev \in Device /\ rows \in [Device -> Row]
    BY <1>1 DEF StoreType, LoopType, RecordDevice, Alerts
  <2>2. UpdateKnownMacs(rows, alert.dev) \in [Device -> Row]
    BY <2>1, UpdateTable
  <2> QED
    BY <1>1, <2>1, <2>2 DEF StoreType, RecordDevice
<1>2. CASE HandleTeleport
  <2>1. Head(teleportCh) \in Clients
    BY <1>2 DEF ChannelType, HandleTeleport
  <2> QED
    BY <1>2, <2>1 DEF StoreType, HandleTeleport, SendAlert, Clients
<1>3. CASE Poll
  BY <1>3 DEF StoreType, Poll, NextAttempt, SendAlert, Listed
<1>4. CASE AlertTimeout
  <2>1. job.noIP \subseteq Device
    BY DEF LoopType, Jobs
  <2> QED
    BY <1>4, <2>1 DEF StoreType, AlertTimeout, SendAlert
<1>5. CASE Scan
  <2>1. job.todo \subseteq Device
    BY DEF LoopType, Jobs
  <2>2. PICK d \in job.todo :
          /\ pending' = [pending EXCEPT ![d] = pending'[d]]
          /\ pending'[d] \in {"no", "fresh", "stale"}
          /\ notified' = notified \/ notified' = notified \cup {d}
    BY <1>5, <2>1 DEF StoreType, Scan, SendAlert
  <2> QED
    BY <1>5, <2>1, <2>2 DEF StoreType, Scan
<1>6. CASE Skip
  BY <1>6, ReapAndReload DEF StoreType, Skip, CleanExpiredPending
<1>7. CASE After
  BY <1>7, ReapAndReload DEF StoreType, After, CleanExpiredPending
<1>8. CASE ApplyDecision
  <2>1. Head(decisions) \in Choices
    BY <1>8 DEF ChannelType, ApplyDecision
  <2>2. /\ Head(decisions).mac \in Device /\ rows \in [Device -> Row]
        /\ Head(decisions).until \in Allows \ {"none"}
    BY <2>1 DEF StoreType, Choices
  <2>3. AllowMac(rows, Head(decisions).mac, Head(decisions).until) \in [Device -> Row]
    BY <2>2, AllowTable
  <2> QED
    BY <1>8, <2>2, <2>3 DEF StoreType, ApplyDecision
<1>9. CASE RunCommand
  <2>1. CASE ExportMacs
    BY <1>9, <2>1 DEF StoreType, RunCommand, ExportMacs, PermanentMacs
  <2>2. ASSUME NEW fresh \in BOOLEAN, ReloadKnownMacs(fresh) PROVE StoreType'
    <3>1. rows' \in [Device -> Row]
      <4>1. rows \in [Device -> Row] /\ ClearAll(rows) \in [Device -> Row]
        BY ClearTable DEF StoreType
      <4> QED
        BY <2>2, <4>1 DEF ReloadKnownMacs
    <3>2. KnownMacsSeed \subseteq Device
      BY DEF StoreType, KnownMacsSeed
    <3> QED
      BY <1>9, <2>2, <3>1, <3>2, CurrentStored
      DEF StoreType, RunCommand, ReloadKnownMacs, LoadKnownMacs
  <2>3. CASE UNCHANGED <<file, rows, known, loaded, approved, sig>>
    BY <1>9, <2>3 DEF StoreType, RunCommand
  <2> QED
    BY <1>9, <2>1, <2>2, <2>3 DEF RunCommand
<1>10. CASE SweepExpired
  <2>1. rows \in [Device -> Row] /\ PurgeExpired(rows) \in [Device -> Row]
    BY PurgeTable DEF StoreType
  <2> QED
    BY <1>10, <2>1 DEF StoreType, SweepExpired
<1>11. ASSUME NEW d \in Device, DeviceMoves(d) PROVE StoreType'
  BY <1>11 DEF StoreType, DeviceMoves, NextLinks, Links
<1>12. ASSUME NEW d \in Device, PressButton(d) PROVE StoreType'
  BY <1>12 DEF StoreType, PressButton
<1>13. ASSUME NEW d \in Device, RowAges(d) PROVE StoreType'
  <2>1. rows \in [Device -> Row]
    BY DEF StoreType
  <2>2. PICK row \in Later(rows[d]) : rows' = [rows EXCEPT ![d] = row]
    BY <1>13 DEF RowAges
  <2>3. rows' \in [Device -> Row]
    BY <2>1, <2>2, LaterTable
  <2> QED
    BY <1>13, <2>3 DEF StoreType, RowAges
<1>14. ASSUME NEW d \in Device, PendingAges(d) PROVE StoreType'
  BY <1>14 DEF StoreType, PendingAges
<1>15. CASE EditFile
  BY <1>15 DEF StoreType, EditFile
<1>16. CASE Boot
  <2>1. KnownMacsSeed \subseteq Device
    BY DEF StoreType, KnownMacsSeed
  <2> QED
    BY <1>16, <2>1, CurrentStored DEF StoreType, Boot, LoadKnownMacs
<1>17. CASE Crash \/ Shutdown
  BY <1>17 DEF StoreType, Crash, Shutdown, LoseMemory
<1>18. CASE UNCHANGED <<net, file, rows, known, seed, pending, loaded, notified, approved>>
  BY <1>18 DEF StoreType
<1>19. CASE \/ ReceiveTrigger \/ DelayOver \/ Precheck \/ PrecheckFails \/ PollFails
            \/ BackoffOver \/ BackoffCancelled \/ StartCheck \/ Fetch \/ FetchFails
            \/ ScanDone \/ SlashCommand \/ DecisionAges \/ FallbackElapses
            \/ FallbackTick \/ RetryWakes \/ ExpiryTick \/ Signal \/ UNCHANGED vars
            \/ (\E d \in Device : ConnectionEvent(d))
            \/ (\E d \in Teleports : TeleportSync(d))
  BY <1>18, <1>19
  DEF ReceiveTrigger, DelayOver, Precheck, PrecheckFails, PollFails, BackoffOver,
      BackoffCancelled, StartCheck, Fetch, FetchFails, ScanDone, SlashCommand,
      DecisionAges, FallbackElapses, FallbackTick, RetryWakes, ExpiryTick, Signal,
      ConnectionEvent, TeleportSync
<1> QED
  BY <1>1, <1>2, <1>3, <1>4, <1>5, <1>6, <1>7, <1>8, <1>9, <1>10, <1>11, <1>12,
     <1>13, <1>14, <1>15, <1>16, <1>17, <1>19 DEF Next, MainLoop, World

(***************************************************************************)
(* The types of the program counter, the locals and the alert.             *)
(***************************************************************************)
LEMMA StepLoopType == TypeOK /\ [Next]_vars => LoopType'
<1> SUFFICES ASSUME StoreType, LoopType, ChannelType, [Next]_vars PROVE LoopType'
  BY DEF TypeOK
<1> USE BoundsAssumption DEF PCs, Resume
<1> Idle \in Jobs
  BY DEF Idle, NoClients, Jobs, Links
<1> DEFINE clients == Visible(net)
<1>0. clients \in [Device -> Links] /\ Listed(clients) \subseteq Device
  BY DEF StoreType, Visible, Listed, Links
<1>1. CASE RecordDevice
  BY <1>1 DEF LoopType, RecordDevice, Alerts
<1>2. CASE HandleTeleport
  <2>1. Head(teleportCh) \in Clients
    BY <1>2 DEF ChannelType, HandleTeleport
  <2>2. Head(teleportCh).dev \in Device /\ Head(teleportCh).ip \in BOOLEAN
    BY <2>1, ConfigAssumption DEF Clients
  <2> QED
    BY <1>2, <2>2 DEF LoopType, HandleTeleport, SendAlert, Alerts
<1>3. CASE ReceiveTrigger
  <2>1. job' \in Jobs
    BY <1>3 DEF ReceiveTrigger, Jobs
  <2> QED
    BY <1>3, <2>1 DEF LoopType, ReceiveTrigger
<1>4. CASE DelayOver \/ PrecheckFails \/ BackoffOver \/ BackoffCancelled
           \/ FetchFails \/ ScanDone
  BY <1>4 DEF LoopType, DelayOver, PrecheckFails, BackoffOver, BackoffCancelled,
              FetchFails, ScanDone
<1>5. CASE Precheck
  <2>1. job' \in Jobs
    BY <1>0, <1>5 DEF LoopType, Precheck, Jobs
  <2> QED
    BY <1>5, <2>1 DEF LoopType, Precheck
<1>6. ASSUME NEW noIP \in SUBSET Device, NextAttempt(noIP) PROVE job' \in Jobs
  <2>1. job \in Jobs /\ job.attempt \in 0 .. Backoffs
    BY DEF LoopType, Jobs
  <2>2. CASE job.attempt = Backoffs
    BY <1>6, <2>1, <2>2 DEF NextAttempt, Jobs
  <2>3. CASE job.attempt # Backoffs
    <3>1. job.attempt + 1 \in 0 .. Backoffs
      BY <2>1, <2>3
    <3> QED
      BY <1>6, <2>1, <2>3, <3>1 DEF NextAttempt, Jobs
  <2> QED
    BY <2>2, <2>3
<1>7. CASE Poll
  <2> DEFINE new    == {d \in Listed(clients) : IsNew(d)}
             withIP == {d \in new : clients[d] = "ip"}
  <2>1. new \subseteq Device
    BY <1>0
  <2>2. job \in Jobs /\ job.noIP \subseteq Device
    BY DEF LoopType, Jobs
  <2>3. CASE \E d \in withIP, before \in SUBSET (new \ withIP) :
               /\ SendAlert(d, TRUE, "timeout")
               /\ job' = [job EXCEPT !.hit = TRUE, !.noIP = @ \cup before]
    <3>1. PICK d \in withIP, before \in SUBSET (new \ withIP) :
                 /\ SendAlert(d, TRUE, "timeout")
                 /\ job' = [job EXCEPT !.hit = TRUE, !.noIP = @ \cup before]
      BY <2>3
    <3>2. job' \in Jobs
      BY <2>1, <2>2, <3>1 DEF Jobs
    <3>3. d \in Device
      BY <2>1
    <3> QED
      BY <1>7, <3>1, <3>2, <3>3 DEF LoopType, Poll, SendAlert, Alerts
  <2>4. CASE NextAttempt(job.noIP \cup new) /\ UNCHANGED <<alert, notified>>
    <3>1. job' \in Jobs
      BY <1>6, <2>1, <2>2, <2>4
    <3> QED
      BY <1>7, <2>4, <3>1 DEF LoopType, Poll, NextAttempt
  <2> QED
    BY <1>7, <2>3, <2>4 DEF Poll
<1>8. CASE PollFails
  <2>1. job' \in Jobs
    BY <1>6, <1>8 DEF LoopType, PollFails, Jobs
  <2> QED
    BY <1>8, <2>1 DEF LoopType, PollFails, NextAttempt
<1>9. CASE AlertTimeout
  <2>1. job \in Jobs /\ job.noIP \subseteq Device /\ 0 \in 0 .. Backoffs
    BY DEF LoopType, Jobs
  <2>2. ASSUME NEW d \in job.noIP, SendAlert(d, FALSE, "timeout"),
               job' = [job EXCEPT !.noIP = @ \ {d}]
        PROVE  LoopType'
    <3>1. d \in Device /\ job.noIP \ {d} \in SUBSET Device
      BY <2>1
    <3>2. job' \in Jobs
      BY <2>1, <2>2, <3>1 DEF Jobs
    <3>3. alert' \in Alerts /\ pc' = "record"
      BY <2>2, <3>1 DEF SendAlert, Alerts
    <3> QED
      BY <1>9, <3>2, <3>3 DEF LoopType, AlertTimeout
  <2>3. CASE pc' = "fetch" /\ job' = [job EXCEPT !.attempt = 0] /\ alert' = alert
    <3>1. job' \in Jobs
      BY <2>1, <2>3 DEF Jobs
    <3> QED
      BY <1>9, <2>3, <3>1 DEF LoopType, AlertTimeout
  <2> QED
    BY <1>9, <2>2, <2>3 DEF AlertTimeout
<1>10. CASE StartCheck
  BY <1>10 DEF LoopType, StartCheck
<1>11. CASE Fetch
  <2>1. job' \in Jobs
    BY <1>0, <1>11 DEF LoopType, Fetch, Jobs
  <2> QED
    BY <1>11, <2>1 DEF LoopType, Fetch
<1>12. CASE Scan
  <2>1. job \in Jobs /\ job.todo \subseteq Device
    BY DEF LoopType, Jobs
  <2>2. PICK d \in job.todo, hit \in BOOLEAN :
          /\ job' = [job EXCEPT !.todo = @ \ {d}, !.hit = hit]
          /\ \/ UNCHANGED <<pc, alert>>
             \/ /\ pc' = "record"
                /\ alert' = [dev |-> d, ip |-> job.list[d] = "ip", next |-> "scan"]
    BY <1>12, <2>1 DEF Scan, SendAlert, Jobs
  <2>3. job' \in Jobs
    BY <2>1, <2>2 DEF Jobs
  <2>4. CASE UNCHANGED <<pc, alert>>
    BY <1>12, <2>3, <2>4 DEF LoopType, Scan
  <2>5. CASE /\ pc' = "record"
             /\ alert' = [dev |-> d, ip |-> job.list[d] = "ip", next |-> "scan"]
    <3>1. alert' \in Alerts
      BY <2>1, <2>5 DEF Alerts
    <3> QED
      BY <1>12, <2>3, <2>5, <3>1 DEF LoopType, Scan
  <2> QED
    BY <2>2, <2>4, <2>5
<1>13. CASE Skip \/ After
  BY <1>13 DEF LoopType, Skip, After
<1>14. CASE Boot
  BY <1>14 DEF LoopType, Boot, Running
<1>15. CASE Crash \/ Shutdown
  BY <1>15 DEF LoopType, Crash, Shutdown, LoseMemory
<1>16. CASE Signal
  BY <1>16 DEF LoopType, Signal
<1>17. CASE UNCHANGED <<pc, job, alert, ctx, boots>>
  BY <1>17 DEF LoopType
<1>18. CASE \/ ApplyDecision \/ RunCommand \/ SweepExpired \/ SlashCommand
            \/ EditFile \/ DecisionAges \/ FallbackElapses \/ FallbackTick
            \/ RetryWakes \/ ExpiryTick \/ UNCHANGED vars
            \/ (\E d \in Device : \/ DeviceMoves(d) \/ ConnectionEvent(d)
                                  \/ PressButton(d) \/ RowAges(d) \/ PendingAges(d))
            \/ (\E d \in Teleports : TeleportSync(d))
  BY <1>17, <1>18
  DEF ApplyDecision, RunCommand, SweepExpired, SlashCommand, EditFile, DecisionAges,
      FallbackElapses, FallbackTick, RetryWakes, ExpiryTick, DeviceMoves,
      ConnectionEvent, PressButton, RowAges, PendingAges, TeleportSync
<1> QED
  BY <1>1, <1>2, <1>3, <1>4, <1>5, <1>7, <1>8, <1>9, <1>10, <1>11, <1>12, <1>13,
     <1>14, <1>15, <1>16, <1>18 DEF Next, MainLoop, World
(***************************************************************************)
(* The types and the capacities of the channels.                           *)
(***************************************************************************)
SignalType == /\ sig \in [Signals -> BOOLEAN] /\ ticker \in Tickers
              /\ sleepers \in 0 .. MaxSleepers

QueueType == /\ teleportCh \in Seq(Clients) /\ Len(teleportCh) <= TeleportCap
             /\ decisions \in Seq(Choices) /\ Len(decisions) <= DecisionsCap
             /\ commands \in Seq(Orders) /\ Len(commands) <= CommandsCap

\* Every step leaves the one-slot channels, the ticker and the sleepers typed.
LEMMA StepSignalType == TypeOK /\ [Next]_vars => SignalType'
<1> SUFFICES ASSUME SignalType, [Next]_vars PROVE SignalType'
  BY DEF TypeOK, ChannelType, SignalType
<1> USE BoundsAssumption DEF Tickers
<1> ASSUME NEW s \in Signals, NEW b \in BOOLEAN
    PROVE  /\ [sig EXCEPT ![s] = b] \in [Signals -> BOOLEAN]
           /\ [NoSignal EXCEPT ![s] = b] \in [Signals -> BOOLEAN]
           /\ NoSignal \in [Signals -> BOOLEAN]
  BY DEF SignalType, NoSignal
<1> {"trigger", "retry", "recheck", "expiry"} \subseteq Signals
  BY DEF Signals
<1>1. CASE UNCHANGED timers
  BY <1>1 DEF SignalType
<1>2. ASSUME ResetFallback PROVE sig' \in [Signals -> BOOLEAN] /\ ticker' \in Tickers
  BY <1>2 DEF SignalType, ResetFallback
<1>3. CASE Boot
  BY <1>3 DEF SignalType, Boot, FreshTicker
<1>4. CASE Crash \/ Shutdown
  BY <1>4 DEF SignalType, Crash, Shutdown, LoseMemory
<1>5. CASE ReceiveTrigger \/ DelayOver \/ BackoffOver \/ StartCheck \/ SweepExpired
  BY <1>5 DEF SignalType, ReceiveTrigger, DelayOver, BackoffOver, StartCheck, SweepExpired
<1>6. CASE Skip \/ After
  BY <1>2, <1>6 DEF SignalType, Skip, After
<1>7. CASE RunCommand
  BY <1>7 DEF SignalType, RunCommand, ExportMacs, ReloadKnownMacs
<1>8. CASE RetryWakes
  <2>1. sleepers' \in 0 .. MaxSleepers
    BY <1>8 DEF SignalType, RetryWakes
  <2> QED
    BY <1>8, <2>1 DEF SignalType, RetryWakes
<1>9. CASE FallbackElapses \/ FallbackTick
  BY <1>9 DEF SignalType, FallbackElapses, FallbackTick
<1>10. CASE ExpiryTick \/ \E d \in Device : ConnectionEvent(d)
  BY <1>10 DEF SignalType, ExpiryTick, ConnectionEvent
<1>11. CASE \/ RecordDevice \/ HandleTeleport \/ Precheck \/ PrecheckFails \/ Poll
           \/ PollFails \/ BackoffCancelled \/ AlertTimeout \/ Fetch \/ FetchFails
           \/ Scan \/ ScanDone \/ ApplyDecision \/ SlashCommand \/ EditFile
           \/ DecisionAges \/ Signal \/ UNCHANGED vars
           \/ (\E d \in Device : \/ DeviceMoves(d) \/ PressButton(d) \/ RowAges(d)
                                 \/ PendingAges(d))
           \/ (\E d \in Teleports : TeleportSync(d))
  BY <1>1, <1>11
  DEF RecordDevice, HandleTeleport, Precheck, PrecheckFails, Poll, PollFails,
      BackoffCancelled, AlertTimeout, Fetch, FetchFails, Scan, ScanDone,
      ApplyDecision, SlashCommand, EditFile, DecisionAges, Signal, DeviceMoves,
      PressButton, RowAges, PendingAges, TeleportSync
<1> QED
  BY <1>3, <1>4, <1>5, <1>6, <1>7, <1>8, <1>9, <1>10,
     <1>11 DEF Next, MainLoop, World

\* Every step leaves the three queues typed and within their capacities.
LEMMA StepQueueType == TypeOK /\ [Next]_vars => QueueType'
<1> SUFFICES ASSUME QueueType, net \in [Device -> Links], [Next]_vars
             PROVE  QueueType'
  BY DEF TypeOK, StoreType, ChannelType, QueueType
<1> USE BoundsAssumption
<1>1. CASE UNCHANGED inputs
  BY <1>1 DEF QueueType
<1>2. CASE HandleTeleport
  BY <1>2 DEF QueueType, HandleTeleport
<1>3. CASE ApplyDecision
  BY <1>3 DEF QueueType, ApplyDecision
<1>4. CASE RunCommand
  <2>1. UNCHANGED <<teleportCh, decisions>> /\ commands # <<>> /\ commands' = Tail(commands)
    BY <1>4 DEF RunCommand
  <2> QED
    BY <2>1 DEF QueueType
<1>5. ASSUME NEW d \in Teleports, TeleportSync(d) PROVE QueueType'
  <2>1. [dev |-> d, ip |-> net[d] = "ip"] \in Clients
    BY DEF Clients
  <2> QED
    BY <1>5, <2>1 DEF QueueType, TeleportSync
<1>6. ASSUME NEW d \in Device, PressButton(d) PROVE QueueType'
  <2>1. PICK until \in {"permanent", "live"} :
               decisions' = Append(decisions, [mac |-> d, until |-> until])
    BY <1>6 DEF PressButton
  <2>2. [mac |-> d, until |-> until] \in Choices
    BY DEF Choices, Allows
  <2> QED
    BY <1>6, <2>1, <2>2 DEF QueueType, PressButton
<1>7. CASE SlashCommand
  BY <1>7 DEF QueueType, SlashCommand
<1>8. CASE DecisionAges
  <2>1. PICK i \in 1 .. Len(decisions) :
               decisions' = [decisions EXCEPT ![i].until = "lapsed"]
    BY <1>8 DEF DecisionAges
  <2>2. decisions[i] \in Choices
    BY DEF QueueType
  <2>3. [decisions[i] EXCEPT !.until = "lapsed"] \in Choices
    BY <2>2 DEF Choices, Allows
  <2>4. decisions' = [decisions EXCEPT ![i] = [decisions[i] EXCEPT !.until = "lapsed"]]
    BY <2>1
  <2>5. decisions' \in Seq(Choices) /\ Len(decisions') = Len(decisions)
    BY <2>3, <2>4 DEF QueueType
  <2> QED
    BY <1>8, <2>5 DEF QueueType, DecisionAges
<1>9. CASE Crash \/ Shutdown
  <2>1. teleportCh' = <<>> /\ decisions' = <<>> /\ commands' = <<>>
    BY <1>9 DEF Crash, Shutdown, LoseMemory
  <2>2. ASSUME NEW S PROVE <<>> \in Seq(S) /\ Len(<<>>) = 0
    OBVIOUS
  <2> QED
    BY <2>1, <2>2 DEF QueueType
<1>10. CASE \/ Boot \/ Signal \/ RecordDevice \/ ReceiveTrigger \/ DelayOver \/ Precheck
            \/ PrecheckFails \/ Poll \/ PollFails \/ BackoffOver \/ BackoffCancelled
            \/ AlertTimeout \/ StartCheck \/ Fetch \/ FetchFails \/ Scan \/ ScanDone
            \/ Skip \/ After \/ SweepExpired \/ EditFile \/ FallbackElapses
            \/ FallbackTick \/ RetryWakes \/ ExpiryTick \/ UNCHANGED vars
            \/ (\E d \in Device : \/ DeviceMoves(d) \/ ConnectionEvent(d) \/ RowAges(d)
                                  \/ PendingAges(d))
  BY <1>1, <1>10
  DEF Boot, Signal, RecordDevice, ReceiveTrigger, DelayOver, Precheck, PrecheckFails,
      Poll, PollFails, BackoffOver, BackoffCancelled, AlertTimeout, StartCheck, Fetch,
      FetchFails, Scan, ScanDone, Skip, After, SweepExpired, EditFile,
      FallbackElapses, FallbackTick, RetryWakes, ExpiryTick, DeviceMoves,
      ConnectionEvent, RowAges, PendingAges
<1> QED
  BY <1>2, <1>3, <1>4, <1>5, <1>6, <1>7, <1>8, <1>9, <1>10 DEF Next, MainLoop, World

\* Every variable keeps its type: the channels of main.go keep to their
\* capacity and the IP wait to its backoffs, whatever these are.
THEOREM TypeCorrect == Spec => []TypeOK
<1>1. TypeOK /\ [Next]_vars => TypeOK'
  <2>1. SignalType' /\ QueueType' => ChannelType'
    BY DEF SignalType, QueueType, ChannelType
  <2> QED
    BY <2>1, StepStoreType, StepLoopType, StepSignalType, StepQueueType DEF TypeOK
<1> QED
  BY <1>1, InitType, PTL DEF Spec

-----------------------------------------------------------------------------
(***************************************************************************)
(* LiveRowsKnown is inductive together with the types.                     *)
(***************************************************************************)
LEMMA StepLiveRowsKnown ==
    TypeOK /\ LiveRowsKnown /\ [Next]_vars => LiveRowsKnown'
<1> SUFFICES ASSUME TypeOK, LiveRowsKnown, [Next]_vars, Running'
             PROVE  Current(rows') \subseteq known'
  BY DEF LiveRowsKnown
<1>1. rows \in [Device -> Row] /\ StoreType /\ ChannelType
  BY DEF TypeOK, StoreType
<1>2. CASE Boot
  BY <1>2 DEF Boot, LoadKnownMacs
<1>3. CASE Crash \/ Shutdown
  BY <1>3 DEF Crash, Shutdown, Running
<1>4. CASE RecordDevice
  <2>1. alert.dev \in Device /\ Current(rows) \subseteq known
    BY <1>4 DEF TypeOK, LoopType, RecordDevice, Alerts, LiveRowsKnown, Running
  <2>2. rows' = rows \/ rows' = UpdateKnownMacs(rows, alert.dev)
    BY <1>4 DEF RecordDevice
  <2>3. Current(rows') \subseteq Current(rows) \cup {alert.dev}
    BY <1>1, <2>1, <2>2, UpdateTable
  <2> QED
    BY <1>4, <2>1, <2>3 DEF RecordDevice
<1>5. CASE Skip \/ After
  <2>1. Running
    BY <1>5 DEF Skip, After, Running
  <2>2. \/ UNCHANGED <<rows, known>>
        \/ RemoveOldAndReload
    BY <1>5 DEF Skip, After
  <2> QED
    BY <1>1, <2>1, <2>2, ReapAndReload DEF LiveRowsKnown
<1>6. CASE ApplyDecision
  <2>1. /\ Head(decisions) \in Choices
        /\ Running
    BY <1>1, <1>6 DEF ChannelType, ApplyDecision, Running
  <2>2. Head(decisions).mac \in Device /\ Head(decisions).until \in Allows \ {"none"}
    BY <2>1 DEF Choices
  <2>3. \/ UNCHANGED <<rows, known>>
        \/ /\ rows' = AllowMac(rows, Head(decisions).mac, Head(decisions).until)
           /\ known' = known \cup {Head(decisions).mac}
    BY <1>6 DEF ApplyDecision
  <2> QED
    BY <1>1, <2>1, <2>2, <2>3, AllowTable DEF LiveRowsKnown
<1>7. CASE RunCommand
  <2>1. Running
    BY <1>7 DEF RunCommand, Running
  <2>2. \/ UNCHANGED <<rows, known>>
        \/ known' = LoadKnownMacs(rows', KnownMacsSeed)
        \/ rows' = ClearAll(rows)
    BY <1>7 DEF RunCommand, ExportMacs, ReloadKnownMacs
  <2> QED
    BY <1>1, <2>1, <2>2, ClearTable DEF LiveRowsKnown, LoadKnownMacs
<1>8. CASE SweepExpired
  <2>1. Running
    BY <1>8 DEF SweepExpired, Running
  <2> QED
    BY <1>1, <1>8, <2>1, PurgeTable DEF LiveRowsKnown, SweepExpired
<1>9. ASSUME NEW d \in Device, RowAges(d) PROVE Current(rows') \subseteq known'
  <2>1. PICK row \in Later(rows[d]) : rows' = [rows EXCEPT ![d] = row]
    BY <1>9 DEF RowAges
  <2>2. Current(rows') \subseteq Current(rows)
    BY <1>1, <2>1, LaterTable
  <2> QED
    BY <1>9, <2>2 DEF LiveRowsKnown, RowAges, Running
<1>10. CASE UNCHANGED <<rows, known>> /\ (Running' => Running)
  BY <1>10 DEF LiveRowsKnown
<1>11. CASE \/ HandleTeleport \/ ReceiveTrigger \/ DelayOver \/ Precheck \/ PrecheckFails
            \/ Poll \/ PollFails \/ BackoffOver \/ BackoffCancelled \/ AlertTimeout
            \/ StartCheck \/ Fetch \/ FetchFails \/ Scan \/ ScanDone
  BY <1>10, <1>11
  DEF HandleTeleport, ReceiveTrigger, DelayOver, Precheck, PrecheckFails, Poll,
      PollFails, BackoffOver, BackoffCancelled, AlertTimeout, StartCheck, Fetch,
      FetchFails, Scan, ScanDone, Running
<1>12. CASE \/ Signal \/ SlashCommand \/ EditFile \/ DecisionAges \/ FallbackElapses
            \/ FallbackTick \/ RetryWakes \/ ExpiryTick \/ UNCHANGED vars
            \/ (\E d \in Device : \/ DeviceMoves(d) \/ ConnectionEvent(d)
                                  \/ PressButton(d) \/ PendingAges(d))
            \/ (\E d \in Teleports : TeleportSync(d))
  BY <1>10, <1>12
  DEF Signal, SlashCommand, EditFile, DecisionAges, FallbackElapses, FallbackTick,
      RetryWakes, ExpiryTick, DeviceMoves, ConnectionEvent, PressButton,
      PendingAges, TeleportSync, Running
<1> QED
  BY <1>2, <1>3, <1>4, <1>5, <1>6, <1>7, <1>8, <1>9, <1>11, <1>12
  DEF Next, MainLoop, World

\* A row whose allow is in force suppresses alerts in memory too, whichever
\* database call of whichever handler fails and wherever a crash falls.
THEOREM LiveRowsAlwaysKnown == Spec => []LiveRowsKnown
<1>1. Init => LiveRowsKnown
  BY DEF Init, LiveRowsKnown, Running
<1> QED
  BY <1>1, TypeCorrect, StepLiveRowsKnown, PTL DEF Spec

-----------------------------------------------------------------------------
(***************************************************************************)
(* KnownIsAccounted.  Recording a device accounts for it only because its  *)
(* alert was sent before; a decision because its button belongs to an      *)
(* alert; a reload at the reaper because the seed was listed at startup.   *)
(***************************************************************************)
Accounted == notified \cup approved

AccountInv ==
    /\ KnownIsAccounted
    /\ seed \subseteq Accounted
    /\ pc = "record" => alert.dev \in Accounted
    /\ \A i \in 1 .. Len(decisions) : decisions[i].mac \in Accounted

\* Alerts are never unsent and approvals never withdrawn.
LEMMA AccountedGrows == [Next]_vars => Accounted \subseteq Accounted'
<1> SUFFICES ASSUME [Next]_vars PROVE Accounted \subseteq Accounted'
  OBVIOUS
<1>1. CASE MainLoop \/ HandleTeleport
  BY <1>1
  DEF Accounted, MainLoop, HandleTeleport, SendAlert, RecordDevice, ReceiveTrigger,
      DelayOver, Precheck, PrecheckFails, Poll, PollFails, BackoffOver,
      BackoffCancelled, AlertTimeout, StartCheck, Fetch, FetchFails, Scan, ScanDone,
      Skip, After, ApplyDecision, RunCommand, ExportMacs, ReloadKnownMacs,
      SweepExpired, Shutdown, LoseMemory
<1>2. CASE World
  BY <1>2
  DEF Accounted, World, DeviceMoves, ConnectionEvent, TeleportSync, PressButton,
      RowAges, PendingAges, SlashCommand, EditFile, DecisionAges, FallbackElapses,
      FallbackTick, RetryWakes, ExpiryTick, Boot, Crash, LoseMemory, Signal
<1>3. CASE UNCHANGED vars
  BY <1>3 DEF Accounted
<1> QED
  BY <1>1, <1>2, <1>3 DEF Next

\* The table and the known set.
LEMMA StepMemoryAccounted ==
    ASSUME TypeOK, AccountInv, [Next]_vars
    PROVE  known' \subseteq Accounted' /\ Stored(rows') \subseteq Accounted'
<1> DEFINE Goal == known' \subseteq Accounted' /\ Stored(rows') \subseteq Accounted'
<1>1. /\ StoreType /\ LoopType /\ ChannelType /\ rows \in [Device -> Row]
      /\ Accounted \subseteq Accounted'
      /\ known \subseteq Accounted /\ Stored(rows) \subseteq Accounted
      /\ seed \subseteq Accounted
      /\ Current(rows) \subseteq Stored(rows)
  BY AccountedGrows, CurrentStored
  DEF TypeOK, StoreType, AccountInv, KnownIsAccounted, Accounted
<1>2. CASE Boot
  BY <1>1, <1>2 DEF Boot, LoadKnownMacs, Accounted
<1>3. CASE Crash \/ Shutdown
  BY <1>1, <1>3 DEF Crash, Shutdown, LoseMemory
<1>4. CASE RecordDevice
  <2>1. alert.dev \in Device /\ alert.dev \in Accounted
    BY <1>1, <1>4 DEF LoopType, RecordDevice, Alerts, AccountInv
  <2>2. rows' = rows \/ rows' = UpdateKnownMacs(rows, alert.dev)
    BY <1>4 DEF RecordDevice
  <2>3. Stored(rows') \subseteq Stored(rows) \cup {alert.dev}
    BY <1>1, <2>1, <2>2, UpdateTable
  <2> QED
    BY <1>1, <1>4, <2>1, <2>3 DEF RecordDevice
<1>5. CASE Skip \/ After
  <2>1. UNCHANGED <<rows, known>> \/ RemoveOldAndReload
    BY <1>5 DEF Skip, After
  <2> QED
    BY <1>1, <2>1, ReapAndReload
<1>6. CASE ApplyDecision
  <2>1. Head(decisions) \in Choices /\ Head(decisions) = decisions[1] /\ 1 \in 1 .. Len(decisions)
    BY <1>1, <1>6 DEF ChannelType, ApplyDecision
  <2>2. /\ Head(decisions).mac \in Device /\ Head(decisions).until \in Allows \ {"none"}
        /\ Head(decisions).mac \in Accounted
    BY <2>1 DEF Choices, AccountInv
  <2>3. \/ UNCHANGED <<rows, known>>
        \/ /\ rows' = AllowMac(rows, Head(decisions).mac, Head(decisions).until)
           /\ known' = known \cup {Head(decisions).mac}
    BY <1>6 DEF ApplyDecision
  <2> QED
    BY <1>1, <2>2, <2>3, AllowTable
<1>7. CASE RunCommand
  <2>1. CASE UNCHANGED <<rows, known>>
    BY <1>1, <2>1
  <2>2. ASSUME NEW fresh \in BOOLEAN, ReloadKnownMacs(fresh) PROVE Goal
    <3>1. Stored(ClearAll(rows)) = {} /\ Current(ClearAll(rows)) = {}
      BY <1>1, ClearTable
    <3>2. rows' = rows \/ rows' = ClearAll(rows)
      BY <2>2 DEF ReloadKnownMacs
    <3>3. \/ known' = known
          \/ /\ known' = KnownMacsSeed \cup Current(rows')
             /\ approved' = approved \cup KnownMacsSeed
      BY <2>2 DEF ReloadKnownMacs, LoadKnownMacs
    <3> QED
      BY <1>1, <3>1, <3>2, <3>3 DEF Accounted
  <2> QED
    BY <1>7, <2>1, <2>2 DEF RunCommand, ExportMacs
<1>8. CASE SweepExpired
  BY <1>1, <1>8, PurgeTable DEF SweepExpired
<1>9. ASSUME NEW d \in Device, RowAges(d) PROVE Goal
  <2>1. PICK row \in Later(rows[d]) : rows' = [rows EXCEPT ![d] = row]
    BY <1>9 DEF RowAges
  <2>2. Stored(rows') = Stored(rows)
    BY <1>1, <2>1, LaterTable
  <2> QED
    BY <1>1, <1>9, <2>2 DEF RowAges
<1>10. CASE UNCHANGED <<rows, known>>
  BY <1>1, <1>10
<1>11. CASE \/ HandleTeleport \/ ReceiveTrigger \/ DelayOver \/ Precheck \/ PrecheckFails
            \/ Poll \/ PollFails \/ BackoffOver \/ BackoffCancelled \/ AlertTimeout
            \/ StartCheck \/ Fetch \/ FetchFails \/ Scan \/ ScanDone
            \/ Signal \/ SlashCommand \/ EditFile \/ DecisionAges \/ FallbackElapses
            \/ FallbackTick \/ RetryWakes \/ ExpiryTick \/ UNCHANGED vars
            \/ (\E d \in Device : \/ DeviceMoves(d) \/ ConnectionEvent(d)
                                  \/ PressButton(d) \/ PendingAges(d))
            \/ (\E d \in Teleports : TeleportSync(d))
  BY <1>10, <1>11
  DEF HandleTeleport, ReceiveTrigger, DelayOver, Precheck, PrecheckFails, Poll,
      PollFails, BackoffOver, BackoffCancelled, AlertTimeout, StartCheck, Fetch,
      FetchFails, Scan, ScanDone, Signal, SlashCommand, EditFile, DecisionAges,
      FallbackElapses, FallbackTick, RetryWakes, ExpiryTick, DeviceMoves,
      ConnectionEvent, PressButton, PendingAges, TeleportSync
<1> QED
  BY <1>2, <1>3, <1>4, <1>5, <1>6, <1>7, <1>8, <1>9, <1>11 DEF Next, MainLoop, World

\* The seed, the outstanding alert and the queued decisions.
LEMMA StepSourcesAccounted ==
    ASSUME TypeOK, AccountInv, [Next]_vars
    PROVE  /\ seed' \subseteq Accounted'
           /\ pc' = "record" => alert'.dev \in Accounted'
           /\ \A i \in 1 .. Len(decisions') : decisions'[i].mac \in Accounted'
<1>1. /\ Accounted \subseteq Accounted' /\ seed \subseteq Accounted
      /\ decisions \in Seq(Choices)
      /\ \A i \in 1 .. Len(decisions) : decisions[i].mac \in Accounted
      /\ pc = "record" => alert.dev \in Accounted
  BY AccountedGrows DEF TypeOK, ChannelType, AccountInv
<1>2. seed' \subseteq Accounted'
  <2>1. CASE Boot
    BY <2>1 DEF Boot, Accounted
  <2>2. CASE seed' = seed \/ seed' = {}
    BY <1>1, <2>2
  <2>3. CASE MainLoop \/ HandleTeleport
    BY <2>2, <2>3
    DEF MainLoop, HandleTeleport, RecordDevice, ReceiveTrigger,
        DelayOver, Precheck, PrecheckFails, Poll, PollFails, BackoffOver,
        BackoffCancelled, AlertTimeout, StartCheck, Fetch, FetchFails, Scan, ScanDone,
        Skip, After, ApplyDecision, RunCommand, SweepExpired, Shutdown, LoseMemory
  <2>4. CASE World /\ ~Boot
    BY <2>2, <2>4
    DEF World, DeviceMoves, ConnectionEvent, TeleportSync, PressButton,
        RowAges, PendingAges, SlashCommand, EditFile, DecisionAges, FallbackElapses,
        FallbackTick, RetryWakes, ExpiryTick, Crash, LoseMemory, Signal
  <2>5. CASE UNCHANGED vars
    BY <2>2, <2>5
  <2> QED
    BY <2>1, <2>3, <2>4, <2>5 DEF Next
<1>3. pc' = "record" => alert'.dev \in Accounted'
  <2>1. ASSUME NEW d, NEW hasIP, NEW next, SendAlert(d, hasIP, next)
        PROVE  alert'.dev \in Accounted'
    BY <2>1 DEF SendAlert, Accounted
  <2>2. CASE pc' # "record" \/ UNCHANGED <<pc, alert>>
    BY <1>1, <2>2
  <2>3. CASE HandleTeleport \/ Poll \/ AlertTimeout \/ Scan
    BY <2>1, <2>2, <2>3 DEF HandleTeleport, Poll, NextAttempt, AlertTimeout, Scan
  <2>4. CASE RecordDevice
    <3>1. alert \in Alerts
      BY <2>4 DEF TypeOK, LoopType, RecordDevice
    <3> QED
      BY <2>2, <2>4, <3>1 DEF RecordDevice, Alerts, Resume
  <2>5. CASE \/ ReceiveTrigger \/ DelayOver \/ Precheck \/ PrecheckFails \/ PollFails
             \/ BackoffOver \/ BackoffCancelled \/ StartCheck \/ Fetch \/ FetchFails
             \/ ScanDone \/ Skip \/ After \/ ApplyDecision \/ RunCommand
             \/ SweepExpired \/ Shutdown
    BY <2>2, <2>5
    DEF ReceiveTrigger, DelayOver, Precheck, PrecheckFails, PollFails, NextAttempt,
        BackoffOver, BackoffCancelled, StartCheck, Fetch, FetchFails, ScanDone, Skip,
        After, ApplyDecision, RunCommand, SweepExpired, Shutdown
  <2>6. CASE World
    BY <2>2, <2>6
    DEF World, DeviceMoves, ConnectionEvent, TeleportSync, PressButton,
        RowAges, PendingAges, SlashCommand, EditFile, DecisionAges, FallbackElapses,
        FallbackTick, RetryWakes, ExpiryTick, Crash, Boot, Signal
  <2>7. CASE UNCHANGED vars
    BY <2>2, <2>7
  <2> QED
    BY <2>3, <2>4, <2>5, <2>6, <2>7 DEF Next, MainLoop
<1>4. \A i \in 1 .. Len(decisions') : decisions'[i].mac \in Accounted'
  <2>1. CASE ApplyDecision
    <3>1. decisions' = Tail(decisions) /\ decisions # <<>>
      BY <2>1 DEF ApplyDecision
    <3>2. ASSUME NEW i \in 1 .. Len(decisions')
          PROVE  decisions'[i] = decisions[i + 1] /\ i + 1 \in 1 .. Len(decisions)
      BY <1>1, <3>1
    <3> QED
      BY <1>1, <3>2
  <2>2. ASSUME NEW d \in Device, PressButton(d)
        PROVE  \A i \in 1 .. Len(decisions') : decisions'[i].mac \in Accounted'
    <3>1. PICK until \in {"permanent", "live"} :
                 decisions' = Append(decisions, [mac |-> d, until |-> until])
      BY <2>2 DEF PressButton
    <3>2. d \in Accounted
      BY <2>2 DEF PressButton, Accounted
    <3>3. ASSUME NEW i \in 1 .. Len(decisions')
          PROVE  \/ i \in 1 .. Len(decisions) /\ decisions'[i] = decisions[i]
                 \/ decisions'[i] = [mac |-> d, until |-> until]
      BY <1>1, <3>1
    <3> QED
      BY <1>1, <3>2, <3>3
  <2>3. CASE DecisionAges
    <3>1. PICK j \in 1 .. Len(decisions) :
                 decisions' = [decisions EXCEPT ![j].until = "lapsed"]
      BY <2>3 DEF DecisionAges
    <3>2. Len(decisions') = Len(decisions)
      BY <1>1, <3>1
    <3>3. ASSUME NEW i \in 1 .. Len(decisions)
          PROVE  decisions'[i].mac = decisions[i].mac
      <4>1. decisions[i] \in Choices
        BY <1>1
      <4> QED
        BY <1>1, <3>1, <4>1 DEF Choices
    <3> QED
      BY <1>1, <3>2, <3>3
  <2>4. CASE Crash \/ Shutdown
    BY <2>4 DEF Crash, Shutdown, LoseMemory
  <2>5. CASE decisions' = decisions
    BY <1>1, <2>5
  <2>6. CASE MainLoop /\ ~ApplyDecision /\ ~Shutdown
    BY <2>5, <2>6
    DEF MainLoop, RecordDevice, ReceiveTrigger,
        DelayOver, Precheck, PrecheckFails, Poll, PollFails, BackoffOver,
        BackoffCancelled, AlertTimeout, StartCheck, Fetch, FetchFails, Scan, ScanDone,
        Skip, After, RunCommand, SweepExpired
  <2>7. CASE \/ DecisionAges \/ (\E d \in Device : PressButton(d)) \/ Crash
    BY <2>2, <2>3, <2>4, <2>7
  <2>8. CASE \/ SlashCommand \/ EditFile \/ Boot \/ Signal \/ FallbackElapses
             \/ FallbackTick \/ RetryWakes \/ ExpiryTick \/ UNCHANGED vars
             \/ HandleTeleport
             \/ (\E d \in Device : \/ DeviceMoves(d) \/ ConnectionEvent(d)
                                   \/ RowAges(d) \/ PendingAges(d))
             \/ (\E d \in Teleports : TeleportSync(d))
    BY <2>5, <2>8
    DEF SlashCommand, EditFile, Boot, Signal, FallbackElapses, FallbackTick,
        RetryWakes, ExpiryTick, HandleTeleport, DeviceMoves, ConnectionEvent, RowAges,
        PendingAges, TeleportSync
  <2> QED
    BY <2>1, <2>4, <2>6, <2>7, <2>8 DEF Next, World
<1> QED
  BY <1>2, <1>3, <1>4

\* No device goes silent unless an alert about it was sent or the operator
\* vouched for it, through crashes, failed calls, reloads and exports.
THEOREM KnownAlwaysAccounted == Spec => []KnownIsAccounted
<1>1. Init => AccountInv
  <2> SUFFICES ASSUME Init PROVE AccountInv
    OBVIOUS
  <2>1. Stored(rows) = {} /\ known = {} /\ seed = {} /\ pc = "down" /\ decisions = <<>>
    BY DEF Init, Stored, EmptyTable, NoRow
  <2> QED
    BY <2>1 DEF AccountInv, KnownIsAccounted
<1>2. TypeOK /\ AccountInv /\ [Next]_vars => AccountInv'
  BY StepMemoryAccounted, StepSourcesAccounted
  DEF AccountInv, KnownIsAccounted, Accounted
<1>3. AccountInv => KnownIsAccounted
  BY DEF AccountInv
<1> QED
  BY <1>1, <1>2, <1>3, TypeCorrect, PTL DEF Spec

-----------------------------------------------------------------------------
(***************************************************************************)
(* CheckIsComplete.  Half way through a client list the clients already    *)
(* visited are settled; one of them may owe it to the alert just sent.     *)
(***************************************************************************)
InCheck == pc \in {"scan", "after"} \/ (pc = "record" /\ alert.next = "scan")

Settled(d) == \/ d \in known
              \/ pc = "record" /\ alert.dev = d
              \/ RequireIP /\ pending[d] # "no" /\ job.list[d] # "ip"

CheckInv ==
    /\ \A d \in Device : pending[d] # "no" => RequireIP
    /\ job.fetched => InCheck
    /\ job.fetched => \A d \in Listed(job.list) \ job.todo : Settled(d)
    /\ job.fetched /\ pc = "after" => job.todo = {}

\* One client of the scan: it is settled, and nobody else is unsettled.
LEMMA ScanSettles ==
    ASSUME TypeOK, CheckInv, Scan PROVE CheckInv'
<1>1. /\ job \in Jobs /\ job.todo \subseteq Device /\ pc = "scan"
      /\ pending \in [Device -> {"no", "fresh", "stale"}]
  BY DEF TypeOK, LoopType, StoreType, Jobs, Scan
<1> DEFINE hasIP(d) == job.list[d] = "ip"
           held(d)  == IsNew(d) /\ RequireIP /\ ~hasIP(d)
           waits(d) == pending[d] # "no" /\ ~hasIP(d)
           quiet(d) == d \in known \/ held(d) \/ waits(d)
<1>2. PICK d \in job.todo :
        /\ job' = [job EXCEPT !.todo = @ \ {d}, !.hit = @ \/ ~quiet(d)]
        /\ pending' = [pending EXCEPT
                         ![d] = CASE held(d)   -> "fresh"
                                  [] ~quiet(d) -> "no"
                                  [] OTHER     -> @]
        /\ \/ quiet(d) /\ UNCHANGED <<pc, alert, notified>>
           \/ ~quiet(d) /\ SendAlert(d, hasIP(d), "scan")
  BY DEF Scan
<1>3. /\ job'.todo = job.todo \ {d} /\ job'.list = job.list
      /\ job'.fetched = job.fetched
  BY <1>1, <1>2 DEF Jobs
<1>4. known' = known /\ d \in Device
  BY <1>1 DEF Scan
<1>5. \A e \in Device \ {d} : pending'[e] = pending[e]
  BY <1>1, <1>2, <1>4
<1>6. /\ held(d) => pending'[d] = "fresh"
      /\ quiet(d) /\ ~held(d) => pending'[d] = pending[d]
      /\ ~quiet(d) => pending'[d] = "no"
  BY <1>1, <1>2, <1>4
<1>7. \A e \in Device : pending'[e] # "no" => RequireIP
  BY <1>4, <1>5, <1>6 DEF CheckInv
<1>8. Settled(d)'
  BY <1>2, <1>3, <1>4, <1>6, <1>7 DEF Settled, SendAlert
<1>9. ASSUME NEW e \in Device \ {d}, Settled(e) PROVE Settled(e)'
  BY <1>1, <1>3, <1>4, <1>5, <1>9 DEF Settled
<1>10. Listed(job.list) \subseteq Device
  BY DEF Listed
<1>11. InCheck' /\ pc' \in {"scan", "record"}
  <2>1. \/ pc' = "scan"
        \/ pc' = "record" /\ alert' = [dev |-> d, ip |-> hasIP(d), next |-> "scan"]
    BY <1>1, <1>2 DEF SendAlert
  <2> QED
    BY <2>1 DEF InCheck
<1> QED
  BY <1>3, <1>7, <1>8, <1>9, <1>10, <1>11 DEF CheckInv

\* Every step keeps the invariant of a check in progress.
LEMMA StepCheckInv == TypeOK /\ CheckInv /\ [Next]_vars => CheckInv'
<1> SUFFICES ASSUME TypeOK, CheckInv, [Next]_vars PROVE CheckInv'
  OBVIOUS
<1> DEFINE HeldType == \A d \in Device : pending[d] # "no" => RequireIP
<1>1. job \in Jobs /\ pending \in [Device -> {"no", "fresh", "stale"}] /\ HeldType
  BY DEF TypeOK, LoopType, StoreType, CheckInv
<1>2. ASSUME ~job'.fetched, HeldType' PROVE CheckInv'
  BY <1>2 DEF CheckInv
<1>3. ~Idle.fetched
  BY DEF Idle
<1>4. CASE RecordDevice
  <2>1. alert \in Alerts
    BY <1>4 DEF TypeOK, LoopType, RecordDevice
  <2>2. ASSUME NEW d, Settled(d) PROVE Settled(d)'
    BY <1>4, <2>2 DEF Settled, RecordDevice
  <2>3. UNCHANGED <<job, pending>> /\ pc = "record" /\ pc' = alert.next /\ pc' # "after"
    BY <1>4, <2>1 DEF RecordDevice, Alerts, Resume
  <2>4. job'.fetched => InCheck'
    BY <2>3 DEF CheckInv, InCheck
  <2>5. job'.fetched => \A d \in Listed(job'.list) \ job'.todo : Settled(d)'
    BY <2>2, <2>3 DEF CheckInv
  <2> QED
    BY <1>1, <2>3, <2>4, <2>5 DEF CheckInv
<1>5. CASE Fetch
  <2>1. job'.todo = Listed(job'.list) /\ pc' = "scan" /\ pending' = pending
    BY <1>1, <1>5 DEF Fetch, Jobs
  <2>2. InCheck' /\ pc' # "after"
    BY <2>1 DEF InCheck
  <2> QED
    BY <1>1, <2>1, <2>2 DEF CheckInv
<1>6. CASE Scan
  BY <1>6, ScanSettles
<1>7. CASE ScanDone
  <2>1. UNCHANGED <<job, pending, known>> /\ job.todo = {} /\ pc = "scan" /\ pc' = "after"
    BY <1>7 DEF ScanDone
  <2>2. InCheck'
    BY <2>1 DEF InCheck
  <2>3. ASSUME NEW d, Settled(d) PROVE Settled(d)'
    BY <2>1, <2>3 DEF Settled
  <2> QED
    BY <1>1, <2>1, <2>2, <2>3 DEF CheckInv
<1>8. CASE Skip \/ After
  BY <1>1, <1>2, <1>3, <1>8 DEF Skip, After, CleanExpiredPending
<1>9. CASE Crash \/ Shutdown
  BY <1>2, <1>3, <1>9 DEF Crash, Shutdown, LoseMemory
<1>10. CASE ReceiveTrigger
  <2>1. ~job'.fetched
    BY <1>10 DEF ReceiveTrigger, Idle
  <2> QED
    BY <1>1, <1>2, <1>10, <2>1 DEF ReceiveTrigger
<1>11. CASE \/ HandleTeleport \/ DelayOver \/ Precheck \/ PrecheckFails \/ Poll
            \/ PollFails \/ BackoffOver \/ BackoffCancelled \/ AlertTimeout
            \/ StartCheck \/ FetchFails \/ ApplyDecision \/ RunCommand \/ SweepExpired
            \/ Boot
  <2>1. pc \notin {"scan", "after", "record"} /\ pending' = pending
    BY <1>11
    DEF HandleTeleport, DelayOver, Precheck, PrecheckFails, Poll, PollFails,
        BackoffOver, BackoffCancelled, AlertTimeout, StartCheck, FetchFails,
        ApplyDecision, RunCommand, SweepExpired, Boot, Running
  <2>2. ~job.fetched
    BY <2>1 DEF CheckInv, InCheck
  <2>3. CASE Precheck \/ Poll \/ PollFails \/ AlertTimeout
    <3>1. job'.fetched = job.fetched
      BY <1>1, <2>3 DEF Precheck, Poll, PollFails, NextAttempt, AlertTimeout, Jobs
    <3> QED
      BY <1>1, <1>2, <2>1, <2>2, <3>1
  <2>4. CASE job' = job
    BY <1>1, <1>2, <2>1, <2>2, <2>4
  <2> QED
    BY <1>11, <2>3, <2>4
    DEF HandleTeleport, DelayOver, PrecheckFails, BackoffOver, BackoffCancelled,
        StartCheck, FetchFails, ApplyDecision, RunCommand, SweepExpired, Boot
<1>12. ASSUME NEW d \in Device, PendingAges(d) PROVE CheckInv'
  <2>1. /\ UNCHANGED <<job, pc, alert, known>>
        /\ \A e \in Device : pending'[e] # "no" <=> pending[e] # "no"
    BY <1>1, <1>12 DEF PendingAges
  <2>2. Listed(job.list) \subseteq Device
    BY DEF Listed
  <2> QED
    BY <2>1, <2>2 DEF CheckInv, InCheck, Settled
<1>13. CASE UNCHANGED <<job, pc, alert, known, pending>>
  BY <1>13 DEF CheckInv, InCheck, Settled
<1>14. CASE \/ Signal \/ SlashCommand \/ EditFile \/ DecisionAges \/ FallbackElapses
            \/ FallbackTick \/ RetryWakes \/ ExpiryTick \/ UNCHANGED vars
            \/ (\E d \in Device : \/ DeviceMoves(d) \/ ConnectionEvent(d)
                                  \/ PressButton(d) \/ RowAges(d))
            \/ (\E d \in Teleports : TeleportSync(d))
  BY <1>13, <1>14
  DEF Signal, SlashCommand, EditFile, DecisionAges, FallbackElapses, FallbackTick,
      RetryWakes, ExpiryTick, DeviceMoves, ConnectionEvent, PressButton, RowAges,
      TeleportSync
<1> QED
  BY <1>4, <1>5, <1>6, <1>7, <1>8, <1>9, <1>10, <1>11, <1>12, <1>14
  DEF Next, MainLoop, World

\* runCheck leaves nobody of its client list unseen to, however large the
\* list and whatever befalls the process between two clients.
THEOREM ChecksAreComplete == Spec => []CheckIsComplete
<1>1. Init => CheckInv
  <2> SUFFICES ASSUME Init PROVE CheckInv
    OBVIOUS
  <2>1. ~job.fetched /\ \A d \in Device : pending[d] = "no"
    BY DEF Init, Idle
  <2> QED
    BY <2>1 DEF CheckInv
<1>2. CheckInv => CheckIsComplete
  BY DEF CheckInv, CheckIsComplete, Settled
<1> QED
  BY <1>1, <1>2, TypeCorrect, StepCheckInv, PTL DEF Spec

-----------------------------------------------------------------------------
(***************************************************************************)
(* AllowedStaysQuiet.  A device that waits for its alert was unknown when  *)
(* it was collected, so no allow of it was in force; and while the loop    *)
(* has collected devices it takes no decision from the channel.            *)
(***************************************************************************)
Resting == pc \in {"select", "down", "stopped"}
           \/ (pc = "record" /\ alert.next = "select")

QuietInv ==
    /\ AllowedStaysQuiet
    /\ \A d \in job.noIP : d \notin Current(rows)
    /\ Resting => job.noIP = {}

\* Neither the ageing of a row nor the reaper puts an allow into force.
LEMMA QuietIfNothingAllowed ==
    ASSUME QuietInv, UNCHANGED alert, Current(rows') \subseteq Current(rows),
           job'.noIP \subseteq job.noIP, Resting' => Resting \/ job'.noIP = {},
           pc' = "record" => pc = "record"
    PROVE  QuietInv'
BY DEF QuietInv, AllowedStaysQuiet

\* Every step keeps it, if devices are not remembered unasked.
LEMMA StepQuietInv ==
    ASSUME ~RememberNewDevices, TypeOK, LiveRowsKnown, QuietInv, [Next]_vars
    PROVE  QuietInv'
<1>1. /\ job \in Jobs /\ StoreType /\ rows \in [Device -> Row]
      /\ Running => Current(rows) \subseteq known
  BY DEF TypeOK, LoopType, StoreType, LiveRowsKnown
<1>2. Idle.noIP = {}
  BY DEF Idle
<1>3. ASSUME NEW d, NEW hasIP, NEW next, SendAlert(d, hasIP, next), UNCHANGED rows,
             d \notin Current(rows), \A e \in job'.noIP : e \notin Current(rows),
             next = "select" => job'.noIP = {}
      PROVE  QuietInv'
  BY <1>3 DEF SendAlert, QuietInv, AllowedStaysQuiet, Resting
<1>4. CASE RecordDevice
  <2>1. UNCHANGED <<rows, job>> /\ pc = "record" /\ pc' = alert.next /\ alert \in Alerts
    BY <1>4 DEF RecordDevice, TypeOK, LoopType
  <2>2. pc' # "record" /\ (Resting' => Resting)
    BY <2>1 DEF Alerts, Resume, Resting
  <2> QED
    BY <2>1, <2>2 DEF QuietInv, AllowedStaysQuiet
<1>5. CASE HandleTeleport
  <2>1. UNCHANGED <<rows, known, job>> /\ pc \in {"select", "wsDelay", "backoff"}
    BY <1>5 DEF HandleTeleport
  <2>2. CASE UNCHANGED <<pc, alert>>
    BY <2>1, <2>2, QuietIfNothingAllowed DEF Resting
  <2>3. ASSUME Head(teleportCh).dev \notin known,
               SendAlert(Head(teleportCh).dev, Head(teleportCh).ip, pc)
        PROVE  QuietInv'
    <3>1. Head(teleportCh).dev \notin Current(rows)
      BY <1>1, <2>1, <2>3 DEF Running
    <3>2. \A e \in job'.noIP : e \notin Current(rows)
      BY <2>1 DEF QuietInv
    <3>3. pc = "select" => job'.noIP = {}
      BY <2>1 DEF QuietInv, Resting
    <3> QED
      BY <1>3, <2>1, <2>3, <3>1, <3>2, <3>3
  <2> QED
    BY <1>5, <2>2, <2>3 DEF HandleTeleport
<1>6. CASE Poll
  <2> DEFINE new    == {d \in Listed(Visible(net)) : IsNew(d)}
             withIP == {d \in new : Visible(net)[d] = "ip"}
  <2>1. pc = "poll" /\ UNCHANGED rows /\ \A d \in new : d \notin Current(rows)
    <3>1. pc = "poll" /\ UNCHANGED rows
      BY <1>6, Zenon DEF Poll
    <3>2. \A d \in new : d \notin known
      BY DEF IsNew
    <3> QED
      BY <1>1, <3>1, <3>2 DEF Running
  <2>2. ASSUME NEW d \in withIP, NEW before \in SUBSET (new \ withIP),
               SendAlert(d, TRUE, "timeout"),
               job' = [job EXCEPT !.hit = TRUE, !.noIP = @ \cup before]
        PROVE  QuietInv'
    <3>1. job'.noIP = job.noIP \cup before
      BY <1>1, <2>2 DEF Jobs
    <3> QED
      BY <1>3, <2>1, <2>2, <3>1 DEF QuietInv
  <2>3. CASE NextAttempt(job.noIP \cup new) /\ UNCHANGED alert
    <3> HIDE DEF new
    <3>1. pc' \in {"timeout", "backoff"} /\ job'.noIP = job.noIP \cup new
      BY <1>1, <2>3 DEF NextAttempt, Jobs
    <3>2. ~Resting' /\ pc' # "record"
      BY <3>1 DEF Resting
    <3> QED
      BY <2>1, <3>1, <3>2 DEF QuietInv, AllowedStaysQuiet
  <2> QED
    BY <1>6, <2>2, <2>3, Zenon DEF Poll
<1>7. CASE AlertTimeout
  <2>1. UNCHANGED rows
    BY <1>7 DEF AlertTimeout
  <2>2. ASSUME NEW d \in job.noIP, SendAlert(d, FALSE, "timeout"),
               job' = [job EXCEPT !.noIP = @ \ {d}]
        PROVE  QuietInv'
    <3>1. job'.noIP = job.noIP \ {d}
      BY <1>1, <2>2 DEF Jobs
    <3> QED
      BY <1>3, <2>1, <2>2, <3>1 DEF QuietInv
  <2>3. CASE /\ job.noIP = {} /\ pc' = "fetch" /\ job' = [job EXCEPT !.attempt = 0]
             /\ UNCHANGED alert
    <3>1. job'.noIP = {}
      BY <1>1, <2>3 DEF Jobs
    <3> QED
      BY <2>1, <2>3, <3>1 DEF QuietInv, AllowedStaysQuiet
  <2> QED
    BY <1>7, <2>2, <2>3 DEF AlertTimeout
<1>8. CASE Scan
  <2>1. UNCHANGED <<rows, known>> /\ pc = "scan"
    BY <1>8 DEF Scan
  <2>2. PICK d \in job.todo :
          /\ job'.noIP = job.noIP
          /\ \/ UNCHANGED <<pc, alert>>
             \/ d \notin known /\ SendAlert(d, job.list[d] = "ip", "scan")
    BY <1>1, <1>8 DEF Scan, Jobs
  <2>3. CASE UNCHANGED <<pc, alert>>
    BY <2>1, <2>2, <2>3, QuietIfNothingAllowed DEF Resting
  <2>4. CASE d \notin known /\ SendAlert(d, job.list[d] = "ip", "scan")
    BY <1>1, <1>3, <2>1, <2>2, <2>4 DEF QuietInv, Running
  <2> QED
    BY <2>2, <2>3, <2>4
<1>9. CASE ApplyDecision \/ RunCommand \/ SweepExpired
  <2>1. pc = "select" /\ pc' = "select" /\ job' = job
    BY <1>9 DEF ApplyDecision, RunCommand, SweepExpired
  <2> QED
    BY <2>1 DEF QuietInv, AllowedStaysQuiet, Resting
<1>10. CASE Skip \/ After
  <2>1. job' = Idle /\ pc' = "select"
    BY <1>10 DEF Skip, After
  <2> QED
    BY <1>2, <2>1 DEF QuietInv, AllowedStaysQuiet
<1>11. CASE Crash \/ Shutdown
  BY <1>2, <1>11 DEF Crash, Shutdown, LoseMemory, QuietInv, AllowedStaysQuiet
<1>12. CASE Boot
  <2>1. UNCHANGED <<rows, job>> /\ ~Running /\ pc' = "select"
    BY <1>12 DEF Boot
  <2> QED
    BY <2>1 DEF QuietInv, AllowedStaysQuiet, Resting, Running
<1>13. CASE ReceiveTrigger
  <2>1. job'.noIP = {} /\ pc' # "record" /\ UNCHANGED rows
    BY <1>13 DEF ReceiveTrigger, Idle
  <2> QED
    BY <2>1 DEF QuietInv, AllowedStaysQuiet
<1>14. CASE \/ DelayOver \/ Precheck \/ PrecheckFails \/ PollFails \/ BackoffOver
            \/ BackoffCancelled \/ StartCheck \/ Fetch \/ FetchFails \/ ScanDone
  <2>1. UNCHANGED <<rows, alert>> /\ pc' \notin {"record", "select", "down", "stopped"}
    BY <1>14 DEF DelayOver, Precheck, PrecheckFails, PollFails, NextAttempt, BackoffOver,
       BackoffCancelled, StartCheck, Fetch, FetchFails, ScanDone
  <2>2. job'.noIP = job.noIP
    BY <1>1, <1>14 DEF DelayOver, Precheck, PrecheckFails, PollFails, NextAttempt,
       BackoffOver, BackoffCancelled, StartCheck, Fetch, FetchFails, ScanDone, Jobs
  <2> QED
    BY <2>1, <2>2, QuietIfNothingAllowed DEF Resting
<1>15. ASSUME NEW d \in Device, RowAges(d) PROVE QuietInv'
  <2>1. PICK row \in Later(rows[d]) : rows' = [rows EXCEPT ![d] = row]
    BY <1>15 DEF RowAges
  <2>2. Current(rows') \subseteq Current(rows)
    BY <1>1, <2>1, LaterTable
  <2> QED
    BY <1>15, <2>2, QuietIfNothingAllowed DEF RowAges, Resting
<1>16. CASE UNCHANGED <<rows, pc, alert, job>>
  BY <1>16, QuietIfNothingAllowed DEF Resting
<1>17. CASE \/ Signal \/ SlashCommand \/ EditFile \/ DecisionAges \/ FallbackElapses
            \/ FallbackTick \/ RetryWakes \/ ExpiryTick \/ UNCHANGED vars
            \/ (\E d \in Device : \/ DeviceMoves(d) \/ ConnectionEvent(d)
                                  \/ PressButton(d) \/ PendingAges(d))
            \/ (\E d \in Teleports : TeleportSync(d))
  BY <1>16, <1>17
  DEF Signal, SlashCommand, EditFile, DecisionAges, FallbackElapses, FallbackTick,
      RetryWakes, ExpiryTick, DeviceMoves, ConnectionEvent, PressButton, PendingAges,
      TeleportSync
<1> QED
  BY <1>4, <1>5, <1>6, <1>7, <1>8, <1>9, <1>10, <1>11, <1>12, <1>13, <1>14, <1>15,
     <1>17 DEF Next, MainLoop, World

\* With REMEMBER_NEW_DEVICES=false, no alert goes out about a device whose
\* allow is in force, however long ago an IP wait collected it.
THEOREM AllowedAlwaysQuiet == ~RememberNewDevices => (Spec => []AllowedStaysQuiet)
<1> SUFFICES ASSUME ~RememberNewDevices PROVE Spec => []AllowedStaysQuiet
  OBVIOUS
<1>1. Init => QuietInv
  <2> SUFFICES ASSUME Init PROVE QuietInv
    OBVIOUS
  <2>1. job.noIP = {} /\ pc = "down"
    BY DEF Init, Idle
  <2> QED
    BY <2>1 DEF QuietInv, AllowedStaysQuiet
<1>2. TypeOK /\ LiveRowsKnown /\ QuietInv /\ [Next]_vars => QuietInv'
  BY StepQuietInv
<1>3. QuietInv => AllowedStaysQuiet
  BY DEF QuietInv
<1> QED
  BY <1>1, <1>2, <1>3, TypeCorrect, LiveRowsAlwaysKnown, PTL DEF Spec

-----------------------------------------------------------------------------
(***************************************************************************)
(* Without the interactive service nothing but the reaper takes a row      *)
(* away, no allow lapses, and the seed in memory is the one that was       *)
(* loaded: then the seed stays known.                                      *)
(***************************************************************************)
Plain(row) == row.allow \in {"none", "permanent"}

PlainInv ==
    /\ decisions = <<>> /\ commands = <<>> /\ ~sig["expiry"]
    /\ \A d \in Device : Plain(rows[d])
    /\ Running => loaded = seed /\ seed \subseteq known

\* The SQL of a recorded device and of the reaper leaves plain rows plain,
\* and the former puts its row in force.
LEMMA PlainTable ==
    ASSUME NEW t \in [Device -> Row], \A d \in Device : Plain(t[d])
    PROVE  /\ \A online : \A d \in Device : Plain(RemoveOldMacs(t, online)[d])
           /\ \A m \in Device :
                /\ \A d \in Device : Plain(UpdateKnownMacs(t, m)[d])
                /\ Current(UpdateKnownMacs(t, m)) = Current(t) \cup {m}
<1>1. ASSUME NEW online, NEW d \in Device PROVE Plain(RemoveOldMacs(t, online)[d])
  <2>1. RemoveOldMacs(t, online)[d] = Reaped(t[d], d \in online)
    BY DEF RemoveOldMacs
  <2>2. Reaped(t[d], d \in online).allow \in {t[d].allow, "none"}
    <3>1. t[d] \in Row /\ (d \in online) \in BOOLEAN
      OBVIOUS
    <3> QED
      BY <3>1, ReapedRow
  <2> QED
    BY <2>1, <2>2 DEF Plain
<1>2. ASSUME NEW m \in Device
      PROVE  /\ \A d \in Device : Plain(UpdateKnownMacs(t, m)[d])
             /\ Current(UpdateKnownMacs(t, m)) = Current(t) \cup {m}
  BY <1>2 DEF UpdateKnownMacs, Plain, Current
<1> QED
  BY <1>1, <1>2

\* Every step keeps the plain table and the seed.
LEMMA StepPlainInv ==
    ASSUME ~Interactive, TypeOK, PlainInv, [Next]_vars
    PROVE  PlainInv'
<1>1. /\ rows \in [Device -> Row] /\ StoreType /\ sig \in [Signals -> BOOLEAN]
      /\ \A s \in {"trigger", "retry", "recheck", "expiry"} : s \in Signals
      /\ alert.dev \in Device \/ pc # "record"
  BY DEF TypeOK, StoreType, ChannelType, LoopType, Alerts, Signals
<1>2. ASSUME UNCHANGED <<decisions, commands, rows, known, loaded, seed>>,
             ~sig'["expiry"], Running' => Running
      PROVE  PlainInv'
  BY <1>2 DEF PlainInv
<1>3. CASE RecordDevice
  <2>1. rows' = rows \/ rows' = UpdateKnownMacs(rows, alert.dev)
    BY <1>3 DEF RecordDevice
  <2>2. \A d \in Device : Plain(rows'[d])
    BY <1>1, <1>3, <2>1, PlainTable DEF PlainInv, RecordDevice
  <2> QED
    BY <1>3, <2>2 DEF PlainInv, RecordDevice, Running
<1>4. CASE Skip \/ After
  <2>1. /\ Running /\ UNCHANGED <<decisions, commands, loaded, seed>>
        /\ UNCHANGED <<rows, known>> \/ RemoveOldAndReload
    BY <1>4 DEF Skip, After, Running
  <2>2. ~sig'["expiry"]
    BY <1>1, <1>4 DEF Skip, After, ResetFallback, PlainInv
  <2>3. CASE UNCHANGED <<rows, known>>
    BY <1>2, <2>1, <2>2, <2>3
  <2>4. CASE RemoveOldAndReload
    <3>1. known' = known \/ known' = seed \cup Current(rows')
      BY <1>1, <2>4, ReapAndReload
    <3>2. rows' = rows \/ rows' = RemoveOldMacs(rows, Listed(job.list))
      BY <2>4 DEF RemoveOldAndReload
    <3>3. \A d \in Device : Plain(rows'[d])
      BY <1>1, <3>2, PlainTable DEF PlainInv
    <3> QED
      BY <2>1, <2>2, <3>1, <3>3 DEF PlainInv
  <2> QED
    BY <2>1, <2>3, <2>4
<1>5. CASE Boot
  BY <1>1, <1>5 DEF Boot, PlainInv, NoSignal, LoadKnownMacs
<1>6. CASE Crash \/ Shutdown
  BY <1>6 DEF Crash, Shutdown, LoseMemory, PlainInv, NoSignal, Signals, Running
<1>7. ASSUME NEW d \in Device, RowAges(d) PROVE PlainInv'
  <2>1. PICK row \in Later(rows[d]) : rows' = [rows EXCEPT ![d] = row]
    BY <1>7 DEF RowAges
  <2>2. Plain(row)
    BY <2>1 DEF Later, Plain, PlainInv
  <2>3. \A e \in Device : Plain(rows'[e])
    BY <1>1, <2>1, <2>2 DEF PlainInv
  <2> QED
    BY <1>7, <2>3 DEF RowAges, PlainInv, Running
<1>8. CASE ReceiveTrigger \/ DelayOver \/ BackoffOver \/ StartCheck \/ RetryWakes
           \/ \E d \in Device : ConnectionEvent(d)
  <2>1. \/ sig' = sig
        \/ \E s \in {"trigger", "retry", "recheck"}, b \in BOOLEAN :
             sig' = [sig EXCEPT ![s] = b]
    BY <1>8 DEF ReceiveTrigger, DelayOver, BackoffOver, StartCheck, RetryWakes,
       ConnectionEvent
  <2>2. ~sig'["expiry"]
    BY <1>1, <2>1 DEF PlainInv
  <2> QED
    BY <1>2, <1>8, <2>2 DEF ReceiveTrigger, DelayOver, BackoffOver, StartCheck,
       RetryWakes, ConnectionEvent, Running
<1>9. CASE \/ HandleTeleport \/ Precheck \/ PrecheckFails \/ Poll \/ PollFails
           \/ BackoffCancelled \/ AlertTimeout \/ Fetch \/ FetchFails \/ Scan \/ ScanDone
  <2>1. UNCHANGED <<decisions, commands, rows, known, loaded, seed, sig>> /\ Running
    <3>1. CASE Poll
      BY <3>1, Zenon DEF Poll, Running
    <3>2. CASE Scan
      BY <3>2 DEF Scan, Running
    <3> QED
      BY <1>9, <3>1, <3>2 DEF HandleTeleport, Precheck, PrecheckFails, PollFails,
         BackoffCancelled, AlertTimeout, Fetch, FetchFails, ScanDone, Running
  <2> QED
    BY <1>2, <2>1 DEF PlainInv
<1>10. CASE \/ Signal \/ EditFile \/ FallbackElapses \/ FallbackTick \/ UNCHANGED vars
            \/ (\E d \in Device : DeviceMoves(d) \/ PendingAges(d))
            \/ (\E d \in Teleports : TeleportSync(d))
  BY <1>2, <1>10 DEF Signal, EditFile, FallbackElapses, FallbackTick, DeviceMoves,
     PendingAges, TeleportSync, Running, PlainInv
<1>11. ~(ApplyDecision \/ RunCommand \/ SweepExpired \/ DecisionAges)
  BY DEF PlainInv, ApplyDecision, RunCommand, SweepExpired, DecisionAges
<1>12. ~(SlashCommand \/ ExpiryTick \/ \E d \in Device : PressButton(d))
  BY DEF SlashCommand, ExpiryTick, PressButton
<1> QED
  BY <1>3, <1>4, <1>5, <1>6, <1>7, <1>8, <1>9, <1>10, <1>11, <1>12
  DEF Next, MainLoop, World

\* The process that is not up yet has no rows, no signals and no orders.
LEMMA InitPlainInv == Init => PlainInv
BY DEF Init, PlainInv, Plain, EmptyTable, NoRow, NoSignal, Signals, Running

\* Without the interactive service the seed of a process stays known to it,
\* whatever the reaper removes and whichever database call fails.
THEOREM SeedAlwaysHonoured == ~Interactive => (Spec => []SeedHonoured)
<1> SUFFICES ASSUME ~Interactive PROVE Spec => []SeedHonoured
  OBVIOUS
<1>1. TypeOK /\ PlainInv /\ [Next]_vars => PlainInv'
  BY StepPlainInv
<1>2. PlainInv => SeedHonoured
  BY DEF PlainInv, SeedHonoured
<1> QED
  BY <1>1, <1>2, InitPlainInv, TypeCorrect, PTL DEF Spec

\* Every step keeps memory and table alike, while no database call fails and
\* devices are remembered.
LEMMA StepMatches ==
    ASSUME ~Interactive, ~Faults, RememberNewDevices,
           TypeOK, PlainInv, MemoryMatchesTable, [Next]_vars
    PROVE  MemoryMatchesTable'
<1> SUFFICES ASSUME Running' PROVE known' = LoadKnownMacs(rows', seed')
  BY DEF MemoryMatchesTable
<1>1. /\ rows \in [Device -> Row] /\ StoreType /\ Outcomes = {TRUE}
      /\ Running => known = seed \cup Current(rows)
      /\ \A d \in Device : Plain(rows[d])
  BY DEF TypeOK, StoreType, Outcomes, MemoryMatchesTable, LoadKnownMacs, PlainInv
<1>2. CASE RecordDevice
  <2>1. alert.dev \in Device /\ Running
    BY <1>2 DEF RecordDevice, TypeOK, LoopType, Alerts, Running
  <2>2. rows' = UpdateKnownMacs(rows, alert.dev)
        /\ known' = known \cup {alert.dev} /\ seed' = seed
    BY <1>1, <1>2 DEF RecordDevice
  <2>3. Current(rows') = Current(rows) \cup {alert.dev}
    BY <1>1, <2>1, <2>2, PlainTable
  <2> QED
    BY <1>1, <2>1, <2>2, <2>3 DEF LoadKnownMacs
<1>3. CASE Skip \/ After
  <2>1. /\ Running /\ seed' = seed
        /\ UNCHANGED <<rows, known>> \/ RemoveOldAndReload
    BY <1>3 DEF Skip, After, Running
  <2>2. RemoveOldAndReload => known' = LoadKnownMacs(rows', seed)
    BY <1>1 DEF RemoveOldAndReload
  <2> QED
    BY <1>1, <2>1, <2>2 DEF LoadKnownMacs
<1>4. CASE Boot
  BY <1>4 DEF Boot
<1>5. CASE Crash \/ Shutdown
  BY <1>5 DEF Crash, Shutdown, Running
<1>6. ASSUME NEW d \in Device, RowAges(d) PROVE known' = LoadKnownMacs(rows', seed')
  <2>1. PICK row \in Later(rows[d]) : rows' = [rows EXCEPT ![d] = row]
    BY <1>6 DEF RowAges
  <2>2. row.allow = rows[d].allow
    BY <1>1, <2>1 DEF Later, Plain
  <2>3. Current(rows') = Current(rows)
    BY <1>1, <2>1, <2>2 DEF Current
  <2> QED
    BY <1>1, <1>6, <2>3 DEF RowAges, LoadKnownMacs, Running
<1>7. CASE UNCHANGED <<rows, known, seed>> /\ Running
  BY <1>1, <1>7 DEF LoadKnownMacs
<1>8. CASE \/ HandleTeleport \/ ReceiveTrigger \/ DelayOver \/ Precheck \/ PrecheckFails
           \/ PollFails \/ BackoffOver \/ BackoffCancelled \/ AlertTimeout
           \/ StartCheck \/ Fetch \/ FetchFails \/ ScanDone
  BY <1>7, <1>8
  DEF HandleTeleport, ReceiveTrigger, DelayOver, Precheck, PrecheckFails, PollFails,
      BackoffOver, BackoffCancelled, AlertTimeout, StartCheck, Fetch, FetchFails,
      ScanDone, Running
<1>9. CASE Poll
  <2>1. UNCHANGED <<rows, known, seed>> /\ Running
    BY <1>9, Zenon DEF Poll, Running
  <2> QED
    BY <1>7, <2>1
<1>10. CASE Scan
  BY <1>7, <1>10 DEF Scan, Running
<1>11. CASE \/ Signal \/ EditFile \/ FallbackElapses \/ FallbackTick \/ RetryWakes
            \/ UNCHANGED vars
            \/ (\E d \in Device : DeviceMoves(d) \/ ConnectionEvent(d) \/ PendingAges(d))
            \/ (\E d \in Teleports : TeleportSync(d))
  BY <1>7, <1>11 DEF Signal, EditFile, FallbackElapses, FallbackTick, RetryWakes,
     DeviceMoves, ConnectionEvent, PendingAges, TeleportSync, Running
<1>12. ~(ApplyDecision \/ RunCommand \/ SweepExpired \/ DecisionAges)
  BY DEF PlainInv, ApplyDecision, RunCommand, SweepExpired, DecisionAges
<1>13. ~(SlashCommand \/ ExpiryTick \/ \E d \in Device : PressButton(d))
  BY DEF SlashCommand, ExpiryTick, PressButton
<1> QED
  BY <1>2, <1>3, <1>4, <1>5, <1>6, <1>8, <1>9, <1>10, <1>11, <1>12, <1>13
  DEF Next, MainLoop, World

\* A restart at any point would load what the process knows, if devices are
\* remembered, the database answers and nobody allows for a time.
THEOREM MemoryAlwaysMatches ==
    ~Interactive /\ ~Faults /\ RememberNewDevices => (Spec => []MemoryMatchesTable)
<1> SUFFICES ASSUME ~Interactive, ~Faults, RememberNewDevices
             PROVE  Spec => []MemoryMatchesTable
  OBVIOUS
<1>1. Init => MemoryMatchesTable
  BY DEF Init, MemoryMatchesTable, Running
<1>2. TypeOK /\ PlainInv /\ [Next]_vars => PlainInv'
  BY StepPlainInv
<1>3. TypeOK /\ PlainInv /\ MemoryMatchesTable /\ [Next]_vars => MemoryMatchesTable'
  BY StepMatches
<1> QED
  BY <1>1, <1>2, <1>3, InitPlainInv, TypeCorrect, PTL DEF Spec

-----------------------------------------------------------------------------
\* A process that is not running knows nobody.
NothingKnownDown == Running \/ known = {}

\* Every step of a process that is down leaves it with an empty known set.
LEMMA StepNothingKnown ==
    ASSUME TypeOK, NothingKnownDown, [Next]_vars
    PROVE  NothingKnownDown'
<1>1. CASE Boot
  BY <1>1 DEF Boot, NothingKnownDown, Running
<1>2. CASE Crash \/ Shutdown
  BY <1>2 DEF Crash, Shutdown, LoseMemory, NothingKnownDown
<1>3. CASE HandleTeleport \/ (MainLoop /\ ~Shutdown)
  <2>1. CASE RecordDevice
    BY <2>1 DEF RecordDevice, TypeOK, LoopType, Alerts, Resume, NothingKnownDown, Running
  <2>2. CASE Poll
    <3>1. pc' \in {"record", "timeout", "backoff"}
      BY <2>2, Zenon DEF Poll, SendAlert, NextAttempt
    <3> QED
      BY <3>1 DEF NothingKnownDown, Running
  <2>3. CASE Scan
    <3>1. pc' \in {"record", "scan"}
      BY <2>3 DEF Scan, SendAlert
    <3> QED
      BY <3>1 DEF NothingKnownDown, Running
  <2>4. CASE HandleTeleport \/ ReceiveTrigger \/ DelayOver \/ Precheck \/ PrecheckFails
    BY <2>4 DEF HandleTeleport, ReceiveTrigger, DelayOver, Precheck, PrecheckFails,
       SendAlert, NothingKnownDown, Running
  <2>5. CASE PollFails \/ BackoffOver \/ BackoffCancelled \/ AlertTimeout
    BY <2>5 DEF PollFails, NextAttempt, BackoffOver, BackoffCancelled, AlertTimeout,
       SendAlert, NothingKnownDown, Running
  <2>6. CASE StartCheck \/ Fetch \/ FetchFails \/ ScanDone \/ Skip \/ After
    BY <2>6 DEF StartCheck, Fetch, FetchFails, ScanDone, Skip, After,
       NothingKnownDown, Running
  <2>7. CASE ApplyDecision \/ RunCommand \/ SweepExpired
    BY <2>7 DEF ApplyDecision, RunCommand, SweepExpired, NothingKnownDown, Running
  <2> QED
    BY <1>3, <2>1, <2>2, <2>3, <2>4, <2>5, <2>6, <2>7 DEF MainLoop
<1>4. CASE \/ Signal \/ EditFile \/ FallbackElapses \/ FallbackTick \/ RetryWakes
           \/ ExpiryTick \/ SlashCommand \/ DecisionAges \/ UNCHANGED vars
           \/ (\E e \in Device : \/ DeviceMoves(e) \/ ConnectionEvent(e)
                                \/ PressButton(e) \/ RowAges(e) \/ PendingAges(e))
           \/ (\E e \in Teleports : TeleportSync(e))
  BY <1>4 DEF Signal, EditFile, FallbackElapses, FallbackTick, RetryWakes, ExpiryTick,
     SlashCommand, DecisionAges, DeviceMoves, ConnectionEvent, PressButton, RowAges,
     PendingAges, TeleportSync, NothingKnownDown, Running
<1> QED
  BY <1>1, <1>2, <1>3, <1>4 DEF Next, World

\* Whom a step makes the process forget: the reaper, a device it has counted
\* absent before and does not see now.
LEMMA StepForgotten ==
    ASSUME ~Interactive, ~Faults, RememberNewDevices,
           TypeOK, PlainInv, MemoryMatchesTable, NothingKnownDown, [Next]_vars,
           NEW d \in known \ known', Running'
    PROVE  job.list[d] = "off" /\ rows[d].absence = "overdue"
<1>1. /\ rows \in [Device -> Row] /\ known \in SUBSET Device /\ Outcomes = {TRUE}
      /\ d \in Device /\ Running
      /\ known = seed \cup Current(rows) /\ \A e \in Device : Plain(rows[e])
  BY DEF TypeOK, StoreType, Outcomes, MemoryMatchesTable, LoadKnownMacs, PlainInv,
     NothingKnownDown
<1>2. CASE Skip \/ After
  <2>1. /\ rows' = RemoveOldMacs(rows, Listed(job.list))
        /\ known' = seed \cup Current(rows')
    BY <1>1, <1>2 DEF Skip, After, RemoveOldAndReload, LoadKnownMacs
  <2>2. d \in Current(rows) /\ d \notin Current(rows')
    BY <1>1, <2>1
  <2>3. rows[d].allow = "permanent"
        /\ rows'[d] = Reaped(rows[d], d \in Listed(job.list))
    BY <1>1, <2>1, <2>2 DEF Current, Plain, RemoveOldMacs
  <2>4. rows'[d].allow \notin {"permanent", "live"}
    <3>1. d \in DOMAIN rows'
      BY <1>1, <2>1 DEF RemoveOldMacs
    <3> QED
      BY <2>2, <3>1 DEF Current
  <2>5. d \notin Listed(job.list) /\ rows[d].absence = "overdue"
    BY <1>1, <2>3, <2>4 DEF Reaped, Row
  <2> QED
    BY <1>1, <2>5 DEF Listed
<1>3. CASE RecordDevice
  BY <1>3 DEF RecordDevice
<1>4. CASE Boot \/ Crash \/ Shutdown
  BY <1>1, <1>4 DEF Boot, Crash, Shutdown, Running
<1>5. CASE Poll
  BY <1>5, Zenon DEF Poll
<1>6. CASE \/ Signal \/ EditFile \/ FallbackElapses \/ FallbackTick \/ RetryWakes
           \/ UNCHANGED vars
           \/ (\E e \in Device : \/ DeviceMoves(e) \/ ConnectionEvent(e)
                                \/ RowAges(e) \/ PendingAges(e))
           \/ (\E e \in Teleports : TeleportSync(e))
  BY <1>6 DEF Signal, EditFile, FallbackElapses, FallbackTick, RetryWakes,
     DeviceMoves, ConnectionEvent, RowAges, PendingAges, TeleportSync
<1>7. CASE \/ HandleTeleport \/ ReceiveTrigger \/ DelayOver \/ Precheck \/ PrecheckFails
           \/ PollFails \/ BackoffOver \/ BackoffCancelled \/ AlertTimeout
           \/ StartCheck \/ Fetch \/ FetchFails \/ Scan \/ ScanDone
  BY <1>7
  DEF HandleTeleport, ReceiveTrigger, DelayOver, Precheck, PrecheckFails, PollFails,
      BackoffOver, BackoffCancelled, AlertTimeout, StartCheck, Fetch, FetchFails,
      Scan, ScanDone
<1>8. ~(ApplyDecision \/ RunCommand \/ SweepExpired \/ DecisionAges)
  BY DEF PlainInv, ApplyDecision, RunCommand, SweepExpired, DecisionAges
<1>9. ~(SlashCommand \/ ExpiryTick \/ \E e \in Device : PressButton(e))
  BY DEF SlashCommand, ExpiryTick, PressButton
<1> QED
  BY <1>2, <1>3, <1>4, <1>5, <1>6, <1>7, <1>8, <1>9 DEF Next, MainLoop, World

\* While devices are remembered and the database answers, a process forgets
\* a device only in a check that does not list it, and not in the first such
\* check: an earlier one has missed it longer than REMOVE_DELAY ago.
THEOREM OnlyTheAbsentForgotten ==
    ~Interactive /\ ~Faults /\ RememberNewDevices => (Spec => OnlyAbsentForgotten)
<1> SUFFICES ASSUME ~Interactive, ~Faults, RememberNewDevices
             PROVE  Spec => OnlyAbsentForgotten
  OBVIOUS
<1>1. Spec => []MemoryMatchesTable
  BY MemoryAlwaysMatches
<1>2. TypeOK /\ PlainInv /\ [Next]_vars => PlainInv'
  BY StepPlainInv
<1>3. TypeOK /\ NothingKnownDown /\ [Next]_vars => NothingKnownDown'
  BY StepNothingKnown
<1>4. Init => NothingKnownDown
  BY DEF Init, NothingKnownDown
<1>5. TypeOK /\ PlainInv /\ MemoryMatchesTable /\ NothingKnownDown /\ [Next]_vars =>
        [\A d \in known \ known' :
          \/ ~Running'
          \/ job.list[d] = "off" /\ rows[d].absence = "overdue"]_vars
  BY StepForgotten
<1> QED
  BY <1>1, <1>2, <1>3, <1>4, <1>5, InitPlainInv, TypeCorrect, PTL
  DEF Spec, OnlyAbsentForgotten

\* One step at a time, with the types alone.
LEMMA StepSeedLost ==
    ASSUME TypeOK, [Next]_vars, NEW d \in (known \cap loaded) \ known', Running',
           d \in loaded'
    PROVE  (RemoveOldDevices /\ d \notin seed) \/ rows[d].allow = "lapsed"
<1>1. StoreType
  BY DEF TypeOK
<1>2. CASE Skip \/ After
  <2>1. RemoveOldAndReload /\ RemoveOldDevices
    BY <1>2 DEF Skip, After
  <2>2. known' = seed \cup Current(rows')
    BY <1>1, <2>1, ReapAndReload
  <2> QED
    BY <2>1, <2>2
<1>3. CASE SweepExpired
  BY <1>3 DEF SweepExpired, Expired
<1>4. CASE RunCommand
  BY <1>4 DEF RunCommand, ExportMacs, ReloadKnownMacs, LoadKnownMacs
<1>5. CASE ApplyDecision \/ RecordDevice
  BY <1>5 DEF ApplyDecision, RecordDevice
<1>6. CASE Boot \/ Crash \/ Shutdown
  BY <1>6 DEF Boot, Crash, Shutdown, LoadKnownMacs, Running
<1>7. CASE Poll
  BY <1>7, Zenon DEF Poll
<1>8. CASE \/ Signal \/ EditFile \/ FallbackElapses \/ FallbackTick \/ RetryWakes
           \/ ExpiryTick \/ SlashCommand \/ DecisionAges \/ UNCHANGED vars
           \/ (\E e \in Device : \/ DeviceMoves(e) \/ ConnectionEvent(e)
                                \/ PressButton(e) \/ RowAges(e) \/ PendingAges(e))
           \/ (\E e \in Teleports : TeleportSync(e))
  BY <1>8 DEF Signal, EditFile, FallbackElapses, FallbackTick, RetryWakes, ExpiryTick,
     SlashCommand, DecisionAges, DeviceMoves, ConnectionEvent, PressButton, RowAges,
     PendingAges, TeleportSync
<1>9. CASE \/ HandleTeleport \/ ReceiveTrigger \/ DelayOver \/ Precheck \/ PrecheckFails
           \/ PollFails \/ BackoffOver \/ BackoffCancelled \/ AlertTimeout
           \/ StartCheck \/ Fetch \/ FetchFails \/ Scan \/ ScanDone
  BY <1>9
  DEF HandleTeleport, ReceiveTrigger, DelayOver, Precheck, PrecheckFails, PollFails,
      BackoffOver, BackoffCancelled, AlertTimeout, StartCheck, Fetch, FetchFails,
      Scan, ScanDone
<1> QED
  BY <1>2, <1>3, <1>4, <1>5, <1>6, <1>7, <1>8, <1>9 DEF Next, MainLoop, World

\* A listed device is given up by a reload, by a reap that goes back to an
\* older list, or when an allow for itself has lapsed, in every configuration.
THEOREM SeedLostOnlyForCause == Spec => SeedLostForCause
<1>1. TypeOK /\ [Next]_vars =>
        [\A d \in (known \cap loaded) \ known' :
          \/ ~Running' \/ d \notin loaded'
          \/ RemoveOldDevices /\ d \notin seed
          \/ rows[d].allow = "lapsed"]_vars
  BY StepSeedLost
<1> QED
  BY <1>1, TypeCorrect, PTL DEF Spec, SeedLostForCause

=============================================================================
