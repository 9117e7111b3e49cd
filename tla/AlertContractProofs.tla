------------------------- MODULE AlertContractProofs -------------------------
(***************************************************************************)
(* Every handler of the main loop is a step of AlertContract, for every    *)
(* set of devices, configuration, channel capacity and number of backoffs. *)
(***************************************************************************)
EXTENDS MonitorProofs

USE DEF vars, world, store, inputs, history, timers, process

\* Somebody the operator listed or allowed stands behind every load of the seed
\* and every decision in the queue.
VouchedInv ==
    /\ seed \subseteq approved
    /\ \A i \in 1 .. Len(decisions) : decisions[i].mac \in approved

\* Only an IP wait has collected devices, and it alerts them before it ends.
InWait == \/ pc \in {"poll", "backoff", "timeout"}
          \/ pc = "record" /\ alert.next \in {"backoff", "timeout"}

CollectedInv == job.noIP # {} => InWait

ContractInv == VouchedInv /\ CollectedInv

-----------------------------------------------------------------------------
(***************************************************************************)
(* One attempt of the IP wait, without its list: it alerts a device that   *)
(* is not known or nobody, and collects only devices that are not known.   *)
(***************************************************************************)
LEMMA PollEffect ==
    ASSUME TypeOK, Poll
    PROVE  /\ pc = "poll" /\ UNCHANGED <<known, rows, approved>>
           /\ job.noIP \subseteq job'.noIP /\ job'.noIP \subseteq Device
           /\ (job'.noIP \ job.noIP) \cap known = {}
           /\ \/ \E d \in Device : d \notin known /\ SendAlert(d, TRUE, "timeout")
              \/ pc' \in {"timeout", "backoff"} /\ UNCHANGED <<alert, notified>>
<1> DEFINE new    == {d \in Listed(Visible(net)) : IsNew(d)}
           withIP == {d \in new : Visible(net)[d] = "ip"}
           Goal   == /\ job.noIP \subseteq job'.noIP /\ job'.noIP \subseteq Device
                     /\ (job'.noIP \ job.noIP) \cap known = {}
                     /\ \/ \E d \in Device : d \notin known /\ SendAlert(d, TRUE, "timeout")
                        \/ /\ pc' \in {"timeout", "backoff"}
                           /\ UNCHANGED <<alert, notified>>
<1>1. pc = "poll" /\ UNCHANGED <<known, rows, approved>>
  BY Zenon DEF Poll
<1>2. new \subseteq Device /\ new \cap known = {} /\ job \in Jobs /\ job.noIP \subseteq Device
  BY DEF Listed, IsNew, TypeOK, LoopType, Jobs
<1>3. ASSUME NEW d \in withIP, NEW before \in SUBSET (new \ withIP),
             SendAlert(d, TRUE, "timeout"),
             job' = [job EXCEPT !.hit = TRUE, !.noIP = @ \cup before]
      PROVE  Goal
  <2>1. job'.noIP = job.noIP \cup before
    BY <1>2, <1>3 DEF Jobs
  <2>2. d \in Device /\ d \notin known
    BY <1>2
  <2> HIDE DEF new, withIP
  <2>3. before \subseteq new
    OBVIOUS
  <2> QED
    BY <1>2, <1>3, <2>1, <2>2, <2>3
<1>4. CASE NextAttempt(job.noIP \cup new) /\ UNCHANGED <<alert, notified>>
  <2> HIDE DEF new
  <2>1. pc' \in {"timeout", "backoff"} /\ job'.noIP = job.noIP \cup new
    BY <1>2, <1>4 DEF NextAttempt, Jobs
  <2>2. /\ job.noIP \subseteq job'.noIP /\ job'.noIP \subseteq Device
        /\ (job'.noIP \ job.noIP) \cap known = {}
    BY <1>2, <2>1
  <2> QED
    BY <1>1, <1>4, <2>1, <2>2
<1>5. Goal
  BY <1>3, <1>4, Zenon DEF Poll
<1> QED
  BY <1>1, <1>5

(***************************************************************************)
(* Collected devices never outlive their wait.                             *)
(***************************************************************************)
LEMMA StepCollected == TypeOK /\ CollectedInv /\ [Next]_vars => CollectedInv'
<1> SUFFICES ASSUME TypeOK, CollectedInv, [Next]_vars PROVE CollectedInv'
  OBVIOUS
<1>0. job \in Jobs /\ (pc = "record" => alert \in Alerts)
  BY DEF TypeOK, LoopType
<1>1. CASE RecordDevice
  <2>1. job' = job /\ pc = "record" /\ pc' = alert.next
    BY <1>1 DEF RecordDevice
  <2> QED
    BY <2>1 DEF CollectedInv, InWait
<1>2. CASE HandleTeleport
  <2>1. job' = job /\ pc \in {"select", "wsDelay", "backoff"}
    BY <1>2 DEF HandleTeleport
  <2>2. CASE pc' = pc
    BY <2>1, <2>2 DEF CollectedInv, InWait
  <2>3. CASE SendAlert(Head(teleportCh).dev, Head(teleportCh).ip, pc)
    <3>1. pc' = "record" /\ alert'.next = pc
      BY <2>3 DEF SendAlert
    <3> QED
      BY <2>1, <3>1 DEF CollectedInv, InWait
  <2> QED
    BY <1>2, <2>2, <2>3 DEF HandleTeleport
<1>3. CASE Poll
  <2>1. \/ pc' \in {"timeout", "backoff"}
        \/ pc' = "record" /\ alert'.next = "timeout"
    BY <1>3, PollEffect DEF SendAlert
  <2> QED
    BY <2>1 DEF CollectedInv, InWait
<1>4. CASE AlertTimeout
  <2>1. \/ pc' = "record" /\ alert'.next = "timeout"
        \/ job'.noIP = {}
    BY <1>0, <1>4 DEF AlertTimeout, SendAlert, Jobs
  <2> QED
    BY <2>1 DEF CollectedInv, InWait
<1>5. CASE PollFails \/ BackoffOver \/ BackoffCancelled
  BY <1>5 DEF PollFails, NextAttempt, BackoffOver, BackoffCancelled, CollectedInv, InWait
<1>6. CASE Scan
  <2>1. pc = "scan" /\ job'.noIP = job.noIP
    BY <1>0, <1>6 DEF Scan, Jobs
  <2> QED
    BY <2>1 DEF CollectedInv, InWait
<1>7. CASE \/ ReceiveTrigger \/ Skip \/ After \/ Crash \/ Shutdown
  BY <1>7 DEF ReceiveTrigger, Skip, After, Crash, Shutdown, LoseMemory, Idle, CollectedInv
<1>8. CASE \/ DelayOver \/ Precheck \/ PrecheckFails \/ StartCheck \/ Fetch \/ FetchFails
           \/ ScanDone \/ Boot
  <2>1. pc \notin {"poll", "backoff", "timeout", "record"} /\ job'.noIP = job.noIP
    BY <1>0, <1>8
    DEF DelayOver, Precheck, PrecheckFails, StartCheck, Fetch, FetchFails, ScanDone,
        Boot, Running, Jobs
  <2> QED
    BY <2>1 DEF CollectedInv, InWait
<1>9. CASE UNCHANGED <<pc, alert, job>>
  BY <1>9 DEF CollectedInv, InWait
<1>10. CASE ApplyDecision \/ RunCommand \/ SweepExpired
  BY <1>9, <1>10 DEF ApplyDecision, RunCommand, SweepExpired
<1>11. CASE \/ Signal \/ SlashCommand \/ EditFile \/ DecisionAges \/ FallbackElapses
            \/ FallbackTick \/ RetryWakes \/ ExpiryTick \/ UNCHANGED vars
            \/ (\E d \in Device : \/ DeviceMoves(d) \/ ConnectionEvent(d) \/ RowAges(d)
                                  \/ PressButton(d) \/ PendingAges(d))
            \/ (\E d \in Teleports : TeleportSync(d))
  BY <1>9, <1>11
  DEF Signal, SlashCommand, EditFile,
      DecisionAges, FallbackElapses, FallbackTick, RetryWakes, ExpiryTick, DeviceMoves,
      ConnectionEvent, RowAges, PressButton, PendingAges, TeleportSync
<1> QED
  BY <1>1, <1>2, <1>3, <1>4, <1>5, <1>6, <1>7, <1>8, <1>10, <1>11 DEF Next, MainLoop, World

(***************************************************************************)
(* Every load of the seed is approved with it, every decision with its     *)
(* button, and approvals are not taken back.                               *)
(***************************************************************************)
LEMMA StepVouched == TypeOK /\ VouchedInv /\ [Next]_vars => VouchedInv'
<1> SUFFICES ASSUME TypeOK, VouchedInv, [Next]_vars PROVE VouchedInv'
  OBVIOUS
<1>0. decisions \in Seq(Choices)
  BY DEF TypeOK, ChannelType
<1>1. CASE UNCHANGED <<seed, decisions>> /\ approved \subseteq approved'
  BY <1>1 DEF VouchedInv
<1>2. CASE Boot
  BY <1>2 DEF Boot, VouchedInv
<1>3. CASE Crash \/ Shutdown
  BY <1>3 DEF Crash, Shutdown, LoseMemory, VouchedInv
<1>4. CASE ApplyDecision
  <2>1. decisions' = Tail(decisions) /\ decisions # <<>> /\ UNCHANGED <<seed, approved>>
    BY <1>4 DEF ApplyDecision
  <2>2. ASSUME NEW i \in 1 .. Len(decisions')
        PROVE  decisions'[i] = decisions[i + 1] /\ i + 1 \in 1 .. Len(decisions)
    BY <1>0, <2>1
  <2> QED
    BY <2>1, <2>2 DEF VouchedInv
<1>5. ASSUME NEW d \in Device, PressButton(d) PROVE VouchedInv'
  <2>1. PICK until \in {"permanent", "live"} :
               decisions' = Append(decisions, [mac |-> d, until |-> until])
    BY <1>5 DEF PressButton
  <2>2. approved' = approved \cup {d} /\ seed' = seed
    BY <1>5 DEF PressButton
  <2>3. ASSUME NEW i \in 1 .. Len(decisions')
        PROVE  \/ i \in 1 .. Len(decisions) /\ decisions'[i] = decisions[i]
               \/ decisions'[i] = [mac |-> d, until |-> until]
    BY <1>0, <2>1
  <2> QED
    BY <2>2, <2>3 DEF VouchedInv
<1>6. CASE DecisionAges
  <2>1. PICK j \in 1 .. Len(decisions) :
               decisions' = [decisions EXCEPT ![j].until = "lapsed"]
    BY <1>6 DEF DecisionAges
  <2>2. ASSUME NEW i \in 1 .. Len(decisions)
        PROVE  decisions'[i].mac = decisions[i].mac
    <3>1. decisions[i] \in Choices
      BY <1>0
    <3> QED
      BY <1>0, <2>1, <3>1 DEF Choices
  <2>3. Len(decisions') = Len(decisions) /\ UNCHANGED <<seed, approved>>
    BY <1>0, <1>6, <2>1 DEF DecisionAges
  <2> QED
    BY <2>2, <2>3 DEF VouchedInv
<1>7. CASE RunCommand
  BY <1>1, <1>7 DEF RunCommand, ExportMacs, ReloadKnownMacs
<1>8. CASE \/ HandleTeleport \/ RecordDevice \/ ReceiveTrigger \/ DelayOver \/ Precheck
           \/ PrecheckFails \/ Poll \/ PollFails \/ BackoffOver \/ BackoffCancelled
           \/ AlertTimeout \/ StartCheck \/ Fetch \/ FetchFails \/ Scan \/ ScanDone
           \/ Skip \/ After \/ SweepExpired
  <2>1. UNCHANGED <<seed, decisions, approved>>
    BY <1>8, Zenon
    DEF HandleTeleport, RecordDevice, ReceiveTrigger, DelayOver, Precheck,
        PrecheckFails, Poll, PollFails, BackoffOver, BackoffCancelled, AlertTimeout,
        StartCheck, Fetch, FetchFails, Scan, ScanDone, Skip, After, SweepExpired
  <2> QED
    BY <1>1, <2>1
<1>9. CASE \/ Signal \/ SlashCommand \/ EditFile \/ FallbackElapses
           \/ FallbackTick \/ RetryWakes \/ ExpiryTick \/ UNCHANGED vars
           \/ (\E d \in Device : \/ DeviceMoves(d) \/ ConnectionEvent(d) \/ RowAges(d)
                                 \/ PendingAges(d))
           \/ (\E d \in Teleports : TeleportSync(d))
  BY <1>1, <1>9
  DEF Signal, SlashCommand, EditFile, FallbackElapses, FallbackTick, RetryWakes,
      ExpiryTick, DeviceMoves, ConnectionEvent, RowAges, PendingAges, TeleportSync
<1> QED
  BY <1>2, <1>3, <1>4, <1>5, <1>6, <1>7, <1>8, <1>9 DEF Next, MainLoop, World

(***************************************************************************)
(* Both together, step by step and at the start.                           *)
(***************************************************************************)
LEMMA StepContractInv == TypeOK /\ ContractInv /\ [Next]_vars => ContractInv'
BY StepCollected, StepVouched DEF ContractInv

\* Nothing is listed, queued or collected before the first start.
LEMMA InitContractInv == Init => ContractInv
BY DEF Init, Idle, ContractInv, VouchedInv, CollectedInv

-----------------------------------------------------------------------------
(***************************************************************************)
(* The refinement.  What the contract does not tell apart is a stutter: a  *)
(* step that changes no set of devices, nor begins or ends an alert or the *)
(* process.                                                                *)
(***************************************************************************)
Between == pc \notin {"record", "down", "stopped"}

LEMMA Stutters ==
    ASSUME UNCHANGED <<known, notified, approved>>, Stored(rows') = Stored(rows),
           job'.noIP = job.noIP,
           UNCHANGED <<pc, alert>> \/ (Between /\ Between')
    PROVE  UNCHANGED Contract!vars
BY DEF Contract!vars, Between, Running

\* A new alert, which may come with devices that a wait collects.
LEMMA AlertsNew ==
    ASSUME NEW d \in Device, NEW hasIP, NEW next, SendAlert(d, hasIP, next),
           d \notin known, Between, UNCHANGED <<known, rows, approved>>,
           job.noIP \subseteq job'.noIP, job'.noIP \subseteq Device,
           (job'.noIP \ job.noIP) \cap known = {}
    PROVE  Contract!Next
<1>1. Contract!Send(d)
  BY DEF Contract!Send, SendAlert, Between, Running
<1>2. Contract!AlertNew(d)
  BY <1>1 DEF Contract!AlertNew, Contract!Collects
<1> QED
  BY <1>2 DEF Contract!Next

\* At the select nothing waits to be recorded or alerted.
LEMMA SelectIsRest ==
    ASSUME CollectedInv, pc \in {"select", "wsDelay", "skip", "after"}
    PROVE  Contract!AtRest
BY DEF CollectedInv, InWait, Contract!AtRest, Running

(***************************************************************************)
(* The handlers that alert.                                                *)
(***************************************************************************)
LEMMA AlertsRefine ==
    ASSUME TypeOK, HandleTeleport \/ Poll \/ AlertTimeout \/ Scan
    PROVE  Contract!Next \/ UNCHANGED Contract!vars
<1>0. job \in Jobs /\ job.noIP \subseteq Device /\ job.todo \subseteq Device
  BY DEF TypeOK, LoopType, Jobs
<1>1. CASE HandleTeleport
  <2>1. /\ UNCHANGED <<known, rows, approved, job>>
        /\ pc \in {"select", "wsDelay", "backoff"}
        /\ \/ UNCHANGED <<pc, alert, notified>>
           \/ /\ Head(teleportCh).dev \notin known
              /\ SendAlert(Head(teleportCh).dev, Head(teleportCh).ip, pc)
    BY <1>1 DEF HandleTeleport
  <2>2. Head(teleportCh).dev \in Device
    <3>1. Head(teleportCh) \in Clients
      BY <1>1 DEF TypeOK, ChannelType, HandleTeleport
    <3> QED
      BY <3>1, ConfigAssumption DEF Clients
  <2>3. CASE UNCHANGED <<pc, alert, notified>>
    BY <2>1, <2>3, Stutters
  <2>4. CASE /\ Head(teleportCh).dev \notin known
             /\ SendAlert(Head(teleportCh).dev, Head(teleportCh).ip, pc)
    BY <1>0, <2>1, <2>2, <2>4, AlertsNew DEF Between
  <2> QED
    BY <2>1, <2>3, <2>4
<1>2. CASE Poll
  <2>1. CASE \E d \in Device : d \notin known /\ SendAlert(d, TRUE, "timeout")
    BY <1>2, <2>1, PollEffect, AlertsNew DEF Between
  <2>2. CASE pc' \in {"timeout", "backoff"} /\ UNCHANGED <<alert, notified>>
    <3>1. Contract!Collect
      BY <1>2, <2>2, PollEffect DEF Contract!Collect, Contract!Collects, Running
    <3> QED
      BY <3>1 DEF Contract!Next
  <2> QED
    BY <1>2, <2>1, <2>2, PollEffect
<1>3. CASE AlertTimeout
  <2>1. pc = "timeout" /\ UNCHANGED <<known, rows, approved>>
    BY <1>3 DEF AlertTimeout
  <2>2. ASSUME NEW d \in job.noIP, SendAlert(d, FALSE, "timeout"),
               job' = [job EXCEPT !.noIP = @ \ {d}]
        PROVE  Contract!Next
    <3>1. job'.noIP = job.noIP \ {d} /\ d \in Device
      BY <1>0, <2>2 DEF Jobs
    <3>2. Contract!Send(d)
      BY <2>1, <2>2 DEF Contract!Send, SendAlert, Running
    <3>3. Contract!AlertCollected(d)
      BY <2>2, <3>1, <3>2 DEF Contract!AlertCollected
    <3> QED
      BY <3>1, <3>3 DEF Contract!Next
  <2>3. CASE /\ pc' = "fetch" /\ job' = [job EXCEPT !.attempt = 0]
             /\ UNCHANGED <<alert, notified>>
    <3>1. job'.noIP = job.noIP
      BY <1>0, <2>3 DEF Jobs
    <3> QED
      BY <2>1, <2>3, <3>1, Stutters DEF Between
  <2> QED
    BY <1>3, <2>2, <2>3 DEF AlertTimeout
<1>4. CASE Scan
  <2>1. pc = "scan" /\ UNCHANGED <<known, rows, approved>>
    BY <1>4 DEF Scan
  <2>2. PICK d \in job.todo :
          /\ job'.noIP = job.noIP
          /\ \/ UNCHANGED <<pc, alert, notified>>
             \/ d \notin known /\ SendAlert(d, job.list[d] = "ip", "scan")
    BY <1>0, <1>4 DEF Scan, Jobs
  <2>3. CASE UNCHANGED <<pc, alert, notified>>
    BY <2>1, <2>2, <2>3, Stutters
  <2>4. CASE d \notin known /\ SendAlert(d, job.list[d] = "ip", "scan")
    BY <1>0, <2>1, <2>2, <2>4, AlertsNew DEF Between
  <2> QED
    BY <2>2, <2>3, <2>4
<1> QED
  BY <1>1, <1>2, <1>3, <1>4

(***************************************************************************)
(* The handlers that change what the process is silent about.              *)
(***************************************************************************)
LEMMA ChangesRefine ==
    ASSUME TypeOK, ContractInv,
           \/ RecordDevice \/ ApplyDecision \/ RunCommand \/ SweepExpired
           \/ Skip \/ After
    PROVE  Contract!Next \/ UNCHANGED Contract!vars
<1>0. /\ rows \in [Device -> Row] /\ StoreType /\ CollectedInv /\ VouchedInv
      /\ Current(rows) \subseteq Stored(rows)
  BY CurrentStored DEF TypeOK, StoreType, ContractInv
<1>1. CASE RecordDevice
  <2>1. /\ pc = "record" /\ pc' = alert.next /\ known' = known \cup {alert.dev}
        /\ UNCHANGED <<notified, approved, job>>
        /\ rows' = rows \/ rows' = UpdateKnownMacs(rows, alert.dev)
    BY <1>1 DEF RecordDevice
  <2>2. alert.dev \in Device /\ alert.next \in Resume
    BY <1>1 DEF TypeOK, LoopType, RecordDevice, Alerts
  <2>3. Stored(rows') \in {Stored(rows), Stored(rows) \cup {alert.dev}}
    BY <1>0, <2>1, <2>2, UpdateTable
  <2>4. Contract!Record
    BY <2>1, <2>2, <2>3 DEF Contract!Record, Running, Resume
  <2> QED
    BY <2>4 DEF Contract!Next
<1>2. CASE ApplyDecision
  <2> DEFINE e == Head(decisions)
  <2>1. /\ pc = "select" /\ UNCHANGED <<pc, alert, job, notified, approved>>
        /\ \/ UNCHANGED <<rows, known>>
           \/ rows' = AllowMac(rows, e.mac, e.until) /\ known' = known \cup {e.mac}
    BY <1>2 DEF ApplyDecision
  <2>2. e \in Choices /\ e = decisions[1] /\ 1 \in 1 .. Len(decisions)
    BY <1>2 DEF TypeOK, ChannelType, ApplyDecision
  <2>3. e.mac \in Device /\ e.until \in Allows \ {"none"} /\ e.mac \in approved
    BY <1>0, <2>2 DEF Choices, VouchedInv
  <2> HIDE DEF e
  <2>4. CASE UNCHANGED <<rows, known>>
    BY <2>1, <2>4, Stutters
  <2>5. CASE rows' = AllowMac(rows, e.mac, e.until) /\ known' = known \cup {e.mac}
    <3>1. Stored(rows') = Stored(rows) \cup {e.mac}
      BY <1>0, <2>3, <2>5, AllowTable
    <3>2. Contract!Allow(e.mac)
      BY <1>0, <2>1, <2>3, <2>5, <3>1, SelectIsRest DEF Contract!Allow, Running
    <3> QED
      BY <2>3, <3>2 DEF Contract!Next
  <2> QED
    BY <2>1, <2>4, <2>5
<1>3. CASE RunCommand
  <2>1. pc = "select" /\ UNCHANGED <<pc, alert, job, notified>>
    BY <1>3 DEF RunCommand
  <2>2. CASE UNCHANGED <<rows, known, approved>>
    BY <2>1, <2>2, Stutters
  <2>3. ASSUME NEW fresh \in BOOLEAN, ReloadKnownMacs(fresh)
        PROVE  Contract!Next
    <3>1. Stored(ClearAll(rows)) = {} /\ Current(ClearAll(rows)) = {}
      BY <1>0, ClearTable
    <3>2. /\ rows' = rows \/ rows' = ClearAll(rows)
          /\ \/ UNCHANGED <<known, approved>>
             \/ /\ known' = KnownMacsSeed \cup Current(rows')
                /\ approved' = approved \cup KnownMacsSeed
      BY <2>3 DEF ReloadKnownMacs, LoadKnownMacs
    <3>3. Stored(rows') \subseteq Stored(rows) /\ Current(rows') \subseteq Stored(rows')
      BY <1>0, <3>1, <3>2
    <3>4. Contract!Loads
      BY <3>2, <3>3 DEF Contract!Loads
    <3>5. Contract!Review
      BY <1>0, <2>1, <3>3, <3>4, SelectIsRest DEF Contract!Review, Running
    <3> QED
      BY <3>5 DEF Contract!Next
  <2> QED
    BY <1>3, <2>2, <2>3 DEF RunCommand, ExportMacs
<1>4. CASE SweepExpired
  <2>1. /\ pc = "select" /\ UNCHANGED <<pc, alert, job, notified, approved>>
        /\ \/ UNCHANGED <<rows, known>>
           \/ rows' = PurgeExpired(rows) /\ known' = known \ Expired(rows)
    BY <1>4 DEF SweepExpired
  <2>2. Stored(rows') \subseteq Stored(rows)
    BY <1>0, <2>1, PurgeTable
  <2>3. Contract!Loads
    BY <2>1 DEF Contract!Loads
  <2>4. Contract!Review
    BY <1>0, <2>1, <2>2, <2>3, SelectIsRest DEF Contract!Review, Running
  <2> QED
    BY <2>4 DEF Contract!Next
<1>5. CASE Skip \/ After
  <2>1. /\ pc \in {"skip", "after"} /\ pc' = "select" /\ job'.noIP = {}
        /\ UNCHANGED <<alert, notified, approved>>
        /\ RemoveOldAndReload \/ UNCHANGED <<rows, known>>
    BY <1>5 DEF Skip, After, Idle
  <2>2. job.noIP = {} /\ Contract!AtRest
    BY <1>0, <2>1, SelectIsRest DEF CollectedInv, InWait
  <2>3. /\ Stored(rows') \subseteq Stored(rows)
        /\ known' = known \/ known' = seed \cup Current(rows')
        /\ rows' \in [Device -> Row]
    BY <1>0, <2>1, ReapAndReload
  <2>4. Current(rows') \subseteq Stored(rows') /\ seed \subseteq approved
    BY <1>0, <2>3, CurrentStored DEF VouchedInv
  <2>5. Contract!Loads
    BY <2>1, <2>3, <2>4 DEF Contract!Loads
  <2>6. Contract!Review
    BY <2>1, <2>2, <2>3, <2>5 DEF Contract!Review, Running
  <2> QED
    BY <2>6 DEF Contract!Next
<1> QED
  BY <1>1, <1>2, <1>3, <1>4, <1>5
(***************************************************************************)
(* What begins and ends the process, the button, and the rest.             *)
(***************************************************************************)
LEMMA WorldRefines ==
    ASSUME TypeOK, ContractInv, World \/ Shutdown
    PROVE  Contract!Next \/ UNCHANGED Contract!vars
<1>0. rows \in [Device -> Row] /\ CollectedInv /\ Current(rows) \subseteq Stored(rows)
  BY CurrentStored DEF TypeOK, StoreType, ContractInv
<1>1. CASE Boot
  <2>1. /\ ~Running /\ pc' = "select" /\ approved' = approved \cup seed'
        /\ known' = seed' \cup Current(rows)
        /\ UNCHANGED <<rows, job, alert, notified>>
    BY <1>1 DEF Boot, LoadKnownMacs
  <2>2. Contract!Loads
    BY <1>0, <2>1 DEF Contract!Loads
  <2>3. Contract!Start
    BY <2>1, <2>2 DEF Contract!Start, Running
  <2> QED
    BY <2>3 DEF Contract!Next
<1>2. CASE Crash
  <2>1. Contract!Crash
    BY <1>2 DEF Crash, LoseMemory, Idle, Running, Contract!Crash
  <2> QED
    BY <2>1 DEF Contract!Next
<1>3. CASE Shutdown
  <2>1. /\ pc \in {"select", "wsDelay"} /\ pc' = "stopped" /\ known' = {}
        /\ job'.noIP = {} /\ UNCHANGED <<rows, notified, approved>>
    BY <1>3 DEF Shutdown, LoseMemory, Idle
  <2>2. job.noIP = {} /\ Contract!AtRest
    BY <1>0, <2>1, SelectIsRest DEF CollectedInv, InWait
  <2>3. Contract!Stop
    BY <2>1, <2>2 DEF Contract!Stop, Running
  <2> QED
    BY <2>3 DEF Contract!Next
<1>4. ASSUME NEW d \in Device, PressButton(d) PROVE Contract!Next
  <2>1. Contract!Vouch(d)
    BY <1>4 DEF PressButton, Contract!Vouch, Running
  <2> QED
    BY <2>1 DEF Contract!Next
<1>5. ASSUME NEW d \in Device, RowAges(d) PROVE UNCHANGED Contract!vars
  <2>1. PICK row \in Later(rows[d]) : rows' = [rows EXCEPT ![d] = row]
    BY <1>5 DEF RowAges
  <2>2. Stored(rows') = Stored(rows)
    BY <1>0, <2>1, LaterTable
  <2> QED
    BY <1>5, <2>2, Stutters DEF RowAges
<1>6. CASE UNCHANGED <<rows, known, notified, approved, pc, alert, job>>
  BY <1>6, Stutters
<1>7. CASE \/ Signal \/ SlashCommand \/ EditFile \/ DecisionAges \/ FallbackElapses
           \/ FallbackTick \/ RetryWakes \/ ExpiryTick
           \/ (\E d \in Device : DeviceMoves(d) \/ ConnectionEvent(d) \/ PendingAges(d))
           \/ (\E d \in Teleports : TeleportSync(d))
  BY <1>6, <1>7
  DEF Signal, SlashCommand, EditFile, DecisionAges, FallbackElapses, FallbackTick,
      RetryWakes, ExpiryTick, DeviceMoves, ConnectionEvent, PendingAges, TeleportSync
<1> QED
  BY <1>1, <1>2, <1>3, <1>4, <1>5, <1>7 DEF World

(***************************************************************************)
(* Every step of the program, and none, is a step of the contract or none. *)
(***************************************************************************)
LEMMA StepRefines ==
    TypeOK /\ ContractInv /\ [Next]_vars => [Contract!Next]_(Contract!vars)
<1> SUFFICES ASSUME TypeOK, ContractInv, [Next]_vars
             PROVE  Contract!Next \/ UNCHANGED Contract!vars
  OBVIOUS
<1>1. CASE HandleTeleport \/ Poll \/ AlertTimeout \/ Scan
  BY <1>1, AlertsRefine
<1>2. CASE \/ RecordDevice \/ ApplyDecision \/ RunCommand \/ SweepExpired
           \/ Skip \/ After
  BY <1>2, ChangesRefine
<1>3. CASE World \/ Shutdown
  BY <1>3, WorldRefines
<1>4. CASE \/ ReceiveTrigger \/ DelayOver \/ Precheck \/ PrecheckFails \/ PollFails
           \/ BackoffOver \/ BackoffCancelled \/ StartCheck \/ Fetch \/ FetchFails
           \/ ScanDone
  <2>1. job \in Jobs /\ CollectedInv
    BY DEF TypeOK, LoopType, ContractInv
  <2>2. UNCHANGED <<known, rows, notified, approved>> /\ Between /\ Between'
    BY <1>4
    DEF ReceiveTrigger, DelayOver, Precheck, PrecheckFails, PollFails, NextAttempt,
        BackoffOver, BackoffCancelled, StartCheck, Fetch, FetchFails, ScanDone, Between
  <2>3. job'.noIP = job.noIP
    <3>1. CASE ReceiveTrigger
      BY <2>1, <3>1 DEF ReceiveTrigger, Idle, CollectedInv, InWait
    <3> QED
      BY <1>4, <2>1, <3>1
      DEF DelayOver, Precheck, PrecheckFails, PollFails, NextAttempt, BackoffOver,
          BackoffCancelled, StartCheck, Fetch, FetchFails, ScanDone, Jobs
  <2> QED
    BY <2>2, <2>3, Stutters
<1>5. CASE UNCHANGED vars
  BY <1>5, Stutters
<1> QED
  BY <1>1, <1>2, <1>3, <1>4, <1>5 DEF Next, MainLoop

(***************************************************************************)
(* The main loop implements the contract, in every configuration and under *)
(* every failure and crash.                                                *)
(***************************************************************************)
THEOREM ContractImplemented == Spec => ImplementsContract
<1>1. Init => Contract!Init
  BY DEF Init, Contract!Init, Idle, EmptyTable, NoRow, Stored, Running
<1>2. Spec => []ContractInv
  <2>1. TypeOK /\ ContractInv /\ [Next]_vars => ContractInv'
    BY StepContractInv
  <2> QED
    BY <2>1, InitContractInv, TypeCorrect, PTL DEF Spec
<1>3. TypeOK /\ ContractInv /\ [Next]_vars => [Contract!Next]_(Contract!vars)
  BY StepRefines
<1> QED
  BY <1>1, <1>2, <1>3, TypeCorrect, PTL DEF Spec, ImplementsContract, Contract!Spec

-----------------------------------------------------------------------------
(***************************************************************************)
(* What the contract alone is good for.  Its steps silence a device only   *)
(* by the alert that is out or by the operator's word.                     *)
(***************************************************************************)
ContractAccounts ==
    /\ KnownIsAccounted
    /\ pc = "record" => alert.dev \in notified

(***************************************************************************)
(* Whatever keeps the contract is silent only about devices that somebody  *)
(* was alerted about or the operator has vouched for.                      *)
(***************************************************************************)
THEOREM ContractSuffices == ImplementsContract => []KnownIsAccounted
<1>1. Contract!Init => ContractAccounts
  BY DEF Contract!Init, ContractAccounts, KnownIsAccounted
<1>2. ContractAccounts /\ [Contract!Next]_(Contract!vars) => ContractAccounts'
  <2> SUFFICES ASSUME ContractAccounts, Contract!Next \/ UNCHANGED Contract!vars
               PROVE  ContractAccounts'
    BY DEF Contract!vars
  <2> USE DEF ContractAccounts, KnownIsAccounted
  <2>1. ASSUME NEW d \in Device,
               Contract!AlertNew(d) \/ Contract!AlertCollected(d)
        PROVE  ContractAccounts'
    BY <2>1 DEF Contract!AlertNew, Contract!AlertCollected, Contract!Send
  <2>2. ASSUME NEW d \in Device, Contract!Vouch(d) \/ Contract!Allow(d)
        PROVE  ContractAccounts'
    BY <2>2 DEF Contract!Vouch, Contract!Allow, Contract!AtRest
  <2>3. CASE Contract!Record
    BY <2>3 DEF Contract!Record
  <2>4. CASE Contract!Review \/ Contract!Start
    BY <2>4 DEF Contract!Review, Contract!Start, Contract!Loads, Contract!AtRest
  <2>5. CASE Contract!Collect \/ Contract!Stop \/ Contract!Crash
    BY <2>5 DEF Contract!Collect, Contract!Stop, Contract!Crash, Contract!AtRest
  <2>6. CASE UNCHANGED Contract!vars
    BY <2>6 DEF Contract!vars
  <2> QED
    BY <2>1, <2>2, <2>3, <2>4, <2>5, <2>6 DEF Contract!Next
<1>3. ContractAccounts => KnownIsAccounted
  BY DEF ContractAccounts
<1> QED
  BY <1>1, <1>2, <1>3, PTL DEF ImplementsContract, Contract!Spec
=============================================================================
