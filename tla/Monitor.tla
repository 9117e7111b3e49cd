------------------------------ MODULE Monitor ------------------------------
(***************************************************************************)
(* The main loop of cmd/unificlientalerts: one goroutine that owns the     *)
(* known set, the pending set and the database, and is fed by channels     *)
(* from the UniFi event stream, the Slack listener, timers and signals.    *)
(*                                                                         *)
(* A step ends wherever the goroutine can be overtaken: at each blocking   *)
(* select, after each API fetch, after each alert (which may sleep for     *)
(* minutes on a rate limit) and after each client of a scan.  Everything   *)
(* between two such points only touches variables the goroutine owns.      *)
(*                                                                         *)
(* Wall-clock time appears as the phases it moves things through: see      *)
(* KnownMacsTable for rows, `pending' for held devices and `ticker' for    *)
(* the fallback poll.                                                      *)
(*                                                                         *)
(* A definition headed "Mistake:" is no part of Spec: it is a plausible    *)
(* wrong variant of the one below it, and shows a property can fail.       *)
(***************************************************************************)
EXTENDS Naturals, Sequences, FiniteSets, KnownMacsTable

CONSTANTS
    Device,             \* identifiers: MAC addresses and Teleport IDs
    Teleports,          \* the identifiers that are Teleport IDs
    EnvKnown,           \* KNOWN_MACS
    SeedFiles,          \* the contents KNOWN_MACS_FILE may be edited to
    RememberNewDevices, RequireIP, AlwaysNotify, RemoveOldDevices,
    FallbackEnabled,    \* FALLBACK_INTERVAL > 0
    WSEventDelay,       \* WS_EVENT_DELAY > 0
    Interactive,        \* NOTIFICATION_SERVICE = SlackInteractive
    ExportToSeed,       \* MACS_EXPORT_FILE and KNOWN_MACS_FILE are one path
    Faults,             \* database and file operations may fail
    Backoffs,           \* retries of the IP wait (4 in the code)
    TeleportCap, DecisionsCap, CommandsCap,   \* 8, 8 and 4 in the code
    MaxSleepers,        \* bound: retry goroutines asleep at once
    MaxBoots,           \* bound: process starts in one behaviour
    NoAlert             \* no alert is waiting to be recorded

ASSUME ConfigAssumption ==
    /\ Teleports \subseteq Device
    /\ EnvKnown \subseteq Device
    /\ SeedFiles \subseteq SUBSET Device /\ SeedFiles # {}
    /\ {RememberNewDevices, RequireIP, AlwaysNotify, RemoveOldDevices,
        FallbackEnabled, WSEventDelay, Interactive, ExportToSeed, Faults}
           \subseteq BOOLEAN

ASSUME BoundsAssumption ==
    /\ Backoffs \in Nat /\ MaxSleepers \in Nat /\ MaxBoots \in Nat
    /\ TeleportCap \in Nat /\ DecisionsCap \in Nat /\ CommandsCap \in Nat

VARIABLES
    net,         \* what each device is doing on the network
    file,        \* what loadMacsFromFile would read now
    rows,        \* the known_macs table; survives a crash
    known,       \* knownMacs
    pending,     \* pendingMacs, with the age of each entry
    seed,        \* cfg.KnownMacs, computed once by config.Load
    pc,          \* where the main goroutine is
    alert,       \* the alert sent and not yet recorded
    job,         \* the locals of one iteration of the loop
    sig,         \* the one-slot channels
    ticker,      \* the fallback ticker and its channel
    sleepers,    \* retry goroutines still in their 5 s sleep
    teleportCh, decisions, commands,
    ctx,         \* the context is cancelled
    boots,       \* process starts so far
    loaded,      \* history: the seed the known set was last built from
    notified,    \* history: devices alerted about
    approved     \* history: devices listed by the operator or allowed in Slack

world   == <<net, file>>
store   == <<rows, known, pending>>
inputs  == <<teleportCh, decisions, commands>>
history == <<loaded, notified, approved>>
timers  == <<sig, ticker, sleepers>>
process == <<seed, ctx, boots>>
vars == <<world, store, inputs, history, timers, process, pc, alert, job>>

-----------------------------------------------------------------------------
Links == {"off", "joining", "noip", "ip"}

\* What ListClients returns: a device still joining is not in the list yet.
Visible(links) ==
    [d \in Device |-> IF links[d] = "joining" THEN "off" ELSE links[d]]

Listed(list) == {d \in Device : list[d] # "off"}

NoClients == [d \in Device |-> "off"]

Idle == [ws |-> FALSE, hit |-> FALSE, fetched |-> FALSE, attempt |-> 0,
         list |-> NoClients, todo |-> {}, noIP |-> {}]

Resume == {"select", "wsDelay", "backoff", "timeout", "scan"}
PCs    == Resume \cup {"precheck", "poll", "fetch", "skip", "after",
                       "record", "stopped", "down"}

Alerts == [dev : Device, ip : BOOLEAN, next : Resume]
Jobs   == [ws : BOOLEAN, hit : BOOLEAN, fetched : BOOLEAN,
           attempt : 0 .. Backoffs, list : [Device -> Links],
           todo : SUBSET Device, noIP : SUBSET Device]

Signals  == {"trigger", "retry", "recheck", "expiry"}
NoSignal == [s \in Signals |-> FALSE]
Tickers  == {"off", "reset", "running", "due"}
Clients  == [dev : Teleports, ip : BOOLEAN]
Choices  == [mac : Device, until : Allows \ {"none"}]
Orders   == {"export", "reload", "fresh", "unknown"}

Running == pc \notin {"down", "stopped"}

\* A fallible operation's outcomes.
Outcomes == IF Faults THEN BOOLEAN ELSE {TRUE}

IsNew(d) == d \notin known /\ pending[d] = "no"

KnownMacsSeed == EnvKnown \cup file

FreshTicker == IF FallbackEnabled THEN "reset" ELSE "off"

-----------------------------------------------------------------------------
(***************************************************************************)
(* The process.                                                            *)
(***************************************************************************)
Init ==
    /\ net = [d \in Device |-> "off"] /\ file \in SeedFiles
    /\ rows = EmptyTable(Device) /\ known = {}
    /\ pending = [d \in Device |-> "no"]
    /\ seed = {} /\ pc = "down" /\ alert = NoAlert /\ job = Idle
    /\ sig = NoSignal /\ ticker = "off" /\ sleepers = 0
    /\ teleportCh = <<>> /\ decisions = <<>> /\ commands = <<>>
    /\ ctx = FALSE /\ boots = 0
    /\ loaded = {} /\ notified = {} /\ approved = {}

\* Configuration, database and known set are loaded and one trigger queued.
Boot ==
    /\ ~Running /\ boots < MaxBoots
    /\ boots' = boots + 1
    /\ seed' = KnownMacsSeed /\ loaded' = seed'
    /\ approved' = approved \cup seed'
    /\ known' = LoadKnownMacs(rows, seed')
    /\ sig' = [NoSignal EXCEPT !["trigger"] = TRUE]
    /\ ticker' = FreshTicker
    /\ pc' = "select"
    /\ UNCHANGED <<world, rows, pending, alert, job, sleepers, inputs, ctx,
                   notified>>

\* Memory and channels are gone; the table and the file stay.
LoseMemory ==
    /\ known' = {} /\ pending' = [d \in Device |-> "no"] /\ seed' = {}
    /\ alert' = NoAlert /\ job' = Idle
    /\ sig' = NoSignal /\ ticker' = "off" /\ sleepers' = 0
    /\ teleportCh' = <<>> /\ decisions' = <<>> /\ commands' = <<>>
    /\ ctx' = FALSE /\ loaded' = {}
    /\ UNCHANGED <<world, rows, boots, notified, approved>>

Crash ==
    /\ Running /\ boots < MaxBoots
    /\ pc' = "down" /\ LoseMemory

Signal ==
    /\ Running /\ ~ctx /\ ctx' = TRUE
    /\ UNCHANGED <<world, store, inputs, history, timers, seed, boots, pc,
                   alert, job>>

\* Mistake: the main select does not watch ctx.Done.
ShutdownOnlyInDelay ==
    /\ pc = "wsDelay" /\ ctx
    /\ pc' = "stopped" /\ LoseMemory

\* Both selects that watch ctx.Done outside the IP wait jump to shutdown.
Shutdown ==
    /\ pc \in {"select", "wsDelay"} /\ ctx
    /\ pc' = "stopped" /\ LoseMemory

-----------------------------------------------------------------------------
(***************************************************************************)
(* Alerts.  sendAlert's error is only logged, so the device is recorded    *)
(* whether or not the alert was delivered.                                 *)
(***************************************************************************)
\* Mistake: the device is recorded first and the alert left for later.
RecordBeforeAlert(d, hasIP, next) ==
    /\ alert' = [dev |-> d, ip |-> hasIP, next |-> next]
    /\ pc' = "record" /\ UNCHANGED notified

SendAlert(d, hasIP, next) ==
    /\ alert' = [dev |-> d, ip |-> hasIP, next |-> next]
    /\ notified' = notified \cup {d}
    /\ pc' = "record"

\* Mistake: the device is recorded in memory only.
RecordInMemory ==
    /\ pc = "record"
    /\ known' = known \cup {alert.dev}
    /\ pc' = alert.next /\ alert' = NoAlert
    /\ UNCHANGED <<world, rows, pending, inputs, history, timers, process, job>>

RecordDevice ==
    /\ pc = "record"
    /\ \E ok \in Outcomes :
         rows' = IF RememberNewDevices /\ ok
                 THEN UpdateKnownMacs(rows, alert.dev) ELSE rows
    /\ known' = known \cup {alert.dev}
    /\ pc' = alert.next /\ alert' = NoAlert
    /\ UNCHANGED <<world, pending, inputs, history, timers, process, job>>

\* Mistake: handleTeleport does not look whether the client is known.
HandleTeleportUnchecked ==
    /\ pc \in {"select", "wsDelay", "backoff"}
    /\ teleportCh # <<>> /\ teleportCh' = Tail(teleportCh)
    /\ SendAlert(Head(teleportCh).dev, Head(teleportCh).ip, pc)
    /\ UNCHANGED <<world, store, decisions, commands, loaded, approved, timers,
                   process, job>>

\* handleTeleport asks neither for an IP nor for the pending set.
HandleTeleport ==
    /\ pc \in {"select", "wsDelay", "backoff"}
    /\ teleportCh # <<>>
    /\ teleportCh' = Tail(teleportCh)
    /\ LET client == Head(teleportCh) IN
         \/ client.dev \in known /\ UNCHANGED <<pc, alert, notified>>
         \/ client.dev \notin known /\ SendAlert(client.dev, client.ip, pc)
    /\ UNCHANGED <<world, store, decisions, commands, loaded, approved, timers,
                   process, job>>

-----------------------------------------------------------------------------
(***************************************************************************)
(* The WebSocket path: delay, pre-check, IP wait, timeouts.                *)
(***************************************************************************)
ReceiveTrigger ==
    /\ pc = "select" /\ sig["trigger"]
    /\ sig' = [sig EXCEPT !["trigger"] = FALSE]
    /\ pc' = IF WSEventDelay THEN "wsDelay" ELSE "precheck"
    /\ job' = [Idle EXCEPT !.ws = TRUE]
    /\ UNCHANGED <<world, store, inputs, history, ticker, sleepers, process,
                   alert>>

\* The delay ends on its timer, or early on another event, which it consumes.
DelayOver ==
    /\ pc = "wsDelay" /\ pc' = "precheck"
    /\ \/ UNCHANGED sig
       \/ sig["trigger"] /\ sig' = [sig EXCEPT !["trigger"] = FALSE]
    /\ UNCHANGED <<world, store, inputs, history, ticker, sleepers, process,
                   alert, job>>

Precheck ==
    /\ pc = "precheck"
    /\ LET clients == Visible(net) IN
         /\ pc' = IF \E d \in Listed(clients) : IsNew(d)
                  THEN "poll" ELSE "skip"
         /\ job' = [job EXCEPT !.list = IF pc' = "skip" THEN clients ELSE @]
    /\ UNCHANGED <<world, store, inputs, history, timers, process, alert>>

PrecheckFails ==
    /\ pc = "precheck" /\ pc' = "poll"
    /\ UNCHANGED <<world, store, inputs, history, timers, process, alert, job>>

\* Mistake: the wait backs off once more than it has delays for.
NextAttemptLate(noIP) ==
    IF job.attempt > Backoffs
    THEN /\ pc' = "timeout" /\ job' = [job EXCEPT !.noIP = noIP]
    ELSE /\ pc' = "backoff"
         /\ job' = [job EXCEPT !.noIP = noIP, !.attempt = @ + 1]

\* The attempt found nobody to alert: back off, or give up after the last.
NextAttempt(noIP) ==
    IF job.attempt = Backoffs
    THEN /\ pc' = "timeout" /\ job' = [job EXCEPT !.noIP = noIP]
    ELSE /\ pc' = "backoff"
         /\ job' = [job EXCEPT !.noIP = noIP, !.attempt = @ + 1]

(***************************************************************************)
(* One attempt of waitForDeviceIP.  The list has no promised order: the    *)
(* first new client with an IP may stand after any of those without, and   *)
(* only these have then been collected.                                    *)
(***************************************************************************)
Poll ==
    /\ pc = "poll"
    /\ LET clients == Visible(net)
           new     == {d \in Listed(clients) : IsNew(d)}
           withIP  == {d \in new : clients[d] = "ip"}
       IN \/ \E d \in withIP, before \in SUBSET (new \ withIP) :
               /\ SendAlert(d, TRUE, "timeout")
               /\ job' = [job EXCEPT !.hit = TRUE, !.noIP = @ \cup before]
          \/ /\ withIP = {}
             /\ NextAttempt(job.noIP \cup new)
             /\ UNCHANGED <<alert, notified>>
    /\ UNCHANGED <<world, store, inputs, loaded, approved, timers, process>>

PollFails ==
    /\ pc = "poll" /\ NextAttempt(job.noIP)
    /\ UNCHANGED <<world, store, inputs, history, timers, process, alert>>

BackoffOver ==
    /\ pc = "backoff" /\ pc' = "poll"
    /\ \/ UNCHANGED sig
       \/ sig["trigger"] /\ sig' = [sig EXCEPT !["trigger"] = FALSE]
    /\ UNCHANGED <<world, store, inputs, history, ticker, sleepers, process,
                   alert, job>>

\* Mistake: a cancelled wait leaves main and with it the devices it collected.
BackoffCancelledQuits ==
    /\ pc = "backoff" /\ ctx
    /\ pc' = "stopped" /\ LoseMemory

\* A cancelled wait still returns the devices collected so far.
BackoffCancelled ==
    /\ pc = "backoff" /\ ctx
    /\ pc' = "timeout"
    /\ UNCHANGED <<world, store, inputs, history, timers, process, alert, job>>

\* Every collected device is alerted as it was seen, whatever happened since.
AlertTimeout ==
    /\ pc = "timeout"
    /\ \/ \E d \in job.noIP :
            /\ SendAlert(d, FALSE, "timeout")
            /\ job' = [job EXCEPT !.noIP = @ \ {d}]
       \/ /\ job.noIP = {} /\ pc' = "fetch"
          /\ job' = [job EXCEPT !.attempt = 0]
          /\ UNCHANGED <<alert, notified>>
    /\ UNCHANGED <<world, store, inputs, loaded, approved, timers, process>>

-----------------------------------------------------------------------------
(***************************************************************************)
(* The check: fetch, scan, and what follows a scan.                        *)
(***************************************************************************)
\* Mistake: the fallback is a one-shot timer that nothing arms again.
StartCheckOnce ==
    /\ pc = "select" /\ pc' = "fetch"
    /\ ticker = "due" /\ ticker' = "off"
    /\ UNCHANGED <<world, store, inputs, history, sig, sleepers, process, alert,
                   job>>

\* A check that no WebSocket event started: fallback tick, retry or reload.
StartCheck ==
    /\ pc = "select" /\ pc' = "fetch"
    /\ \/ /\ \E s \in {"retry", "recheck"} :
               sig[s] /\ sig' = [sig EXCEPT ![s] = FALSE]
          /\ UNCHANGED ticker
       \/ /\ ticker = "due" /\ ticker' = "reset"
          /\ UNCHANGED sig
    /\ UNCHANGED <<world, store, inputs, history, sleepers, process, alert, job>>

Fetch ==
    /\ pc = "fetch" /\ pc' = "scan"
    /\ LET clients == Visible(net) IN
         job' = [job EXCEPT !.fetched = TRUE, !.list = clients,
                            !.todo = Listed(clients)]
    /\ UNCHANGED <<world, store, inputs, history, timers, process, alert>>

\* Only Login follows, and the check is over with a nil client list.
FetchFails ==
    /\ pc = "fetch" /\ pc' = "after"
    /\ UNCHANGED <<world, store, inputs, history, timers, process, alert, job>>

\* Mistake: a held device seen again without an IP is held no more.
ScanForgetsHeld ==
    /\ pc = "scan"
    /\ \E d \in job.todo :
         LET hasIP == job.list[d] = "ip"
             held  == IsNew(d) /\ RequireIP /\ ~hasIP
             waits == pending[d] # "no" /\ ~hasIP
             quiet == d \in known \/ held \/ waits
         IN /\ job' = [job EXCEPT !.todo = @ \ {d}, !.hit = @ \/ ~quiet]
            /\ pending' = [pending EXCEPT ![d] = IF held THEN "fresh" ELSE "no"]
            /\ \/ quiet /\ UNCHANGED <<pc, alert, notified>>
               \/ ~quiet /\ SendAlert(d, hasIP, "scan")
    /\ UNCHANGED <<world, rows, known, inputs, loaded, approved, timers, process>>

(***************************************************************************)
(* One client of runCheck's loop, under its three early `continue's.       *)
(* Past them isNew always holds, so AlwaysNotify decides nothing.          *)
(***************************************************************************)
Scan ==
    /\ pc = "scan"
    /\ \E d \in job.todo :
         LET hasIP == job.list[d] = "ip"
             held  == IsNew(d) /\ RequireIP /\ ~hasIP
             waits == pending[d] # "no" /\ ~hasIP
             quiet == d \in known \/ held \/ waits
         IN /\ job' = [job EXCEPT !.todo = @ \ {d}, !.hit = @ \/ ~quiet]
            /\ pending' = [pending EXCEPT
                             ![d] = CASE held   -> "fresh"
                                      [] ~quiet -> "no"
                                      [] OTHER  -> @]
            /\ \/ quiet /\ UNCHANGED <<pc, alert, notified>>
               \/ ~quiet /\ SendAlert(d, hasIP, "scan")
    /\ UNCHANGED <<world, rows, known, inputs, loaded, approved, timers, process>>

\* Mistake: the loop breaks after the first new device, as the IP wait does.
ScanStopsEarly ==
    /\ pc = "scan" /\ (job.hit \/ job.todo = {}) /\ pc' = "after"
    /\ UNCHANGED <<world, store, inputs, history, timers, process, alert, job>>

ScanDone ==
    /\ pc = "scan" /\ job.todo = {} /\ pc' = "after"
    /\ UNCHANGED <<world, store, inputs, history, timers, process, alert, job>>

\* The drained trigger may stand for an event later than the last fetch.
ResetFallback ==
    IF FallbackEnabled
    THEN sig' = [sig EXCEPT !["trigger"] = FALSE] /\ ticker' = "reset"
    ELSE UNCHANGED <<sig, ticker>>

\* Mistake: the known set is rebuilt from the table alone.
RemoveOldDropsSeed ==
    \E removed, reloaded \in Outcomes :
      /\ rows' = IF removed THEN RemoveOldMacs(rows, Listed(job.list)) ELSE rows
      /\ known' = IF reloaded THEN Current(rows') ELSE known

\* The reload uses cfg.KnownMacs: the file as it was when the process began.
RemoveOldAndReload ==
    \E removed, reloaded \in Outcomes :
      /\ rows' = IF removed THEN RemoveOldMacs(rows, Listed(job.list)) ELSE rows
      /\ known' = IF reloaded THEN LoadKnownMacs(rows', seed) ELSE known

CleanExpiredPending ==
    pending' = [d \in Device |-> IF pending[d] = "stale" THEN "no" ELSE pending[d]]

\* The pre-check saw nobody new.  The reaper runs unless the list is empty.
Skip ==
    /\ pc = "skip" /\ pc' = "select" /\ job' = Idle
    /\ ResetFallback
    /\ IF RemoveOldDevices /\ Listed(job.list) # {}
       THEN RemoveOldAndReload ELSE UNCHANGED <<rows, known>>
    /\ CleanExpiredPending
    /\ UNCHANGED <<world, inputs, history, sleepers, process, alert>>

\* A WebSocket check that found nothing leaves a goroutine to retry once.
After ==
    /\ pc = "after" /\ pc' = "select" /\ job' = Idle
    /\ sleepers' = IF job.ws /\ ~job.hit /\ job.fetched /\ sleepers < MaxSleepers
                   THEN sleepers + 1 ELSE sleepers
    /\ IF job.ws THEN ResetFallback ELSE UNCHANGED <<sig, ticker>>
    /\ IF RemoveOldDevices /\ job.fetched
       THEN RemoveOldAndReload ELSE UNCHANGED <<rows, known>>
    /\ CleanExpiredPending
    /\ UNCHANGED <<world, inputs, history, process, alert>>

-----------------------------------------------------------------------------
(***************************************************************************)
(* Slack decisions, slash commands and the expiry sweep.                   *)
(***************************************************************************)
\* Mistake: the decision is stored but not applied to the known set.
ApplyDecisionToTable ==
    /\ pc = "select" /\ decisions # <<>>
    /\ decisions' = Tail(decisions)
    /\ LET d == Head(decisions) IN rows' = AllowMac(rows, d.mac, d.until)
    /\ UNCHANGED <<world, known, pending, teleportCh, commands, history, timers,
                   process, pc, alert, job>>

ApplyDecision ==
    /\ pc = "select" /\ decisions # <<>>
    /\ decisions' = Tail(decisions)
    /\ LET d == Head(decisions) IN
         \E ok \in Outcomes :
           IF ok THEN /\ rows' = AllowMac(rows, d.mac, d.until)
                      /\ known' = known \cup {d.mac}
                 ELSE UNCHANGED <<rows, known>>
    /\ UNCHANGED <<world, pending, teleportCh, commands, history, timers,
                   process, pc, alert, job>>

\* WriteMacsFile: Teleport IDs are written, but the MAC pattern skips them
\* when the file is read again.
ExportMacs ==
    /\ \E ok \in Outcomes :
         file' = IF ok /\ ExportToSeed THEN PermanentMacs(rows) \ Teleports
                 ELSE file
    /\ UNCHANGED <<rows, known, loaded, approved, sig>>

\* Mistake: a plain reload reads the file alone, as a fresh one may.
ReloadFileOnly(fresh) ==
    /\ UNCHANGED file
    /\ rows' = IF fresh THEN ClearAll(rows) ELSE rows
    /\ known' = KnownMacsSeed /\ loaded' = KnownMacsSeed
    /\ approved' = approved \cup KnownMacsSeed
    /\ sig' = [sig EXCEPT !["recheck"] = TRUE]

\* A failed load leaves the table cleared and the known set as it was.
ReloadKnownMacs(fresh) ==
    /\ UNCHANGED file
    /\ \E cleared, reloaded \in Outcomes :
         /\ rows' = IF fresh /\ cleared THEN ClearAll(rows) ELSE rows
         /\ IF (fresh => cleared) /\ reloaded
            THEN /\ known' = LoadKnownMacs(rows', KnownMacsSeed)
                 /\ loaded' = KnownMacsSeed
                 /\ approved' = approved \cup KnownMacsSeed
                 /\ sig' = [sig EXCEPT !["recheck"] = TRUE]
            ELSE UNCHANGED <<known, loaded, approved, sig>>

RunCommand ==
    /\ pc = "select" /\ commands # <<>>
    /\ commands' = Tail(commands)
    /\ LET order == Head(commands) IN
         \/ order = "export" /\ ExportMacs
         \/ order \in {"reload", "fresh"} /\ ReloadKnownMacs(order = "fresh")
         \/ order = "unknown" /\ UNCHANGED <<file, rows, known, loaded, approved, sig>>
    /\ UNCHANGED <<net, pending, teleportCh, decisions, notified, ticker,
                   sleepers, process, pc, alert, job>>

\* Mistake: the sweep purges the table and forgets the known set.
SweepTableOnly ==
    /\ pc = "select" /\ sig["expiry"]
    /\ sig' = [sig EXCEPT !["expiry"] = FALSE]
    /\ rows' = PurgeExpired(rows)
    /\ UNCHANGED <<world, known, pending, inputs, history, ticker, sleepers,
                   process, pc, alert, job>>

\* Mistake: the sweep rebuilds the known set from what is left in the table.
SweepRebuilds ==
    /\ pc = "select" /\ sig["expiry"]
    /\ sig' = [sig EXCEPT !["expiry"] = FALSE]
    /\ rows' = PurgeExpired(rows) /\ known' = Current(rows')
    /\ UNCHANGED <<world, pending, inputs, history, ticker, sleepers, process,
                   pc, alert, job>>

\* Whatever PurgeExpired returned leaves the known set, seeded or not.
SweepExpired ==
    /\ pc = "select" /\ sig["expiry"]
    /\ sig' = [sig EXCEPT !["expiry"] = FALSE]
    /\ \E ok \in Outcomes :
         IF ok THEN rows' = PurgeExpired(rows) /\ known' = known \ Expired(rows)
               ELSE UNCHANGED <<rows, known>>
    /\ UNCHANGED <<world, pending, inputs, history, ticker, sleepers, process,
                   pc, alert, job>>

-----------------------------------------------------------------------------
(***************************************************************************)
(* The other goroutines and the world, as far as the loop sees them.       *)
(***************************************************************************)
\* A device joins, is registered, gets its address, and may leave at any time.
NextLinks(link) ==
    CASE link = "off"     -> {"joining", "noip", "ip"}
      [] link = "joining" -> {"noip", "ip", "off"}
      [] link = "noip"    -> {"ip", "off"}
      [] link = "ip"      -> {"off"}

DeviceMoves(d) ==
    /\ \E link \in NextLinks(net[d]) : net' = [net EXCEPT ![d] = link]
    /\ UNCHANGED <<file, store, inputs, history, timers, process, pc, alert, job>>

\* onEvent never blocks: a queued trigger already stands for this event.
ConnectionEvent(d) ==
    /\ Running /\ net[d] # "off" /\ d \notin Teleports
    /\ ~sig["trigger"] /\ sig' = [sig EXCEPT !["trigger"] = TRUE]
    /\ UNCHANGED <<world, store, inputs, history, ticker, sleepers, process, pc,
                   alert, job>>

\* client:sync repeats every second; one that finds the channel full is lost.
TeleportSync(d) ==
    /\ Running /\ net[d] \in {"noip", "ip"} /\ Len(teleportCh) < TeleportCap
    /\ teleportCh' = Append(teleportCh, [dev |-> d, ip |-> net[d] = "ip"])
    /\ UNCHANGED <<world, store, decisions, commands, history, timers, process,
                   pc, alert, job>>

\* A button of an alert posted at any earlier time, even by another process.
PressButton(d) ==
    /\ Interactive /\ Running
    /\ d \in notified /\ Len(decisions) < DecisionsCap
    /\ \E until \in {"permanent", "live"} :
         decisions' = Append(decisions, [mac |-> d, until |-> until])
    /\ approved' = approved \cup {d}
    /\ UNCHANGED <<world, store, teleportCh, commands, loaded, notified, timers,
                   process, pc, alert, job>>

SlashCommand ==
    /\ Interactive /\ Running /\ Len(commands) < CommandsCap
    /\ \E order \in Orders : commands' = Append(commands, order)
    /\ UNCHANGED <<world, store, teleportCh, decisions, history, timers, process,
                   pc, alert, job>>

EditFile ==
    /\ \E content \in SeedFiles : content # file /\ file' = content
    /\ UNCHANGED <<net, store, inputs, history, timers, process, pc, alert, job>>

\* The ticker is some way into its interval, then its tick is in the channel.
FallbackElapses ==
    /\ ticker = "reset" /\ ticker' = "running"
    /\ UNCHANGED <<world, store, inputs, history, sig, sleepers, process, pc,
                   alert, job>>

FallbackTick ==
    /\ ticker = "running" /\ ticker' = "due"
    /\ UNCHANGED <<world, store, inputs, history, sig, sleepers, process, pc,
                   alert, job>>

\* A sleeper that sees the cancelled context returns without its signal.
RetryWakes ==
    /\ sleepers > 0 /\ sleepers' = sleepers - 1
    /\ \/ sig' = [sig EXCEPT !["retry"] = TRUE]
       \/ ctx /\ UNCHANGED sig
    /\ UNCHANGED <<world, store, inputs, history, ticker, process, pc, alert, job>>

ExpiryTick ==
    /\ Interactive /\ Running
    /\ ~sig["expiry"] /\ sig' = [sig EXCEPT !["expiry"] = TRUE]
    /\ UNCHANGED <<world, store, inputs, history, ticker, sleepers, process, pc,
                   alert, job>>

RowAges(d) ==
    /\ \E row \in Later(rows[d]) \ {rows[d]} : rows' = [rows EXCEPT ![d] = row]
    /\ UNCHANGED <<world, known, pending, inputs, history, timers, process, pc,
                   alert, job>>

\* A deadline passes while the decision is still queued.
DecisionAges ==
    /\ \E i \in 1 .. Len(decisions) :
         /\ decisions[i].until = "live"
         /\ decisions' = [decisions EXCEPT ![i].until = "lapsed"]
    /\ UNCHANGED <<world, store, teleportCh, commands, history, timers, process,
                   pc, alert, job>>

PendingAges(d) ==
    /\ pending[d] = "fresh" /\ pending' = [pending EXCEPT ![d] = "stale"]
    /\ UNCHANGED <<world, rows, known, inputs, history, timers, process, pc,
                   alert, job>>

-----------------------------------------------------------------------------
\* What the main goroutine does, Teleport clients apart.
MainLoop ==
    \/ RecordDevice \/ ReceiveTrigger \/ DelayOver
    \/ Precheck \/ PrecheckFails \/ Poll \/ PollFails
    \/ BackoffOver \/ BackoffCancelled \/ AlertTimeout
    \/ StartCheck \/ Fetch \/ FetchFails \/ Scan \/ ScanDone \/ Skip \/ After
    \/ ApplyDecision \/ RunCommand \/ SweepExpired \/ Shutdown

World ==
    \/ \E d \in Device : DeviceMoves(d) \/ ConnectionEvent(d)
    \/ \E d \in Teleports : TeleportSync(d)
    \/ \E d \in Device : PressButton(d) \/ RowAges(d) \/ PendingAges(d)
    \/ SlashCommand \/ EditFile \/ DecisionAges
    \/ FallbackElapses \/ FallbackTick \/ RetryWakes \/ ExpiryTick
    \/ Boot \/ Crash \/ Signal

Next == MainLoop \/ HandleTeleport \/ World

Spec == Init /\ [][Next]_vars
=============================================================================
