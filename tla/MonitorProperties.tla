-------------------------- MODULE MonitorProperties --------------------------
(***************************************************************************)
(* What the main loop of Monitor.tla promises, and the fairness under      *)
(* which its liveness is checked.                                          *)
(***************************************************************************)
EXTENDS Monitor

(***************************************************************************)
(* Every variable keeps its type.  In particular the three Go channels     *)
(* never exceed their capacity, the IP wait never runs past its last       *)
(* backoff, and an alert is outstanding exactly between sendAlert and      *)
(* recordDevice.                                                           *)
(***************************************************************************)
StoreType ==
    /\ net \in [Device -> Links] /\ file \in SUBSET Device
    /\ rows \in [Device -> Row]
    /\ known \in SUBSET Device /\ seed \in SUBSET Device
    /\ pending \in [Device -> {"no", "fresh", "stale"}]
    /\ loaded \in SUBSET Device /\ notified \in SUBSET Device
    /\ approved \in SUBSET Device

LoopType ==
    /\ pc \in PCs /\ job \in Jobs
    /\ IF pc = "record" THEN alert \in Alerts ELSE alert = NoAlert
    /\ ctx \in BOOLEAN /\ boots \in 0 .. MaxBoots

ChannelType ==
    /\ sig \in [Signals -> BOOLEAN] /\ ticker \in Tickers
    /\ sleepers \in 0 .. MaxSleepers
    /\ teleportCh \in Seq(Clients) /\ Len(teleportCh) <= TeleportCap
    /\ decisions \in Seq(Choices) /\ Len(decisions) <= DecisionsCap
    /\ commands \in Seq(Orders) /\ Len(commands) <= CommandsCap

TypeOK == StoreType /\ LoopType /\ ChannelType

-----------------------------------------------------------------------------
(***************************************************************************)
(* No device goes silent unaccounted for: whatever suppresses alerts about *)
(* a device, in memory or in the table, goes back to an alert that was     *)
(* sent or to the operator (a seed entry or a button), through every       *)
(* crash, reload, export and failure.                                      *)
(***************************************************************************)
KnownIsAccounted == known \cup Stored(rows) \subseteq notified \cup approved

(***************************************************************************)
(* When runCheck has been through a client list, nobody on it was missed:  *)
(* each listed device is known, or is held in pendingMacs for want of an   *)
(* IP, and then only because REQUIRE_IP is set.                            *)
(***************************************************************************)
CheckIsComplete ==
    pc = "after" /\ job.fetched =>
        \A d \in Listed(job.list) :
            \/ d \in known
            \/ RequireIP /\ pending[d] # "no" /\ job.list[d] # "ip"

(***************************************************************************)
(* The in-memory set never lags behind the table: a row that suppresses    *)
(* alerts after a restart also suppresses them now.  knownMacs and the     *)
(* table are updated by seven different handlers, each of which may fail   *)
(* between the two.                                                        *)
(***************************************************************************)
LiveRowsKnown == Running => Current(rows) \subseteq known

(***************************************************************************)
(* While an allow made from a button is in force, no alert about the       *)
(* device goes out, not even for a device an IP wait collected before      *)
(* the button was pressed (REMEMBER_NEW_DEVICES=false, as the README asks  *)
(* for the interactive service).                                           *)
(***************************************************************************)
AllowedStaysQuiet == pc = "record" => alert.dev \notin Current(rows)

(***************************************************************************)
(* knownMacs is exactly what a restart would load, so a crash at any point *)
(* neither repeats an old alert nor forgets a device.  Holds when devices  *)
(* are remembered, no database call fails and no allow can lapse.          *)
(***************************************************************************)
MemoryMatchesTable == Running => known = LoadKnownMacs(rows, seed)

(***************************************************************************)
(* The entries of KNOWN_MACS and KNOWN_MACS_FILE stay known from the       *)
(* moment they are loaded until they are loaded again.  Without the        *)
(* interactive service they are loaded at startup, and no reap may take    *)
(* them away; after a /reload one does.                                    *)
(***************************************************************************)
SeedHonoured == Running => loaded \subseteq known

(***************************************************************************)
(* Where the seed does lose a device, the cause is one of these: a reload  *)
(* that no longer lists it, a reap that goes back to an older list, or the *)
(* sweep of an allow that was made for the device itself and has lapsed.   *)
(***************************************************************************)
SeedLostForCause ==
    [][\A d \in (known \cap loaded) \ known' :
          \/ ~Running' \/ d \notin loaded'
          \/ RemoveOldDevices /\ d \notin seed
          \/ rows[d].allow = "lapsed"]_vars

(***************************************************************************)
(* With REMOVE_OLD_DEVICES, a device is forgotten only by a check that     *)
(* does not see it, after REMOVE_DELAY has passed since an earlier check   *)
(* first missed it.                                                        *)
(***************************************************************************)
OnlyAbsentForgotten ==
    [][\A d \in known \ known' :
          \/ ~Running'
          \/ job.list[d] = "off" /\ rows[d].absence = "overdue"]_vars

(***************************************************************************)
(* No device is alerted twice by one process: when an alert goes out, its  *)
(* device is not already recorded as known.  The comment on                *)
(* waitForDeviceIP promises this of the alert it sends; the loop over the  *)
(* timed-out devices breaks it.                                            *)
(***************************************************************************)
NoAlertForKnown == pc = "record" => alert.dev \notin known

(***************************************************************************)
(* With ALWAYS_NOTIFY, a check alerts about every device it lists, as the  *)
(* README says of the option (stated of the checks no event started, which *)
(* no alert of an IP wait precedes).  The scan skips known devices before  *)
(* it looks at the option, and breaks it.                                  *)
(***************************************************************************)
AlwaysNotifies ==
    [][AlwaysNotify /\ ~job.ws =>
          \A d \in job.todo \ job'.todo :
              Running' => pc' = "record" /\ alert'.dev = d]_vars

(***************************************************************************)
(* All handlers together keep the contract of AlertContract.tla: a device  *)
(* goes silent by its alert or by the operator's word, a silent one is     *)
(* alerted only if an IP wait collected it before, and nothing is decided  *)
(* or stopped halfway through an alert or a wait.                          *)
(***************************************************************************)
Contract == INSTANCE AlertContract WITH
    state   <- IF Running THEN "up" ELSE pc,
    silent  <- known,
    kept    <- Stored(rows),
    told    <- notified,
    vouched <- approved,
    owed    <- job.noIP,
    out     <- IF pc = "record" THEN {alert.dev} ELSE {}

ImplementsContract == Contract!Spec

-----------------------------------------------------------------------------
(***************************************************************************)
(* Fairness.  The main goroutine runs whenever it can, and clients sent by *)
(* the Teleport channel do not keep a timer from ending a wait.  Go's      *)
(* select picks at random among the ready cases, so ctx.Done, the sweep    *)
(* and the checks that are ready again and again are taken in the end; the *)
(* ListClients of a check, tried again and again, succeeds in the end.     *)
(* The tickers and the ageing of held entries are timers; a tick that      *)
(* WebSocket checks keep postponing may never come.  Nothing is assumed of *)
(* devices, of the event stream, of the calls of an IP wait, of the        *)
(* operator, of retries or of crashes.                                     *)
(***************************************************************************)
Fairness ==
    /\ WF_vars(MainLoop)
    /\ SF_vars(StartCheck) /\ SF_vars(SweepExpired) /\ SF_vars(Shutdown)
    /\ SF_vars(Fetch)
    /\ WF_vars(FallbackElapses \/ FallbackTick) /\ WF_vars(ExpiryTick)
    /\ WF_vars(\E d \in Device : PendingAges(d))

FairSpec == Spec /\ Fairness

(***************************************************************************)
(* With fallback polling on, a device that stays connected with an address *)
(* is alerted in the end, unless the operator listed or allowed it: lost   *)
(* events, failing fetches, a held entry in pendingMacs and a stream of    *)
(* events that keeps resetting the ticker only delay it.                   *)
(***************************************************************************)
NewDeviceAlerted ==
    \A d \in Device :
        (Running /\ net[d] = "ip") ~>
            (d \in notified \cup approved \/ net[d] # "ip" \/ ctx \/ ~Running)

(***************************************************************************)
(* When a temporary allow lapses, the sweep lets the device go and, if it  *)
(* stays connected, the next check alerts about it again, unless the seed  *)
(* or a button, whose decision may still be queued, vouches for it.        *)
(***************************************************************************)
LapsedAllowAlerts ==
    \A d \in Device :
        (Running /\ rows[d].allow = "lapsed" /\ net[d] = "ip") ~>
            \/ pc = "record" /\ alert.dev = d
            \/ d \in Current(rows) \cup seed
            \/ \E i \in 1 .. Len(decisions) : decisions[i].mac = d
            \/ net[d] # "ip" \/ ctx \/ ~Running

(***************************************************************************)
(* SIGTERM ends the process, from whatever the main goroutine is doing:    *)
(* the main select and the event delay see it and leave, the backoff of an *)
(* IP wait sees it and still alerts what the wait has collected, and       *)
(* fetches, alerts and scans run to their end first.                       *)
(***************************************************************************)
ShutdownCompletes == ctx ~> ~Running
=============================================================================
