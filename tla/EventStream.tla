----------------------------- MODULE EventStream -----------------------------
(***************************************************************************)
(* internal/unifi/websocket.go: the goroutine that keeps one WebSocket to  *)
(* the controller open and hands its events to the main loop.  It shares   *)
(* the session of the REST client with the main loop, and both log in.     *)
(*                                                                         *)
(* A controller serves the stream on the UniFi OS ("modern") or on the     *)
(* "legacy" path, never on both; resolveWSURL finds out which by probing   *)
(* the modern one, and caches the answer.                                  *)
(*                                                                         *)
(* A definition headed "Mistake:" is no part of Spec: it is a plausible    *)
(* wrong variant of the one below it, and shows a property can fail.       *)
(***************************************************************************)
EXTENDS Naturals, RestClient

CONSTANTS
    Modern,        \* the controller is a UniFi OS one
    TeleportCap    \* capacity of teleportCh (8 in the code)

ASSUME EventStreamAssumption == Modern \in BOOLEAN /\ TeleportCap \in Nat

VARIABLES
    open,       \* the connection being read is alive
    cookies,    \* the session a probe or dial in progress has read
    wsURL,      \* the cached path, "none" for an empty one
    failures,   \* consecutiveFailures
    backoff,    \* the next delay, in seconds
    pc,         \* where the goroutine is
    ctx,        \* the context is cancelled
    trigger,    \* the one-slot trigger channel
    teleports   \* how many clients wait in teleportCh

inbox == <<trigger, teleports>>
vars  == <<restVars, open, cookies, wsURL, failures, backoff, pc, ctx, inbox>>

Paths  == {"modern", "legacy"}
Served == IF Modern THEN "modern" ELSE "legacy"
InitialBackoff == 5
MaxBackoff     == 120

\* A dial succeeds on the path the controller serves, while it is up and
\* recognises the cookies.
Answers(path) == up /\ cookies = "live" /\ path = Served

\* main has just logged in when it starts the goroutine.
Init ==
    /\ RestInit /\ open = FALSE /\ cookies = session
    /\ wsURL = "none" /\ failures = 0 /\ backoff = InitialBackoff
    /\ pc = "resolve" /\ ctx = FALSE
    /\ trigger \in BOOLEAN /\ teleports = 0

\* resolveWSURL takes a probe that fails for any reason for a legacy controller;
\* the dial that follows reads the cookies anew.
Resolve ==
    /\ pc = "resolve" /\ pc' = "dial"
    /\ wsURL' = IF wsURL # "none" THEN wsURL
                ELSE IF Answers("modern") THEN "modern" ELSE "legacy"
    /\ cookies' = session
    /\ UNCHANGED <<restVars, open, failures, backoff, ctx, inbox>>

Dial ==
    /\ pc = "dial"
    /\ open' = Answers(wsURL)
    /\ pc' = IF open' THEN "read" ELSE "failed"
    /\ UNCHANGED <<restVars, cookies, wsURL, failures, backoff, ctx, inbox>>

\* Both callbacks drop what does not fit their channel.
ReceiveConnection ==
    /\ pc = "read" /\ open
    /\ trigger' = TRUE
    /\ UNCHANGED <<restVars, open, cookies, wsURL, failures, backoff, pc, ctx, teleports>>

ReceiveTeleport ==
    /\ pc = "read" /\ open
    /\ teleports < TeleportCap /\ teleports' = teleports + 1
    /\ UNCHANGED <<restVars, open, cookies, wsURL, failures, backoff, pc, ctx, trigger>>

\* Mistake: nothing closes the connection when the context is cancelled.
ReadIgnoresCancel ==
    /\ pc = "read" /\ ~open /\ pc' = "failed"
    /\ UNCHANGED <<restVars, open, cookies, wsURL, failures, backoff, ctx, inbox>>

\* The connection broke, or a goroutine closed it on cancel.
ReadFails ==
    /\ pc = "read" /\ (~open \/ ctx)
    /\ open' = FALSE /\ pc' = "failed"
    /\ UNCHANGED <<restVars, cookies, wsURL, failures, backoff, ctx, inbox>>

\* The third failure in a row clears the cached path.
Failed ==
    /\ pc = "failed"
    /\ IF ctx
       THEN pc' = "stopped" /\ UNCHANGED <<wsURL, failures>>
       ELSE /\ pc' = "sleep"
            /\ IF failures + 1 >= 3
               THEN wsURL' = "none" /\ failures' = 0
               ELSE UNCHANGED wsURL /\ failures' = failures + 1
    /\ UNCHANGED <<restVars, open, cookies, backoff, ctx, inbox>>

SleepCancelled ==
    /\ pc = "sleep" /\ ctx
    /\ pc' = "stopped"
    /\ UNCHANGED <<restVars, open, cookies, wsURL, failures, backoff, ctx, inbox>>

\* Mistake: the delay doubles without limit.
SleepOverUncapped ==
    /\ pc = "sleep" /\ pc' = "login"
    /\ backoff' = 2 * backoff
    /\ UNCHANGED <<restVars, open, cookies, wsURL, failures, ctx, inbox>>

SleepOver ==
    /\ pc = "sleep" /\ pc' = "login"
    /\ backoff' = IF 2 * backoff > MaxBackoff THEN MaxBackoff ELSE 2 * backoff
    /\ UNCHANGED <<restVars, open, cookies, wsURL, failures, ctx, inbox>>

\* A successful Login also forgets the failures counted so far; the session
\* is stored under the lock, and the next probe or dial reads what is there.
Login ==
    /\ pc = "login"
    /\ \/ Grant("stream") /\ pc' = "store" /\ UNCHANGED cookies
       \/ ~up /\ pc' = "resolve" /\ cookies' = session /\ UNCHANGED granted
    /\ UNCHANGED <<up, session, using, check, open, wsURL, failures, backoff,
                   ctx, inbox>>

StoreSession ==
    /\ pc = "store" /\ pc' = "resolve"
    /\ Store("stream") /\ cookies' = session'
    /\ backoff' = InitialBackoff /\ failures' = 0
    /\ UNCHANGED <<up, using, check, open, wsURL, ctx, inbox>>

-----------------------------------------------------------------------------
\* The main loop takes what it is sent, checks, and cancels.
TakeTrigger ==
    /\ trigger /\ trigger' = FALSE
    /\ UNCHANGED <<restVars, open, cookies, wsURL, failures, backoff, pc, ctx, teleports>>

TakeTeleport ==
    /\ teleports > 0 /\ teleports' = teleports - 1
    /\ UNCHANGED <<restVars, open, cookies, wsURL, failures, backoff, pc, ctx, trigger>>

MainLoopChecks ==
    /\ \/ RunCheck
       \/ ~ctx /\ BeginListClients
    /\ UNCHANGED <<open, cookies, wsURL, failures, backoff, pc, ctx, inbox>>

Cancel ==
    /\ ~ctx /\ ctx' = TRUE
    /\ UNCHANGED <<restVars, open, cookies, wsURL, failures, backoff, pc, inbox>>

\* Every session ends: those stored, in use, and on their way.
SessionsLost == ForgetAll /\ cookies' = Lost(cookies)

\* A controller that restarts or is upgraded, or that breaks a connection,
\* may no longer know the sessions.
ControllerFails ==
    /\ up /\ up' = FALSE /\ open' = FALSE
    /\ SessionsLost \/ UNCHANGED <<session, using, granted, cookies>>
    /\ UNCHANGED <<check, wsURL, failures, backoff, pc, ctx, inbox>>

ControllerDrops ==
    /\ open /\ open' = FALSE
    /\ SessionsLost \/ UNCHANGED <<session, using, granted, cookies>>
    /\ UNCHANGED <<up, check, wsURL, failures, backoff, pc, ctx, inbox>>

\* Sessions run out, and the connection being read stays open.
ControllerForgets ==
    /\ SessionsLost
    /\ UNCHANGED <<up, check, open, wsURL, failures, backoff, pc, ctx, inbox>>

ControllerReturns ==
    /\ ~up /\ up' = TRUE
    /\ UNCHANGED <<session, granted, using, check, open, cookies, wsURL, failures,
                   backoff, pc, ctx, inbox>>

Stream ==
    \/ Resolve \/ Dial \/ ReadFails \/ Failed \/ SleepCancelled \/ SleepOver
    \/ Login \/ StoreSession

Next ==
    \/ Stream \/ ReceiveConnection \/ ReceiveTeleport
    \/ TakeTrigger \/ TakeTeleport \/ MainLoopChecks \/ Cancel
    \/ ControllerFails \/ ControllerDrops \/ ControllerForgets \/ ControllerReturns

Spec == Init /\ [][Next]_vars

(***************************************************************************)
(* Both goroutines run whenever they can: probes, dials, logins and        *)
(* fetches end, by their own timeouts if need be, a broken or closed       *)
(* connection fails its read, a sleep ends, and fallback polling makes the *)
(* main loop check again and again.  Nothing is assumed of the controller. *)
(***************************************************************************)
FairSpec == Spec /\ WF_vars(Stream) /\ WF_vars(MainLoopChecks)

-----------------------------------------------------------------------------
(***************************************************************************)
(* Every variable keeps its type: the backoff is 5 s doubled up to 2 min,  *)
(* three consecutive failures are never left standing, and the connection  *)
(* being read is the only one left open.                                   *)
(***************************************************************************)
TypeOK ==
    /\ RestTypeOK /\ cookies \in Sessions
    /\ open \in BOOLEAN /\ (open => pc = "read")
    /\ (pc = "store") = (granted["stream"] # "none")
    /\ wsURL \in Paths \cup {"none"} /\ failures \in 0 .. 2
    /\ backoff \in {5, 10, 20, 40, 80, 120}
    /\ pc \in {"resolve", "dial", "read", "failed", "sleep", "login", "store",
              "stopped"}
    /\ ctx \in BOOLEAN /\ trigger \in BOOLEAN /\ teleports \in 0 .. TeleportCap

(***************************************************************************)
(* Once the controller stays up and sessions no longer run out under an    *)
(* open connection, the stream is read again and again, whatever happens:  *)
(* outages, failed logins and probes before, connections dropped with      *)
(* their sessions ever after, and logins of the two goroutines that        *)
(* overtake each other.                                                    *)
(***************************************************************************)
Reconnects ==
    <>[](up /\ ~ctx) /\ <>[][~ControllerForgets]_vars => []<>(pc = "read" /\ open)

(***************************************************************************)
(* Once the controller stays up and keeps its sessions, checks get a       *)
(* client list again and again: a session lost while the stream was open,  *)
(* or stored late by the slower of two logins, does not stay.              *)
(***************************************************************************)
FetchesRecover ==
    <>[](up /\ ~ctx) /\ <>[][~(ControllerForgets \/ ControllerDrops)]_vars
        => []<><<ListClients>>_vars

(***************************************************************************)
(* Cancelling the context ends the goroutine, wherever it is blocked.      *)
(***************************************************************************)
StopsOnCancel == ctx ~> pc = "stopped"
=============================================================================
