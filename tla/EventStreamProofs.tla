-------------------------- MODULE EventStreamProofs --------------------------
(***************************************************************************)
(* The event stream and the session it shares with the main loop, for      *)
(* either kind of controller and any channel size: the backoff, the        *)
(* failure count, the connection and the sessions keep to their types.     *)
(***************************************************************************)
EXTENDS EventStream, TLAPS

USE DEF vars, restVars, inbox

(***************************************************************************)
(* A check, a login or a controller that forgets leaves sessions where     *)
(* they belong: one in hand exactly between network and lock.              *)
(***************************************************************************)
LEMMA ChecksKeepType ==
    ASSUME RestTypeOK, RunCheck \/ BeginListClients
    PROVE  RestTypeOK' /\ granted'["stream"] = granted["stream"]
<1> USE DEF RestTypeOK, Callers, Sessions
<1>1. CASE BeginListClients
  BY <1>1 DEF BeginListClients
<1>2. CASE ListClients \/ ListClientsFails
  BY <1>2 DEF ListClients, ListClientsFails
<1>3. CASE Reconnect
  BY <1>3 DEF Reconnect, Grant
<1>4. CASE StoreReconnected
  BY <1>4 DEF StoreReconnected, Store
<1> QED
  BY <1>1, <1>2, <1>3, <1>4 DEF RunCheck

LEMMA ForgettingKeepsType ==
    ASSUME RestTypeOK, UNCHANGED check, up' \in BOOLEAN, cookies \in Sessions,
           SessionsLost \/ UNCHANGED <<session, using, granted, cookies>>
    PROVE  /\ RestTypeOK' /\ cookies' \in Sessions
           /\ (granted'["stream"] = "none") = (granted["stream"] = "none")
<1> USE DEF RestTypeOK, Callers, Sessions
<1>1. CASE SessionsLost
  BY <1>1 DEF SessionsLost, ForgetAll, Lost
<1>2. CASE UNCHANGED <<session, using, granted, cookies>>
  BY <1>2
<1> QED
  BY <1>1, <1>2

(***************************************************************************)
(* The failure count never reaches three outside Failed, doubling stays    *)
(* within the six delays, and only the reader holds a connection open.     *)
(***************************************************************************)
THEOREM TypeCorrect == Spec => []TypeOK
<1>1. Init => TypeOK
  <2> SUFFICES ASSUME Init PROVE TypeOK
    OBVIOUS
  <2>1. /\ open \in BOOLEAN /\ ctx \in BOOLEAN
        /\ trigger \in BOOLEAN /\ (open => pc = "read")
        /\ RestTypeOK /\ cookies \in Sessions
        /\ (pc = "store") = (granted["stream"] # "none")
    BY DEF Init, RestInit, RestTypeOK, Sessions, Callers
  <2>2. wsURL \in Paths \cup {"none"} /\ failures \in 0 .. 2 /\ teleports \in 0 .. TeleportCap
    BY EventStreamAssumption DEF Init
  <2>3. /\ backoff \in {5, 10, 20, 40, 80, 120}
        /\ pc \in {"resolve", "dial", "read", "failed", "sleep", "login", "store",
                  "stopped"}
    BY DEF Init, InitialBackoff
  <2> QED
    BY <2>1, <2>2, <2>3 DEF TypeOK
<1>2. TypeOK /\ [Next]_vars => TypeOK'
  <2> SUFFICES ASSUME TypeOK, [Next]_vars PROVE TypeOK'
    OBVIOUS
  <2> USE EventStreamAssumption DEF TypeOK
  <2>0. ASSUME UNCHANGED restVars PROVE RestTypeOK' /\ granted' = granted
    BY <2>0 DEF RestTypeOK
  <2>1. CASE Resolve
    BY <2>0, <2>1 DEF Resolve, Paths, RestTypeOK
  <2>2. CASE Dial
    <3>1. Answers(wsURL) \in BOOLEAN
      BY DEF Answers
    <3> QED
      BY <2>0, <2>2, <3>1 DEF Dial
  <2>3. CASE ReadFails
    BY <2>0, <2>3 DEF ReadFails
  <2>4. CASE Failed
    <3>1. CASE ctx
      BY <2>0, <2>4, <3>1 DEF Failed
    <3>2. CASE ~ctx /\ failures + 1 >= 3
      BY <2>0, <2>4, <3>2 DEF Failed
    <3>3. CASE ~ctx /\ ~(failures + 1 >= 3)
      BY <2>0, <2>4, <3>3 DEF Failed
    <3> QED
      BY <3>1, <3>2, <3>3
  <2>5. CASE SleepCancelled
    BY <2>0, <2>5 DEF SleepCancelled
  <2>6. CASE SleepOver
    <3>1. backoff' \in {5, 10, 20, 40, 80, 120}
      BY <2>6 DEF SleepOver, MaxBackoff
    <3> QED
      BY <2>0, <2>6, <3>1 DEF SleepOver
  <2>7. CASE Login
    <3>1. CASE Grant("stream")
      <4>1. RestTypeOK' /\ granted'["stream"] = "live"
        BY <2>7, <3>1 DEF Login, Grant, RestTypeOK, Callers, Sessions
      <4> QED
        BY <2>7, <3>1, <4>1 DEF Login, Grant
    <3>2. CASE ~Grant("stream")
      <4>1. RestTypeOK' /\ granted' = granted /\ cookies' \in Sessions
        BY <2>7, <3>2 DEF Login, RestTypeOK
      <4> QED
        BY <2>7, <3>2, <4>1 DEF Login
    <3> QED
      BY <3>1, <3>2
  <2>17. CASE StoreSession
    <3>1. RestTypeOK' /\ granted'["stream"] = "none" /\ cookies' \in Sessions
      BY <2>17 DEF StoreSession, Store, RestTypeOK, Callers, Sessions
    <3> QED
      BY <2>17, <3>1 DEF StoreSession, InitialBackoff
  <2>8. CASE ReceiveConnection
    BY <2>0, <2>8 DEF ReceiveConnection
  <2>9. CASE ReceiveTeleport
    BY <2>0, <2>9 DEF ReceiveTeleport
  <2>10. CASE TakeTrigger \/ TakeTeleport
    <3>1. trigger' \in BOOLEAN /\ teleports' \in 0 .. TeleportCap
      <4>1. CASE trigger' = FALSE /\ teleports' = teleports
        BY <4>1
      <4>2. CASE teleports > 0 /\ teleports' = teleports - 1 /\ trigger' = trigger
        BY <4>2
      <4> QED
        BY <2>10, <4>1, <4>2 DEF TakeTrigger, TakeTeleport
    <3>2. UNCHANGED <<restVars, open, cookies, wsURL, failures, backoff, pc, ctx>>
      BY <2>10 DEF TakeTrigger, TakeTeleport
    <3> QED
      BY <2>0, <3>1, <3>2
  <2>11. CASE MainLoopChecks
    BY <2>11, ChecksKeepType DEF MainLoopChecks
  <2>12. CASE Cancel
    BY <2>0, <2>12 DEF Cancel
  <2>13. CASE ControllerFails
    BY <2>13, ForgettingKeepsType DEF ControllerFails, RestTypeOK
  <2>14. CASE ControllerDrops
    BY <2>14, ForgettingKeepsType DEF ControllerDrops, RestTypeOK
  <2>15. CASE ControllerReturns
    BY <2>15 DEF ControllerReturns, RestTypeOK
  <2>18. CASE ControllerForgets
    BY <2>18, ForgettingKeepsType DEF ControllerForgets, RestTypeOK
  <2>16. CASE UNCHANGED vars
    BY <2>0, <2>16
  <2> QED
    BY <2>1, <2>2, <2>3, <2>4, <2>5, <2>6, <2>7, <2>8,
       <2>9, <2>10, <2>11, <2>12, <2>13, <2>14, <2>15, <2>16, <2>17, <2>18 DEF Next, Stream
<1> QED
  BY <1>1, <1>2, PTL DEF Spec
=============================================================================
