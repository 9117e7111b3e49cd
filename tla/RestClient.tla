------------------------------ MODULE RestClient ------------------------------
(***************************************************************************)
(* internal/unifi/client.go: one pointer to an authenticated session, read *)
(* by every request and replaced by every login, by two goroutines: the    *)
(* main loop and the one of the event stream.                              *)
(*                                                                         *)
(* A login talks to the controller before it takes the lock, so two logins *)
(* may store their sessions in either order; a request keeps the session   *)
(* it has read.  A session is "live" if the controller knows it, "dead" if *)
(* it does not know it any more.                                           *)
(*                                                                         *)
(* A definition headed "Mistake:" is used by no specification.             *)
(***************************************************************************)
VARIABLES
    up,         \* external: the controller answers
    session,    \* uc.u
    granted,    \* the session each Login in progress has got
    using,      \* the session the ListClients in progress has read
    check       \* where the main loop is in runCheck

restVars == <<up, session, granted, using, check>>

Callers  == {"main", "stream"}
Sessions == {"live", "dead"}

RestInit ==
    /\ up = TRUE /\ session = "live"
    /\ granted = [c \in Callers |-> "none"]
    /\ using = "none" /\ check = "idle"

(***************************************************************************)
(* Login: NewUnifi and GetSites, then the lock.                            *)
(***************************************************************************)
Grant(c) == up /\ granted' = [granted EXCEPT ![c] = "live"]

\* Mistake: the new session is used only if there was none.
StoreIfNone(c) ==
    /\ session' = session
    /\ granted' = [granted EXCEPT ![c] = "none"]

Store(c) ==
    /\ session' = granted[c]
    /\ granted' = [granted EXCEPT ![c] = "none"]

(***************************************************************************)
(* The fetch of runCheck.  Those of the pre-check and of the IP wait read  *)
(* the pointer too, and change nothing whether they fail or not.           *)
(***************************************************************************)
BeginListClients ==
    /\ check = "idle" /\ check' = "list" /\ using' = session
    /\ UNCHANGED <<up, session, granted>>

ListClients ==
    /\ check = "list" /\ up /\ using = "live"
    /\ check' = "idle" /\ using' = "none"
    /\ UNCHANGED <<up, session, granted>>

\* Mistake: a failed fetch is logged and left at that.
ListClientsGivesUp ==
    /\ check = "list" /\ ~(up /\ using = "live")
    /\ check' = "idle" /\ using' = "none"
    /\ UNCHANGED <<up, session, granted>>

ListClientsFails ==
    /\ check = "list" /\ ~(up /\ using = "live")
    /\ check' = "login" /\ using' = "none"
    /\ UNCHANGED <<up, session, granted>>

Reconnect ==
    /\ check = "login"
    /\ \/ Grant("main") /\ check' = "store"
       \/ ~up /\ check' = "idle" /\ UNCHANGED granted
    /\ UNCHANGED <<up, session, using>>

StoreReconnected ==
    /\ check = "store" /\ check' = "idle" /\ Store("main")
    /\ UNCHANGED <<up, using>>

RunCheck ==
    ListClients \/ ListClientsFails \/ Reconnect \/ StoreReconnected

-----------------------------------------------------------------------------
\* What becomes of a session the controller forgets.
Lost(s) == IF s = "live" THEN "dead" ELSE s

ForgetAll ==
    /\ session' = Lost(session) /\ using' = Lost(using)
    /\ granted' = [c \in Callers |-> Lost(granted[c])]

RestTypeOK ==
    /\ up \in BOOLEAN /\ session \in Sessions
    /\ granted \in [Callers -> {"none"} \cup Sessions]
    /\ using \in {"none"} \cup Sessions
    /\ check \in {"idle", "list", "login", "store"}
    /\ (check = "list") = (using # "none")
    /\ (check = "store") = (granted["main"] # "none")
=============================================================================
