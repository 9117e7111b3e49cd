------------------------------ MODULE Notifier ------------------------------
(***************************************************************************)
(* The notifier, as the main goroutine calls it: one alert at a time, over *)
(* HTTP with a retry when the service limits the rate, or through MQTT,    *)
(* whose client keeps a retained online/offline status beside the alerts.  *)
(*                                                                         *)
(* An alert stands for one call of sendAlert.  What a service asks for in  *)
(* a 429 is in tenths of a second.  The MQTT client library (paho) and the *)
(* broker are modelled from what the code asks of them.                    *)
(*                                                                         *)
(* A definition headed "Mistake:" is no part of NotifierNext.              *)
(***************************************************************************)
EXTENDS Integers, Sequences

CONSTANTS
    Alert, NoAlert,
    Services,       \* NOTIFICATION_SERVICE, one of which is configured
    MaxRetries,     \* maxRetries, 5 in the code
    Hints,          \* what a 429 may ask for; Unreadable is one of them
    MaxLinks        \* bound: connections the MQTT client makes

Unreadable == -1

ASSUME NotifierAssumption ==
    /\ MaxRetries \in Nat \ {0} /\ MaxLinks \in Nat
    /\ Hints \subseteq Nat \cup {Unreadable}
    /\ Services \subseteq {"Telegram", "Ntfy", "Discord", "Pushover", "Slack",
                           "Gotify", "Webhook", "None", "MQTT"}
    /\ NoAlert \notin Alert /\ {"online", "offline"} \cap Alert = {}

VARIABLES
    service,
    phase,      \* where the main goroutine is in the notifier
    alert,      \* the alert of the last call
    tried,      \* the alerts of all calls
    attempt, pause,
    result,     \* what the last call returned
    reply,      \* history: what its last attempt met
    asked,      \* history: what its last 429 asked for
    accepted,   \* history: how often the service took each alert
    link, links,    \* the MQTT connection, how many there have been
    outbox,     \* publications the broker has not acknowledged, in order
    hellos,     \* OnConnect handlers that have not run yet
    will,       \* the broker holds a will for this client
    status,     \* the retained message of the status topic
    raced       \* history: a handler ran while the client was closing

call == <<phase, alert, tried, attempt, pause, result, reply, asked>>
mqtt == <<link, links, outbox, hellos, will, status, raced>>
notifierVars == <<service, call, accepted, mqtt>>

-----------------------------------------------------------------------------
RateLimitAware == {"Telegram", "Ntfy", "Discord"}

\* Only Discord asks for fractions of a second.
Asks == {h \in Hints : h = Unreadable \/ h % 10 = 0 \/ service = "Discord"}

TelegramDelay(hint) == IF hint > 0 THEN hint \div 10 ELSE 1

NtfyDelay(hint) == IF hint > 0 THEN hint \div 10 ELSE 60

\* Mistake: the fraction Discord asks for is cut off.
DiscordDelayFloor(hint) == IF hint = Unreadable THEN 1 ELSE hint \div 10

DiscordDelay(hint) == IF hint = Unreadable THEN 1 ELSE hint \div 10 + 1

\* The seconds to wait after a 429; zero for a service that never waits.
RetryAfter(hint) ==
    CASE service = "Telegram" -> TelegramDelay(hint)
      [] service = "Ntfy"     -> NtfyDelay(hint)
      [] service = "Discord"  -> DiscordDelay(hint)
      [] service \notin RateLimitAware -> 0

Init ==
    /\ service \in Services
    /\ phase = "idle" /\ alert = NoAlert /\ tried = {}
    /\ attempt = 0 /\ pause = 0
    /\ result = "none" /\ reply = "none" /\ asked = Unreadable
    /\ accepted = [a \in Alert |-> 0]
    /\ link = IF service = "MQTT" THEN "up" ELSE "none"
    /\ links = 1 /\ outbox = <<>> /\ hellos = (IF service = "MQTT" THEN 1 ELSE 0)
    /\ will = (service = "MQTT")
    /\ status \in {"none", "online", "offline"} /\ raced = FALSE

(***************************************************************************)
(* HTTP: SendNotification and SendWebhookNotification.                     *)
(***************************************************************************)
Return(how) ==
    /\ phase' = "idle" /\ result' = how
    /\ UNCHANGED <<alert, tried, attempt, pause>>

\* "None" logs the alert; an MQTT publication is stored if the link is lost.
BeginSend(a) ==
    /\ phase = "idle" /\ a \notin tried
    /\ alert' = a /\ tried' = tried \cup {a}
    /\ attempt' = 1 /\ reply' = "none"
    /\ \/ service = "None" /\ phase' = "idle" /\ result' = "sent"
       \/ service = "MQTT" /\ phase' = "publish" /\ result' = "none"
       \/ service \notin {"None", "MQTT"} /\ phase' = "post" /\ result' = "none"
    /\ outbox' = IF service = "MQTT" THEN Append(outbox, a) ELSE outbox
    /\ UNCHANGED <<service, pause, asked, accepted, link, links, hellos, will,
                   status, raced>>

Taken(a) == accepted' = [accepted EXCEPT ![a] = @ + 1]

\* 2xx.
PostAccepted ==
    /\ phase = "post" /\ Return("sent")
    /\ reply' = "accepted" /\ Taken(alert)
    /\ UNCHANGED <<service, asked, mqtt>>

\* Mistake: an attempt without an answer is made again.
ReplyLostRetried ==
    /\ phase = "post" /\ attempt < MaxRetries /\ attempt' = attempt + 1
    /\ Taken(alert)
    /\ UNCHANGED <<service, phase, alert, tried, pause, result, reply, asked, mqtt>>

\* The service took it, but the client timed out before the answer.
ReplyLost ==
    /\ phase = "post" /\ Return("error")
    /\ reply' = "lost" /\ Taken(alert)
    /\ UNCHANGED <<service, asked, mqtt>>

\* No contact, or a status that is neither 2xx nor 429.
PostRefused ==
    /\ phase = "post" /\ Return("error")
    /\ reply' = "refused" /\ UNCHANGED <<service, asked, accepted, mqtt>>

PostLimited ==
    /\ phase = "post" /\ reply' = "limited"
    /\ \E hint \in Asks :
         /\ asked' = hint
         /\ IF RetryAfter(hint) > 0
            THEN /\ phase' = "sleep" /\ pause' = RetryAfter(hint)
                 /\ UNCHANGED <<alert, tried, attempt, result>>
            ELSE Return("error")
    /\ UNCHANGED <<service, accepted, mqtt>>

\* Mistake: the loop over the attempts has no end.
SleptForever ==
    /\ phase = "sleep" /\ phase' = "post" /\ reply' = "none"
    /\ UNCHANGED <<service, alert, tried, attempt, pause, result, asked, accepted,
                   mqtt>>

\* Mistake: the loop ends one attempt late.
SleptLate ==
    /\ phase = "sleep"
    /\ \/ /\ attempt > MaxRetries /\ Return("error") /\ UNCHANGED reply
       \/ /\ attempt <= MaxRetries /\ attempt' = attempt + 1
          /\ phase' = "post" /\ reply' = "none"
          /\ UNCHANGED <<alert, tried, pause, result>>
    /\ UNCHANGED <<service, asked, accepted, mqtt>>

\* Mistake: SendNotification returns nil when its attempts are used up.
SleptReturnsNil ==
    /\ phase = "sleep"
    /\ \/ /\ attempt = MaxRetries /\ Return("sent") /\ UNCHANGED reply
       \/ /\ attempt < MaxRetries /\ attempt' = attempt + 1
          /\ phase' = "post" /\ reply' = "none"
          /\ UNCHANGED <<alert, tried, pause, result>>
    /\ UNCHANGED <<service, asked, accepted, mqtt>>

\* The last attempt sleeps too, for nothing.
Slept ==
    /\ phase = "sleep"
    /\ \/ /\ attempt = MaxRetries /\ Return("error") /\ UNCHANGED reply
       \/ /\ attempt < MaxRetries /\ attempt' = attempt + 1
          /\ phase' = "post" /\ reply' = "none"
          /\ UNCHANGED <<alert, tried, pause, result>>
    /\ UNCHANGED <<service, asked, accepted, mqtt>>

-----------------------------------------------------------------------------
(***************************************************************************)
(* MQTT.  ConnectMQTT registers a will and a handler that publishes        *)
(* "online" after every connection; the client reconnects on its own and   *)
(* sends again what was not acknowledged.                                  *)
(***************************************************************************)
\* SendMQTTNotification waits no longer; the publication stays stored.
PublishTimesOut ==
    /\ phase = "publish" /\ Return("error")
    /\ reply' = "lost" /\ UNCHANGED <<service, asked, accepted, mqtt>>

\* Mistake: "online" is published on the first connection only.
HelloOnce ==
    /\ hellos > 0 /\ phase # "gone" /\ hellos' = hellos - 1
    /\ outbox' = IF links = 1 THEN Append(outbox, "online") ELSE outbox
    /\ raced' = (raced \/ phase = "closing")
    /\ UNCHANGED <<service, call, accepted, link, links, will, status>>

\* A handler is a goroutine of its own and may run late: what the client
\* sends again after a reconnection goes before or after its "online".
Hello ==
    /\ hellos > 0 /\ phase # "gone" /\ hellos' = hellos - 1
    /\ outbox' \in {Append(outbox, "online"), <<"online">> \o outbox}
    /\ raced' = (raced \/ phase = "closing")
    /\ UNCHANGED <<service, call, accepted, link, links, will, status>>

BrokerTakes(m) ==
    /\ status' = IF m \in {"online", "offline"} THEN m ELSE status
    /\ accepted' = IF m \in Alert THEN [accepted EXCEPT ![m] = @ + 1] ELSE accepted

\* A publication arrives and its acknowledgement comes back.
Publish ==
    /\ link = "up" /\ outbox # <<>>
    /\ BrokerTakes(Head(outbox)) /\ outbox' = Tail(outbox)
    /\ IF phase = "publish" /\ Head(outbox) = alert
       THEN Return("sent") /\ reply' = "accepted" /\ UNCHANGED asked
       ELSE UNCHANGED call
    /\ UNCHANGED <<service, link, links, hellos, will, raced>>

\* The link fails, perhaps when a publication has arrived.
LinkFails ==
    /\ link = "up" /\ phase # "gone" /\ link' = "lost"
    /\ \/ outbox # <<>> /\ BrokerTakes(Head(outbox))
       \/ UNCHANGED <<status, accepted>>
    /\ UNCHANGED <<service, call, links, outbox, hellos, will, raced>>

\* The broker gives the client up and publishes its will.
WillFires ==
    /\ link = "lost" /\ will /\ will' = FALSE /\ status' = "offline"
    /\ UNCHANGED <<service, call, accepted, link, links, outbox, hellos, raced>>

\* If it has not done so yet, it may when the client takes its place again.
Reconnect ==
    /\ link = "lost" /\ phase # "gone" /\ links < MaxLinks
    /\ link' = "up" /\ links' = links + 1 /\ hellos' = hellos + 1
    /\ will' = TRUE /\ status' \in {status} \cup (IF will THEN {"offline"} ELSE {})
    /\ UNCHANGED <<service, call, accepted, outbox, raced>>

\* Mistake: the client disconnects and leaves the rest to the will.
BeginCloseSilently ==
    /\ phase = "idle"
    /\ phase' = (IF service = "MQTT" THEN "closing" ELSE "gone")
    /\ UNCHANGED <<service, alert, tried, attempt, pause, result, reply, asked,
                   accepted, mqtt>>

\* DisconnectMQTT; for another service the process is over.
BeginClose ==
    /\ phase = "idle"
    /\ \/ /\ service # "MQTT" /\ phase' = "gone" /\ UNCHANGED outbox
       \/ /\ service = "MQTT" /\ phase' = "closing"
          /\ outbox' = Append(outbox, "offline")
    /\ UNCHANGED <<service, alert, tried, attempt, pause, result, reply, asked,
                   accepted, link, links, hellos, will, status, raced>>

\* Mistake: the client goes without waiting for its last publication.
DisconnectAtOnce ==
    /\ phase = "closing" /\ phase' = "gone"
    /\ \/ link = "up" /\ link' = "closed" /\ will' = FALSE
       \/ link = "lost" /\ UNCHANGED <<link, will>>
    /\ outbox' = <<>> /\ hellos' = 0
    /\ UNCHANGED <<service, alert, tried, attempt, pause, result, reply, asked,
                   accepted, links, status, raced>>

\* A DISCONNECT follows what is on the link already and discards the will; a
\* client that is reconnecting gives up.
Disconnect ==
    /\ phase = "closing" /\ phase' = "gone"
    /\ \/ link = "up" /\ outbox = <<>> /\ link' = "closed" /\ will' = FALSE
       \/ link = "lost" /\ UNCHANGED <<link, will>>
    /\ outbox' = <<>> /\ hellos' = 0
    /\ UNCHANGED <<service, alert, tried, attempt, pause, result, reply, asked,
                   accepted, links, status, raced>>

\* The process dies with its connection open.
Killed ==
    /\ phase # "gone" /\ phase' = "gone"
    /\ link' = (IF link = "up" THEN "lost" ELSE link)
    /\ outbox' = <<>> /\ hellos' = 0
    /\ UNCHANGED <<service, alert, tried, attempt, pause, result, reply, asked,
                   accepted, links, will, status, raced>>

-----------------------------------------------------------------------------
\* What goes on inside a call.
InCall ==
    \/ PostAccepted \/ ReplyLost \/ PostRefused \/ PostLimited \/ Slept
    \/ PublishTimesOut \/ Disconnect

\* What goes on beside it: the client's goroutines, the network, the broker.
Beside == Hello \/ Publish \/ LinkFails \/ WillFires \/ Reconnect

NotifierNext ==
    \/ \E a \in Alert : BeginSend(a)
    \/ InCall \/ Beside \/ BeginClose \/ Killed

NotifierSpec == Init /\ [][NotifierNext]_notifierVars

-----------------------------------------------------------------------------
NotifierTypeOK ==
    /\ service \in Services
    /\ phase \in {"idle", "post", "sleep", "publish", "closing", "gone"}
    /\ alert \in Alert \cup {NoAlert} /\ tried \subseteq Alert
    /\ attempt \in 0 .. MaxRetries /\ pause \in Nat
    /\ result \in {"none", "sent", "error"}
    /\ reply \in {"none", "accepted", "lost", "refused", "limited"}
    /\ asked \in Hints \cup {Unreadable} /\ accepted \in [Alert -> Nat]
    /\ link \in {"none", "up", "lost", "closed"} /\ links \in Nat
    /\ outbox \in Seq(Alert \cup {"online", "offline"})
    /\ hellos \in Nat /\ will \in BOOLEAN /\ raced \in BOOLEAN
    /\ status \in {"none", "online", "offline"}

(***************************************************************************)
(* One call of SendNotification shows its alert to the users at most once: *)
(* it tries again only what the service has refused.  MQTT delivers it     *)
(* once more for each link that was lost with its acknowledgement.         *)
(***************************************************************************)
OncePerLink ==
    \A a \in Alert : accepted[a] <= IF service = "MQTT" THEN links ELSE 1

(***************************************************************************)
(* A call that returns no error has delivered its alert, but for "None".   *)
(***************************************************************************)
SentMeansAccepted ==
    result = "sent" /\ service # "None" => accepted[alert] > 0

(***************************************************************************)
(* A service that limits the rate and says for how long is tried again     *)
(* after that time, never before, until maxRetries attempts are made.      *)
(***************************************************************************)
RateLimitRespected ==
    reply = "limited" /\ service \in RateLimitAware =>
        \/ phase = "sleep" /\ 10 * pause >= asked
        \/ phase \in {"idle", "gone"} /\ attempt = MaxRetries
        \/ phase = "gone"

(***************************************************************************)
(* A connected MQTT client whose publications have all arrived is shown as *)
(* "online", whatever wills the broker has published in between.           *)
(***************************************************************************)
OnlineWhenSettled ==
    link = "up" /\ phase \notin {"closing", "gone"} /\ hellos = 0 /\ outbox = <<>> =>
        status = "online"

(***************************************************************************)
(* A process that is gone is shown as "offline", or the broker still holds *)
(* the will that says so; only a connection handler that ran while         *)
(* DisconnectMQTT was at work can leave it "online" for good.              *)
(***************************************************************************)
OfflineOrWilled ==
    service = "MQTT" /\ phase = "gone" /\ ~raced =>
        status = "offline" \/ (link = "lost" /\ will)

(***************************************************************************)
(* While the MQTT client is connected, the status topic comes to say       *)
(* "online", also after the broker has published the will of an earlier    *)
(* connection.                                                             *)
(***************************************************************************)
OnlineWhileConnected ==
    (link = "up" /\ phase \notin {"closing", "gone"}) ~>
        (status = "online" \/ link # "up" \/ phase \in {"closing", "gone"})

(***************************************************************************)
(* When the process is gone, stopped or killed, the status topic comes to  *)
(* say "offline" and stays so, unless a connection handler ran while       *)
(* DisconnectMQTT was at work.                                             *)
(***************************************************************************)
OfflineWhenGone ==
    (service = "MQTT" /\ phase = "gone") ~> (raced \/ [](status = "offline"))
=============================================================================
