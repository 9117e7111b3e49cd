--------------------------- MODULE NotifierProofs ---------------------------
(***************************************************************************)
(* What the notifier keeps at every step, for every service, any number of *)
(* alerts and retries and whatever a service may ask for: its types, that  *)
(* an alert goes out at most once per call, or per MQTT link, that success *)
(* means delivery, that a rate limit is respected, and what the MQTT       *)
(* status topic can say.                                                   *)
(***************************************************************************)
EXTENDS Notifier, SequenceTheorems, TLAPS

Messages == Alert \cup {"online", "offline"}

In(m, q) == \E i \in 1 .. Len(q) : q[i] = m

\* m is in q at most once.
OnceIn(m, q) == \A i, j \in 1 .. Len(q) : q[i] = m /\ q[j] = m => i = j

\* Only MQTT uses the connection; a call in progress has an alert.
Routes ==
    /\ service # "MQTT" =>
         link = "none" /\ outbox = <<>> /\ hellos = 0
         /\ phase \notin {"publish", "closing"}
    /\ service = "MQTT" => phase \notin {"post", "sleep"}
    /\ phase \in {"post", "sleep", "publish"} => alert \in tried
    /\ result = "sent" => alert \in tried

\* An alert that was not sent, or is being sent, has not been delivered.
Deliveries ==
    service # "MQTT" =>
        \A a \in Alert :
            /\ accepted[a] <= 1
            /\ a \notin tried \/ (phase \in {"post", "sleep"} /\ a = alert) =>
                 accepted[a] = 0

\* Each lost link may have delivered an alert that is still in the outbox; the
\* link that is up has not.
LinkDeliveries ==
    service = "MQTT" =>
        /\ links >= 1
        /\ \A a \in Alert :
             /\ accepted[a] <= links /\ OnceIn(a, outbox)
             /\ In(a, outbox) => a \in tried /\ (link = "up" => accepted[a] < links)
             /\ a \notin tried => accepted[a] = 0

\* "online" is on its way to whoever is shown otherwise, until "offline" is the
\* last thing said or the broker holds a will that says it.
Statuses ==
    service = "MQTT" =>
        /\ IF phase = "gone" THEN outbox = <<>> /\ link # "up" ELSE link \in {"up", "lost"}
        /\ link = "up" => will
        /\ link = "lost" => will \/ status = "offline"
        /\ phase \notin {"closing", "gone"} =>
             /\ ~In("offline", outbox)
             /\ link = "up" => status = "online" \/ hellos > 0 \/ In("online", outbox)
        /\ phase = "closing" /\ ~raced =>
             IF outbox = <<>> THEN status = "offline"
                              ELSE outbox[Len(outbox)] = "offline"
        /\ OfflineOrWilled

\* Where a call is in its loop, and why.
Attempts ==
    /\ phase = "post" => reply = "none" /\ attempt >= 1
    /\ phase = "sleep" => reply = "limited" /\ attempt >= 1

NotifierInv ==
    /\ NotifierTypeOK /\ Routes /\ Deliveries /\ LinkDeliveries /\ Attempts
    /\ Statuses /\ SentMeansAccepted /\ RateLimitRespected

(***************************************************************************)
(* The notifier starts in the invariant.                                   *)
(***************************************************************************)
LEMMA NotifierInitInv == Init => NotifierInv
<1> SUFFICES ASSUME Init PROVE NotifierInv
  OBVIOUS
<1>1. NotifierTypeOK
  <2>1. will \in BOOLEAN
    BY DEF Init
  <2>2. attempt \in 0 .. MaxRetries /\ links \in Nat /\ hellos \in Nat
    BY NotifierAssumption DEF Init
  <2>3. outbox \in Seq(Alert \cup {"online", "offline"})
    BY DEF Init
  <2>4. accepted \in [Alert -> Nat]
    BY DEF Init
  <2> QED
    BY <2>1, <2>2, <2>3, <2>4 DEF Init, NotifierTypeOK
<1>2. Routes /\ Deliveries /\ Attempts
  BY <1>1 DEF Init, Routes, Deliveries, Attempts
<1>3. SentMeansAccepted /\ RateLimitRespected
  BY DEF Init, SentMeansAccepted, RateLimitRespected
<1>4. LinkDeliveries /\ Statuses
  <2>1. outbox = <<>> /\ \A m : ~In(m, outbox) /\ OnceIn(m, outbox)
    BY DEF Init, In, OnceIn
  <2>2. LinkDeliveries
    BY <2>1 DEF Init, LinkDeliveries
  <2>3. service = "MQTT" => will /\ link = "up" /\ phase = "idle" /\ hellos = 1
    BY DEF Init
  <2>4. Statuses
    BY <2>1, <2>3 DEF Statuses, OfflineOrWilled
  <2> QED
    BY <2>2, <2>4
<1> QED
  BY <1>1, <1>2, <1>3, <1>4 DEF NotifierInv

(***************************************************************************)
(* A service that asks for a delay gets at least that, and some delay      *)
(* whatever it asks for; the others are never tried again.                 *)
(***************************************************************************)
LEMMA RetryAfterEnough ==
    ASSUME NEW hint \in Asks
    PROVE  /\ RetryAfter(hint) \in Nat
           /\ service \in RateLimitAware =>
                RetryAfter(hint) > 0 /\ 10 * RetryAfter(hint) >= hint
<1>1. hint \in Nat \/ hint = Unreadable
  BY NotifierAssumption DEF Asks
<1>2. hint \in Int /\ Unreadable = -1
  BY <1>1 DEF Unreadable
<1>3. CASE service = "Telegram" \/ service = "Ntfy"
  <2>1. hint > 0 => hint % 10 = 0
    BY <1>1, <1>3 DEF Asks, Unreadable
  <2>2. hint > 0 => hint \div 10 \in Nat /\ hint \div 10 > 0 /\ 10 * (hint \div 10) = hint
    BY <1>2, <2>1
  <2> QED
    BY <1>2, <1>3, <2>2 DEF RetryAfter, TelegramDelay, NtfyDelay
<1>4. CASE service = "Discord"
  <2>1. hint # Unreadable =>
          hint \div 10 + 1 \in Nat /\ hint \div 10 + 1 > 0
          /\ 10 * (hint \div 10 + 1) >= hint
    BY <1>1
  <2> QED
    BY <1>2, <1>4, <2>1 DEF RetryAfter, DiscordDelay
<1>5. CASE service \notin RateLimitAware
  BY <1>5 DEF RetryAfter, RateLimitAware
<1> QED
  BY <1>3, <1>4, <1>5 DEF RateLimitAware

(***************************************************************************)
(* What the broker takes leaves the status and the counts well typed, and  *)
(* counts never shrink.                                                    *)
(***************************************************************************)
LEMMA BrokerTakesType ==
    ASSUME NotifierTypeOK, outbox # <<>>, BrokerTakes(Head(outbox))
    PROVE  /\ status' \in {"none", "online", "offline"}
           /\ accepted' \in [Alert -> Nat]
           /\ \A a \in Alert : accepted'[a] >= accepted[a]
           /\ \A a \in Alert : Head(outbox) = a => accepted'[a] > 0
<1>1. Head(outbox) \in Messages
  BY DEF NotifierTypeOK, Messages
<1>2. accepted \in [Alert -> Nat]
  BY DEF NotifierTypeOK
<1>3. status' \in {"none", "online", "offline"}
  BY DEF BrokerTakes, NotifierTypeOK
<1>4. CASE Head(outbox) \in Alert
  BY <1>2, <1>3, <1>4 DEF BrokerTakes
<1>5. CASE Head(outbox) \notin Alert
  BY <1>2, <1>3, <1>5 DEF BrokerTakes
<1> QED
  BY <1>4, <1>5

(***************************************************************************)
(* Every step of the notifier, and none, keeps the types.                  *)
(***************************************************************************)
LEMMA NotifierTypeStep ==
    ASSUME NotifierInv, NotifierNext \/ UNCHANGED notifierVars
    PROVE  NotifierTypeOK'
<1> USE DEF NotifierTypeOK, call, mqtt
<1>0. NotifierTypeOK
  BY DEF NotifierInv
<1>1. ASSUME NEW a \in Alert, BeginSend(a) PROVE NotifierTypeOK'
  <2>1. 1 \in 0 .. MaxRetries
    BY NotifierAssumption
  <2> QED
    BY <1>0, <1>1, <2>1 DEF BeginSend
<1>2. CASE PostAccepted \/ ReplyLost
  <2>1. alert \in Alert
    BY <1>2 DEF NotifierInv, Routes, PostAccepted, ReplyLost
  <2>2. accepted' \in [Alert -> Nat]
    BY <1>0, <1>2, <2>1 DEF PostAccepted, ReplyLost, Taken
  <2> QED
    BY <1>0, <1>2, <2>2 DEF PostAccepted, ReplyLost, Return
<1>3. CASE PostRefused
  BY <1>0, <1>3 DEF PostRefused, Return
<1>4. CASE PostLimited
  <2>1. PICK hint \in Asks :
          /\ asked' = hint
          /\ \/ pause' = RetryAfter(hint) /\ phase' = "sleep"
                /\ UNCHANGED <<alert, tried, attempt, result>>
             \/ Return("error")
    BY <1>4 DEF PostLimited
  <2>2. RetryAfter(hint) \in Nat /\ hint \in Hints
    BY RetryAfterEnough DEF Asks
  <2> QED
    BY <1>0, <1>4, <2>1, <2>2 DEF PostLimited, Return
<1>5. CASE Slept
  <2>1. attempt' \in 0 .. MaxRetries
    BY <1>0, <1>5, NotifierAssumption DEF Slept, Return
  <2> QED
    BY <1>0, <1>5, <2>1 DEF Slept, Return
<1>6. CASE PublishTimesOut
  BY <1>0, <1>6 DEF PublishTimesOut, Return
<1>7. CASE Disconnect
  <2>1. will' \in BOOLEAN /\ link' \in {"none", "up", "lost", "closed"}
    BY <1>0, <1>7 DEF Disconnect
  <2>2. outbox' \in Seq(Alert \cup {"online", "offline"}) /\ hellos' \in Nat
    BY <1>7 DEF Disconnect
  <2> QED
    BY <1>0, <1>7, <2>1, <2>2 DEF Disconnect
<1>8. CASE Hello
  <2>1. raced' \in BOOLEAN
    BY <1>0, <1>8 DEF Hello
  <2>2. outbox' \in Seq(Alert \cup {"online", "offline"})
    <3>1. CASE outbox' = Append(outbox, "online")
      BY <1>0, <3>1
    <3>2. CASE outbox' = <<"online">> \o outbox
      <4>1. <<"online">> \in Seq(Alert \cup {"online", "offline"})
        OBVIOUS
      <4> QED
        BY <1>0, <3>2, <4>1, ConcatProperties
    <3> QED
      BY <1>8, <3>1, <3>2 DEF Hello
  <2> QED
    BY <1>0, <1>8, <2>1, <2>2 DEF Hello
<1>9. CASE Publish
  <2>1. outbox' \in Seq(Alert \cup {"online", "offline"})
    BY <1>0, <1>9 DEF Publish
  <2>2. /\ status' \in {"none", "online", "offline"}
        /\ accepted' \in [Alert -> Nat]
    BY <1>0, <1>9, BrokerTakesType DEF Publish
  <2> QED
    BY <1>0, <1>9, <2>1, <2>2 DEF Publish, Return
<1>10. CASE LinkFails
  <2>1. /\ status' \in {"none", "online", "offline"}
        /\ accepted' \in [Alert -> Nat]
    BY <1>0, <1>10, BrokerTakesType DEF LinkFails
  <2> QED
    BY <1>0, <1>10, <2>1 DEF LinkFails
<1>11. CASE WillFires
  BY <1>0, <1>11 DEF WillFires
<1>12. CASE Reconnect
  BY <1>0, <1>12 DEF Reconnect
<1>13. CASE BeginClose
  BY <1>0, <1>13 DEF BeginClose
<1>14. CASE Killed
  BY <1>0, <1>14 DEF Killed
<1>15. CASE UNCHANGED notifierVars
  BY <1>0, <1>15 DEF notifierVars
<1> QED
  BY <1>1, <1>2, <1>3, <1>4, <1>5, <1>6, <1>7, <1>8, <1>9, <1>10, <1>11,
     <1>12, <1>13, <1>14, <1>15
  DEF NotifierNext, InCall, Beside

(***************************************************************************)
(* Every step keeps to the routes: HTTP leaves the connection alone, MQTT  *)
(* never posts, and a call in progress has an alert.                       *)
(***************************************************************************)
LEMMA RoutesStep ==
    ASSUME NotifierInv, NotifierNext \/ UNCHANGED notifierVars
    PROVE  Routes'
<1> USE DEF Routes, call, mqtt
<1>0. Routes
  BY DEF NotifierInv
<1>1. ASSUME NEW a \in Alert, BeginSend(a) PROVE Routes'
  BY <1>0, <1>1 DEF BeginSend
<1>2. CASE PostAccepted \/ ReplyLost \/ PostRefused
  BY <1>0, <1>2 DEF PostAccepted, ReplyLost, PostRefused, Return
<1>3. CASE PostLimited
  BY <1>0, <1>3 DEF PostLimited, Return
<1>4. CASE Slept
  BY <1>0, <1>4 DEF Slept, Return
<1>5. CASE PublishTimesOut
  BY <1>0, <1>5 DEF PublishTimesOut, Return
<1>6. CASE Disconnect
  BY <1>0, <1>6 DEF Disconnect
<1>7. CASE Hello
  <2>1. service = "MQTT"
    BY <1>0, <1>7 DEF Hello
  <2> QED
    BY <1>0, <1>7, <2>1 DEF Hello
<1>8. CASE Publish
  BY <1>0, <1>8 DEF Publish, Return
<1>9. CASE LinkFails \/ WillFires \/ Reconnect
  BY <1>0, <1>9 DEF LinkFails, WillFires, Reconnect
<1>10. CASE BeginClose
  BY <1>0, <1>10 DEF BeginClose
<1>11. CASE Killed
  BY <1>0, <1>11 DEF Killed
<1>12. CASE UNCHANGED notifierVars
  BY <1>0, <1>12 DEF notifierVars
<1> QED
  BY <1>1, <1>2, <1>3, <1>4, <1>5, <1>6, <1>7, <1>8, <1>9, <1>10, <1>11, <1>12
  DEF NotifierNext, InCall, Beside

(***************************************************************************)
(* Every step keeps deliveries to one for each call: the two steps that    *)
(* deliver also end the call, and a limited attempt delivers nothing.      *)
(***************************************************************************)
LEMMA DeliveriesStep ==
    ASSUME NotifierInv, NotifierNext \/ UNCHANGED notifierVars
    PROVE  Deliveries'
<1> USE DEF Deliveries, call, mqtt
<1>0. Deliveries /\ Routes /\ NotifierTypeOK
  BY DEF NotifierInv
<1>1. ASSUME NEW a \in Alert, BeginSend(a) PROVE Deliveries'
  BY <1>0, <1>1 DEF BeginSend
<1>2. CASE PostAccepted \/ ReplyLost
  <2>1. alert \in tried /\ accepted \in [Alert -> Nat]
    BY <1>0, <1>2 DEF Routes, PostAccepted, ReplyLost, NotifierTypeOK
  <2>2. accepted' = [accepted EXCEPT ![alert] = @ + 1] /\ phase = "post"
        /\ phase' = "idle" /\ UNCHANGED <<service, alert, tried>>
    BY <1>2 DEF PostAccepted, ReplyLost, Taken, Return
  <2> QED
    BY <1>0, <2>1, <2>2
<1>3. CASE PostRefused \/ PostLimited
  BY <1>0, <1>3 DEF PostRefused, PostLimited, Return
<1>4. CASE Slept
  BY <1>0, <1>4 DEF Slept, Return
<1>5. CASE PublishTimesOut \/ Disconnect \/ Hello
  BY <1>0, <1>5 DEF PublishTimesOut, Disconnect, Hello, Return
<1>6. CASE Publish \/ LinkFails
  BY <1>0, <1>6 DEF Publish, LinkFails, Routes
<1>7. CASE WillFires \/ Reconnect \/ BeginClose \/ Killed
  BY <1>0, <1>7 DEF WillFires, Reconnect, BeginClose, Killed
<1>8. CASE UNCHANGED notifierVars
  BY <1>0, <1>8 DEF notifierVars
<1> QED
  BY <1>1, <1>2, <1>3, <1>4, <1>5, <1>6, <1>7, <1>8
  DEF NotifierNext, InCall, Beside

(***************************************************************************)
(* What the client's outbox holds after a publication was added to it.     *)
(***************************************************************************)
LEMMA InAppended ==
    ASSUME NEW q \in Seq(Messages), NEW m, NEW x \in Messages
    PROVE  /\ In(m, Append(q, x)) <=> In(m, q) \/ m = x
           /\ OnceIn(m, q) /\ (In(m, q) => m # x) => OnceIn(m, Append(q, x))
           /\ Append(q, x) # <<>> /\ Append(q, x)[Len(Append(q, x))] = x
<1>1. /\ Len(Append(q, x)) = Len(q) + 1 /\ Len(q) \in Nat
      /\ \A i \in 1 .. Len(q) : Append(q, x)[i] = q[i]
      /\ Append(q, x)[Len(q) + 1] = x
  BY AppendProperties
<1>2. 1 .. Len(Append(q, x)) = 1 .. Len(q) \cup {Len(q) + 1}
  BY <1>1
<1>3. In(m, Append(q, x)) <=> In(m, q) \/ m = x
  BY <1>1, <1>2, Zenon DEF In
<1>4. ASSUME OnceIn(m, q), In(m, q) => m # x PROVE OnceIn(m, Append(q, x))
  <2> SUFFICES ASSUME NEW i \in 1 .. Len(Append(q, x)),
                      NEW j \in 1 .. Len(Append(q, x)),
                      Append(q, x)[i] = m, Append(q, x)[j] = m
               PROVE  i = j
    BY DEF OnceIn
  <2> QED
    BY <1>1, <1>2, <1>4 DEF In, OnceIn
<1> QED
  BY <1>1, <1>3, <1>4

(***************************************************************************)
(* What it holds after one was put in front of the others.                 *)
(***************************************************************************)
LEMMA InPrepended ==
    ASSUME NEW q \in Seq(Messages), NEW m, NEW x \in Messages
    PROVE  /\ In(m, <<x>> \o q) <=> In(m, q) \/ m = x
           /\ OnceIn(m, q) /\ m # x => OnceIn(m, <<x>> \o q)
           /\ q # <<>> => (<<x>> \o q)[Len(<<x>> \o q)] = q[Len(q)]
<1> DEFINE p == <<x>> \o q
<1>1. /\ Len(p) = Len(q) + 1 /\ Len(q) \in Nat /\ p[1] = x
      /\ \A i \in 2 .. Len(p) : p[i] = q[i - 1]
  OBVIOUS
<1>2. \A i \in 1 .. Len(q) : i + 1 \in 2 .. Len(p) /\ p[i + 1] = q[i]
  BY <1>1
<1>3. 1 \in 1 .. Len(p) /\ \A i \in 1 .. Len(p) : i = 1 \/ (i \in 2 .. Len(p) /\ i - 1 \in 1 .. Len(q))
  BY <1>1
<1> HIDE DEF p
<1>4. In(m, p) <=> In(m, q) \/ m = x
  <2>1. In(m, p) => In(m, q) \/ m = x
    BY <1>1, <1>3 DEF In
  <2>2. In(m, q) => In(m, p)
    <3>1. SUFFICES ASSUME NEW i \in 1 .. Len(q), q[i] = m PROVE In(m, p)
      BY DEF In
    <3>2. i + 1 \in 1 .. Len(p) /\ p[i + 1] = m
      BY <1>1, <1>2, <3>1
    <3> QED
      BY <3>2 DEF In
  <2>3. m = x => In(m, p)
    BY <1>1, <1>3 DEF In
  <2> QED
    BY <2>1, <2>2, <2>3
<1>5. ASSUME OnceIn(m, q), m # x PROVE OnceIn(m, p)
  <2> SUFFICES ASSUME NEW i \in 1 .. Len(p), NEW j \in 1 .. Len(p), p[i] = m, p[j] = m
               PROVE  i = j
    BY DEF OnceIn
  <2>1. i - 1 \in 1 .. Len(q) /\ j - 1 \in 1 .. Len(q) /\ q[i - 1] = m /\ q[j - 1] = m
    BY <1>1, <1>3, <1>5
  <2>2. i - 1 = j - 1
    BY <1>5, <2>1 DEF OnceIn
  <2> QED
    BY <2>2
<1>6. q # <<>> => p[Len(p)] = q[Len(q)]
  <2>1. q # <<>> => Len(q) \in 1 .. Len(q)
    BY <1>1
  <2> QED
    BY <1>1, <1>2, <2>1
<1> QED
  BY <1>4, <1>5, <1>6 DEF p

(***************************************************************************)
(* What it holds after the first one was taken from it.                    *)
(***************************************************************************)
LEMMA InTaken ==
    ASSUME NEW q \in Seq(Messages), q # <<>>, NEW m
    PROVE  /\ In(m, q) <=> In(m, Tail(q)) \/ m = Head(q)
           /\ OnceIn(m, q) => OnceIn(m, Tail(q)) /\ (In(m, Tail(q)) => m # Head(q))
           /\ Tail(q) = <<>> => q[Len(q)] = Head(q)
           /\ Tail(q) # <<>> => Tail(q)[Len(Tail(q))] = q[Len(q)]
<1> DEFINE p == Tail(q)
<1>1. /\ Len(q) \in Nat \ {0} /\ Len(p) = Len(q) - 1 /\ Head(q) = q[1]
      /\ p \in Seq(Messages) /\ \A i \in 1 .. Len(p) : p[i] = q[i + 1]
  BY HeadTailProperties
<1>2. \A i \in 1 .. Len(p) : i + 1 \in 1 .. Len(q) /\ i + 1 # 1
  BY <1>1
<1>3. 1 \in 1 .. Len(q) /\ \A i \in 1 .. Len(q) : i = 1 \/ (i - 1 \in 1 .. Len(p) /\ q[i] = p[i - 1])
  BY <1>1
<1>4. Len(p) = 0 <=> p = <<>>
  BY <1>1, EmptySeq
<1> HIDE DEF p
<1>5. In(m, q) <=> In(m, p) \/ m = Head(q)
  <2>1. In(m, q) => In(m, p) \/ m = Head(q)
    BY <1>1, <1>3 DEF In
  <2>2. In(m, p) => In(m, q)
    BY <1>1, <1>2 DEF In
  <2>3. m = Head(q) => In(m, q)
    BY <1>1, <1>3 DEF In
  <2> QED
    BY <2>1, <2>2, <2>3
<1>6. ASSUME OnceIn(m, q) PROVE OnceIn(m, p) /\ (In(m, p) => m # Head(q))
  <2>1. ASSUME NEW i \in 1 .. Len(p), NEW j \in 1 .. Len(p), p[i] = m, p[j] = m PROVE i = j
    <3>1. q[i + 1] = m /\ q[j + 1] = m
      BY <1>1, <2>1
    <3>2. i + 1 = j + 1
      BY <1>2, <1>6, <3>1 DEF OnceIn
    <3> QED
      BY <3>2
  <2>2. ASSUME NEW i \in 1 .. Len(p), p[i] = m PROVE m # Head(q)
    BY <1>1, <1>2, <1>3, <1>6, <2>2 DEF OnceIn
  <2> QED
    BY <2>1, <2>2 DEF In, OnceIn
<1>7. p = <<>> => q[Len(q)] = Head(q)
  <2>1. p = <<>> => Len(q) = 1
    BY <1>1, <1>4
  <2> QED
    BY <1>1, <2>1
<1>8. p # <<>> => p[Len(p)] = q[Len(q)]
  BY <1>1, <1>4
<1> QED
  BY <1>5, <1>6, <1>7, <1>8 DEF p

(***************************************************************************)
(* What the broker takes counts once for an alert, and sets the status to  *)
(* what it says.                                                           *)
(***************************************************************************)
LEMMA BrokerTakesEffect ==
    ASSUME NotifierTypeOK, outbox # <<>>, BrokerTakes(Head(outbox))
    PROVE  /\ \A a \in Alert :
                accepted'[a] = IF a = Head(outbox) THEN accepted[a] + 1 ELSE accepted[a]
           /\ Head(outbox) \in {"online", "offline"} => status' = Head(outbox)
           /\ Head(outbox) \notin {"online", "offline"} => status' = status
<1>1. accepted \in [Alert -> Nat]
  BY DEF NotifierTypeOK
<1> QED
  BY <1>1 DEF BrokerTakes

(***************************************************************************)
(* Every step keeps the deliveries of an MQTT alert to one for each link:  *)
(* it waits in the outbox once, and stays there only if the link is lost.  *)
(***************************************************************************)
LEMMA LinkDeliveriesStep ==
    ASSUME NotifierInv, NotifierNext \/ UNCHANGED notifierVars
    PROVE  LinkDeliveries'
<1> USE DEF call, mqtt
<1>0. LinkDeliveries /\ Routes /\ NotifierTypeOK
  BY DEF NotifierInv
<1>a. /\ outbox \in Seq(Messages) /\ accepted \in [Alert -> Nat] /\ links \in Nat
      /\ "online" \in Messages /\ Alert \subseteq Messages
  BY <1>0 DEF NotifierTypeOK, Messages
<1>b. \A a \in Alert : a # "online" /\ a # "offline"
  BY NotifierAssumption
<1>1. ASSUME NEW a \in Alert, BeginSend(a) PROVE LinkDeliveries'
  <2> SUFFICES ASSUME service = "MQTT" PROVE LinkDeliveries'
    BY <1>1 DEF BeginSend, LinkDeliveries
  <2>1. /\ outbox' = Append(outbox, a) /\ tried' = tried \cup {a} /\ a \notin tried
        /\ UNCHANGED <<service, accepted, link, links>>
    BY <1>1 DEF BeginSend
  <2>2. \A b \in Alert :
          /\ In(b, outbox') <=> In(b, outbox) \/ b = a
          /\ OnceIn(b, outbox) /\ (In(b, outbox) => b # a) => OnceIn(b, outbox')
    BY <1>a, <2>1, InAppended
  <2> QED
    BY <1>0, <1>a, <2>1, <2>2 DEF LinkDeliveries
<1>2. CASE PostAccepted \/ ReplyLost \/ PostRefused \/ PostLimited \/ Slept
  BY <1>0, <1>2
  DEF Routes, LinkDeliveries, PostAccepted, ReplyLost, PostRefused, PostLimited, Slept,
      Return
<1>3. CASE PublishTimesOut
  BY <1>0, <1>3 DEF PublishTimesOut, Return, LinkDeliveries
<1>4. CASE Disconnect \/ Killed
  <2>1. /\ outbox' = <<>> /\ UNCHANGED <<service, tried, accepted, links>>
    BY <1>4 DEF Disconnect, Killed
  <2>2. \A a \in Alert : ~In(a, outbox') /\ OnceIn(a, outbox')
    BY <2>1 DEF In, OnceIn
  <2> QED
    BY <1>0, <2>1, <2>2 DEF LinkDeliveries
<1>5. CASE Hello \/ BeginClose
  <2>1. /\ UNCHANGED <<service, tried, accepted, link, links>>
    BY <1>5 DEF Hello, BeginClose
  <2>2. \/ outbox' = outbox
        \/ outbox' = Append(outbox, "online") \/ outbox' = Append(outbox, "offline")
        \/ outbox' = <<"online">> \o outbox
    BY <1>5 DEF Hello, BeginClose
  <2>3. \A a \in Alert :
          /\ In(a, outbox') <=> In(a, outbox)
          /\ OnceIn(a, outbox) => OnceIn(a, outbox')
    <3>1. "offline" \in Messages
      BY DEF Messages
    <3>2. CASE outbox' = outbox
      BY <3>2
    <3>3. ASSUME NEW m \in {"online", "offline"}, outbox' = Append(outbox, m), NEW a \in Alert
          PROVE  /\ In(a, outbox') <=> In(a, outbox)
                 /\ OnceIn(a, outbox) => OnceIn(a, outbox')
      <4>1. m \in Messages /\ a # m
        BY <1>a, <1>b, <3>1
      <4> QED
        BY <1>a, <3>3, <4>1, InAppended
    <3>4. ASSUME outbox' = <<"online">> \o outbox, NEW a \in Alert
          PROVE  /\ In(a, outbox') <=> In(a, outbox)
                 /\ OnceIn(a, outbox) => OnceIn(a, outbox')
      <4>1. a # "online"
        BY <1>b
      <4> QED
        BY <1>a, <3>4, <4>1, InPrepended
    <3> QED
      BY <2>2, <3>2, <3>3, <3>4
  <2> QED
    BY <1>0, <2>1, <2>3 DEF LinkDeliveries
<1>6. CASE Publish
  <2>1. /\ outbox # <<>> /\ outbox' = Tail(outbox) /\ link = "up"
        /\ BrokerTakes(Head(outbox)) /\ UNCHANGED <<service, tried, link, links>>
    BY <1>6 DEF Publish, Return
  <2>2. \A a \in Alert :
          accepted'[a] = IF a = Head(outbox) THEN accepted[a] + 1 ELSE accepted[a]
    BY <1>0, <2>1, BrokerTakesEffect
  <2>3. \A a \in Alert :
          /\ In(a, outbox) <=> In(a, outbox') \/ a = Head(outbox)
          /\ OnceIn(a, outbox) => OnceIn(a, outbox') /\ (In(a, outbox') => a # Head(outbox))
    BY <1>a, <2>1, InTaken
  <2> QED
    BY <1>0, <1>a, <2>1, <2>2, <2>3 DEF LinkDeliveries
<1>7. CASE LinkFails
  <2>1. link = "up" /\ link' = "lost" /\ UNCHANGED <<service, tried, outbox, links>>
    BY <1>7 DEF LinkFails
  <2>2. \A a \in Alert :
          accepted'[a] = accepted[a] \/ (accepted'[a] = accepted[a] + 1 /\ In(a, outbox))
    <3>1. CASE outbox # <<>> /\ BrokerTakes(Head(outbox))
      <4>1. \A a \in Alert :
              accepted'[a] = IF a = Head(outbox) THEN accepted[a] + 1 ELSE accepted[a]
        BY <1>0, <3>1, BrokerTakesEffect
      <4>2. \A a \in Alert : a = Head(outbox) => In(a, outbox)
        BY <1>a, <3>1, InTaken
      <4> QED
        BY <4>1, <4>2
    <3> QED
      BY <1>7, <3>1 DEF LinkFails
  <2> QED
    BY <1>0, <1>a, <2>1, <2>2 DEF LinkDeliveries
<1>8. CASE WillFires \/ Reconnect
  <2>1. /\ UNCHANGED <<service, tried, outbox, accepted>>
        /\ \/ link' = link /\ links' = links
           \/ links' = links + 1
    BY <1>8 DEF WillFires, Reconnect
  <2> QED
    BY <1>0, <1>a, <2>1 DEF LinkDeliveries
<1>9. CASE UNCHANGED notifierVars
  BY <1>0, <1>9 DEF notifierVars, LinkDeliveries
<1> QED
  BY <1>1, <1>2, <1>3, <1>4, <1>5, <1>6, <1>7, <1>8, <1>9
  DEF NotifierNext, InCall, Beside

(***************************************************************************)
(* Every step keeps the status topic on its way to the truth: a new link   *)
(* brings a handler and its will, the handler brings an "online", and the  *)
(* "offline" of a clean stop stays last unless a handler runs beside it.   *)
(***************************************************************************)
LEMMA StatusesStep ==
    ASSUME NotifierInv, NotifierNext \/ UNCHANGED notifierVars
    PROVE  Statuses'
<1> USE DEF call, mqtt
<1>0. Statuses /\ Routes /\ NotifierTypeOK
  BY DEF NotifierInv
<1>a. /\ outbox \in Seq(Messages) /\ hellos \in Nat
      /\ {"online", "offline"} \subseteq Messages /\ Alert \subseteq Messages
  BY <1>0 DEF NotifierTypeOK, Messages
<1>b. \A a \in Alert : a # "online" /\ a # "offline"
  BY NotifierAssumption
<1>1. ASSUME NEW a \in Alert, BeginSend(a) PROVE Statuses'
  <2> SUFFICES ASSUME service = "MQTT" PROVE Statuses'
    BY <1>1 DEF BeginSend, Statuses
  <2>1. /\ outbox' = Append(outbox, a) /\ phase = "idle" /\ phase' = "publish"
        /\ UNCHANGED <<service, link, hellos, will, status, raced>>
    BY <1>1 DEF BeginSend
  <2>2. \A m \in {"online", "offline"} : In(m, outbox') <=> In(m, outbox)
    BY <1>a, <1>b, <2>1, InAppended
  <2> QED
    BY <1>0, <2>1, <2>2 DEF Statuses, OfflineOrWilled
<1>2. CASE PostAccepted \/ ReplyLost \/ PostRefused \/ PostLimited \/ Slept
  BY <1>0, <1>2
  DEF Routes, Statuses, PostAccepted, ReplyLost, PostRefused, PostLimited, Slept,
      Return
<1>3. CASE PublishTimesOut
  BY <1>0, <1>3 DEF PublishTimesOut, Return, Statuses, OfflineOrWilled
<1>4. CASE Disconnect
  <2>1. /\ phase = "closing" /\ phase' = "gone" /\ outbox' = <<>>
        /\ UNCHANGED <<service, status, raced>>
        /\ \/ link = "up" /\ outbox = <<>> /\ link' = "closed" /\ will' = FALSE
           \/ link = "lost" /\ UNCHANGED <<link, will>>
    BY <1>4 DEF Disconnect
  <2> QED
    BY <1>0, <2>1 DEF Statuses, OfflineOrWilled
<1>5. CASE Killed
  <2>1. /\ phase # "gone" /\ phase' = "gone" /\ outbox' = <<>>
        /\ link' = (IF link = "up" THEN "lost" ELSE link)
        /\ UNCHANGED <<service, will, status>>
    BY <1>5 DEF Killed
  <2>2. service = "MQTT" => link' = "lost" /\ (will \/ status = "offline")
    BY <1>0, <2>1 DEF Statuses
  <2> QED
    BY <2>1, <2>2 DEF Statuses, OfflineOrWilled
<1>6. CASE Hello
  <2>1. /\ phase # "gone" /\ raced' = (raced \/ phase = "closing")
        /\ UNCHANGED <<service, phase, link, will, status>>
        /\ outbox' = Append(outbox, "online") \/ outbox' = <<"online">> \o outbox
    BY <1>6 DEF Hello
  <2>2. /\ In("online", outbox')
        /\ In("offline", outbox') <=> In("offline", outbox)
    <3>1. CASE outbox' = Append(outbox, "online")
      BY <1>a, <3>1, InAppended
    <3>2. CASE outbox' = <<"online">> \o outbox
      BY <1>a, <3>2, InPrepended
    <3> QED
      BY <2>1, <3>1, <3>2
  <2> QED
    BY <1>0, <2>1, <2>2 DEF Statuses, OfflineOrWilled
<1>7. CASE BeginClose
  <2> SUFFICES ASSUME service = "MQTT" PROVE Statuses'
    BY <1>7 DEF BeginClose, Statuses
  <2>1. /\ outbox' = Append(outbox, "offline") /\ phase = "idle" /\ phase' = "closing"
        /\ UNCHANGED <<service, link, will, status, raced>>
    BY <1>7 DEF BeginClose
  <2>2. outbox' # <<>> /\ outbox'[Len(outbox')] = "offline"
    BY <1>a, <2>1, InAppended
  <2> QED
    BY <1>0, <2>1, <2>2 DEF Statuses, OfflineOrWilled
<1>8. CASE Publish
  <2>1. /\ outbox # <<>> /\ outbox' = Tail(outbox) /\ link = "up"
        /\ BrokerTakes(Head(outbox)) /\ UNCHANGED <<service, link, hellos, will, raced>>
        /\ \/ phase' = phase
           \/ phase = "publish" /\ phase' = "idle"
    BY <1>8 DEF Publish, Return
  <2>2. /\ Head(outbox) \in {"online", "offline"} => status' = Head(outbox)
        /\ Head(outbox) \notin {"online", "offline"} => status' = status
    BY <1>0, <2>1, BrokerTakesEffect
  <2>3. /\ \A m : In(m, outbox) <=> In(m, outbox') \/ m = Head(outbox)
        /\ outbox' = <<>> => outbox[Len(outbox)] = Head(outbox)
        /\ outbox' # <<>> => outbox'[Len(outbox')] = outbox[Len(outbox)]
    BY <1>a, <2>1, InTaken
  <2>4. phase # "gone" \/ service # "MQTT"
    BY <1>0, <2>1 DEF Statuses
  <2>5. phase \notin {"closing", "gone"} /\ service = "MQTT" =>
          /\ ~In("offline", outbox')
          /\ status' = "online" \/ hellos' > 0 \/ In("online", outbox')
    <3>1. SUFFICES ASSUME phase \notin {"closing", "gone"}, service = "MQTT"
                   PROVE  /\ ~In("offline", outbox')
                          /\ status' = "online" \/ hellos' > 0 \/ In("online", outbox')
      OBVIOUS
    <3>2. /\ ~In("offline", outbox)
          /\ status = "online" \/ hellos > 0 \/ In("online", outbox)
      BY <1>0, <2>1, <3>1 DEF Statuses
    <3>3. Head(outbox) # "offline" /\ ~In("offline", outbox')
      BY <2>3, <3>2
    <3> QED
      BY <2>1, <2>2, <2>3, <3>2, <3>3
  <2>6. phase = "closing" /\ ~raced /\ service = "MQTT" =>
          IF outbox' = <<>> THEN status' = "offline" ELSE outbox'[Len(outbox')] = "offline"
    <3>1. phase = "closing" /\ ~raced /\ service = "MQTT" => outbox[Len(outbox)] = "offline"
      BY <1>0, <2>1 DEF Statuses
    <3> QED
      BY <2>2, <2>3, <3>1
  <2> QED
    BY <1>0, <2>1, <2>4, <2>5, <2>6 DEF Statuses, OfflineOrWilled
<1>9. CASE LinkFails
  <2>1. link = "up" /\ link' = "lost" /\ phase # "gone"
        /\ UNCHANGED <<service, phase, outbox, will, raced>>
    BY <1>9 DEF LinkFails
  <2>2. outbox = <<>> => status' = status
    BY <1>9 DEF LinkFails
  <2> QED
    BY <1>0, <2>1, <2>2 DEF Statuses, OfflineOrWilled
<1>10. CASE WillFires
  BY <1>0, <1>10 DEF WillFires, Statuses, OfflineOrWilled
<1>11. CASE Reconnect
  <2>1. /\ link = "lost" /\ link' = "up" /\ phase # "gone" /\ hellos' > 0 /\ will'
        /\ UNCHANGED <<service, phase, outbox, raced>>
        /\ status' = status \/ status' = "offline"
    BY <1>a, <1>11 DEF Reconnect
  <2> QED
    BY <1>0, <2>1 DEF Statuses, OfflineOrWilled
<1>12. CASE UNCHANGED notifierVars
  BY <1>0, <1>12 DEF notifierVars, Statuses, OfflineOrWilled
<1> QED
  BY <1>1, <1>2, <1>3, <1>4, <1>5, <1>6, <1>7, <1>8, <1>9, <1>10, <1>11, <1>12
  DEF NotifierNext, InCall, Beside

(***************************************************************************)
(* Every step leaves a call that is posting without a reply, and one that  *)
(* sleeps with a rate limit.                                               *)
(***************************************************************************)
LEMMA AttemptsStep ==
    ASSUME NotifierInv, NotifierNext \/ UNCHANGED notifierVars
    PROVE  Attempts'
<1> USE DEF Attempts, call, mqtt
<1>0. Attempts /\ NotifierTypeOK
  BY DEF NotifierInv
<1>1. ASSUME NEW a \in Alert, BeginSend(a) PROVE Attempts'
  BY <1>0, <1>1 DEF BeginSend
<1>2. CASE PostAccepted \/ ReplyLost \/ PostRefused
  BY <1>0, <1>2 DEF PostAccepted, ReplyLost, PostRefused, Return
<1>3. CASE PostLimited
  BY <1>0, <1>3 DEF PostLimited, Return
<1>4. CASE Slept
  <2>1. attempt \in Nat
    BY <1>0, NotifierAssumption DEF NotifierTypeOK
  <2> QED
    BY <1>0, <1>4, <2>1 DEF Slept, Return
<1>5. CASE PublishTimesOut \/ Disconnect \/ Hello
  BY <1>0, <1>5 DEF PublishTimesOut, Disconnect, Hello, Return
<1>6. CASE Publish \/ LinkFails
  BY <1>0, <1>6 DEF Publish, LinkFails, Return
<1>7. CASE WillFires \/ Reconnect \/ BeginClose \/ Killed
  BY <1>0, <1>7 DEF WillFires, Reconnect, BeginClose, Killed
<1>8. CASE UNCHANGED notifierVars
  BY <1>0, <1>8 DEF notifierVars
<1> QED
  BY <1>1, <1>2, <1>3, <1>4, <1>5, <1>6, <1>7, <1>8
  DEF NotifierNext, InCall, Beside

(***************************************************************************)
(* Every step keeps success true: it is returned with the delivery, and    *)
(* deliveries are not taken back.                                          *)
(***************************************************************************)
LEMMA SentStep ==
    ASSUME NotifierInv, NotifierNext \/ UNCHANGED notifierVars
    PROVE  SentMeansAccepted'
<1> USE DEF SentMeansAccepted, call, mqtt
<1>0. SentMeansAccepted /\ Routes /\ NotifierTypeOK
  BY DEF NotifierInv
<1>1. ASSUME NEW a \in Alert, BeginSend(a) PROVE SentMeansAccepted'
  BY <1>0, <1>1 DEF BeginSend
<1>2. CASE PostAccepted \/ ReplyLost
  <2>1. alert \in Alert /\ accepted \in [Alert -> Nat]
    BY <1>0, <1>2 DEF Routes, PostAccepted, ReplyLost, NotifierTypeOK
  <2>2. accepted'[alert] > 0 /\ alert' = alert
    BY <1>2, <2>1 DEF PostAccepted, ReplyLost, Taken, Return
  <2> QED
    BY <2>2
<1>3. CASE PostRefused \/ PostLimited
  BY <1>0, <1>3 DEF PostRefused, PostLimited, Return
<1>4. CASE Slept
  BY <1>0, <1>4 DEF Slept, Return
<1>5. CASE PublishTimesOut \/ Disconnect \/ Hello
  BY <1>0, <1>5 DEF PublishTimesOut, Disconnect, Hello, Return
<1>6. CASE Publish
  <2>1. /\ \A a \in Alert : accepted'[a] >= accepted[a]
        /\ \A a \in Alert : Head(outbox) = a => accepted'[a] > 0
    BY <1>0, <1>6, BrokerTakesType DEF Publish
  <2>2. accepted \in [Alert -> Nat] /\ accepted' \in [Alert -> Nat]
    BY <1>0, <1>6, BrokerTakesType DEF Publish, NotifierTypeOK
  <2>3. (phase = "publish" \/ result = "sent") => alert \in Alert
    BY <1>0 DEF Routes, NotifierTypeOK
  <2>4. alert' = alert /\ service' = service
    BY <1>6 DEF Publish, Return
  <2>5. CASE phase = "publish" /\ Head(outbox) = alert
    BY <2>1, <2>3, <2>4, <2>5
  <2>6. CASE ~(phase = "publish" /\ Head(outbox) = alert)
    <3>1. result' = result
      BY <1>6, <2>6 DEF Publish
    <3> QED
      BY <1>0, <2>1, <2>2, <2>3, <2>4, <3>1
  <2> QED
    BY <2>5, <2>6
<1>7. CASE LinkFails
  <2>1. CASE accepted' = accepted
    BY <1>0, <1>7, <2>1 DEF LinkFails
  <2>2. CASE outbox # <<>> /\ BrokerTakes(Head(outbox))
    <3>1. /\ \A a \in Alert : accepted'[a] >= accepted[a]
          /\ accepted \in [Alert -> Nat] /\ accepted' \in [Alert -> Nat]
      BY <1>0, <2>2, BrokerTakesType DEF NotifierTypeOK
    <3>2. result = "sent" => alert \in Alert
      BY <1>0 DEF Routes, NotifierTypeOK
    <3> QED
      BY <1>0, <1>7, <3>1, <3>2 DEF LinkFails
  <2> QED
    BY <1>7, <2>1, <2>2 DEF LinkFails
<1>8. CASE WillFires \/ Reconnect \/ BeginClose \/ Killed
  BY <1>0, <1>8 DEF WillFires, Reconnect, BeginClose, Killed
<1>9. CASE UNCHANGED notifierVars
  BY <1>0, <1>9 DEF notifierVars
<1> QED
  BY <1>1, <1>2, <1>3, <1>4, <1>5, <1>6, <1>7, <1>8, <1>9
  DEF NotifierNext, InCall, Beside

(***************************************************************************)
(* Every step respects the rate limit: a limited attempt sleeps for long   *)
(* enough, and the call ends without success only after the last one.      *)
(***************************************************************************)
LEMMA RateLimitStep ==
    ASSUME NotifierInv, NotifierNext \/ UNCHANGED notifierVars
    PROVE  RateLimitRespected'
<1> USE DEF RateLimitRespected, call, mqtt
<1>0. RateLimitRespected /\ Routes /\ Attempts
  BY DEF NotifierInv
<1>1. ASSUME NEW a \in Alert, BeginSend(a) PROVE RateLimitRespected'
  BY <1>1 DEF BeginSend
<1>2. CASE PostAccepted \/ ReplyLost \/ PostRefused
  BY <1>2 DEF PostAccepted, ReplyLost, PostRefused
<1>3. CASE PostLimited
  <2>1. PICK hint \in Asks :
          /\ asked' = hint
          /\ IF RetryAfter(hint) > 0
             THEN phase' = "sleep" /\ pause' = RetryAfter(hint)
             ELSE Return("error")
    BY <1>3 DEF PostLimited
  <2>2. service \in RateLimitAware =>
          RetryAfter(hint) > 0 /\ 10 * RetryAfter(hint) >= hint
    BY RetryAfterEnough
  <2> QED
    BY <1>3, <2>1, <2>2 DEF PostLimited
<1>4. CASE Slept
  BY <1>0, <1>4 DEF Slept, Return
<1>5. CASE PublishTimesOut
  BY <1>5 DEF PublishTimesOut
<1>6. CASE Disconnect \/ Killed
  BY <1>6 DEF Disconnect, Killed
<1>7. CASE Hello \/ LinkFails \/ WillFires \/ Reconnect
  BY <1>0, <1>7 DEF Hello, LinkFails, WillFires, Reconnect
<1>8. CASE Publish
  BY <1>0, <1>8 DEF Publish, Routes, RateLimitAware
<1>9. CASE BeginClose
  BY <1>0, <1>9 DEF BeginClose, RateLimitAware
<1>10. CASE UNCHANGED notifierVars
  BY <1>0, <1>10 DEF notifierVars
<1> QED
  BY <1>1, <1>2, <1>3, <1>4, <1>5, <1>6, <1>7, <1>8, <1>9, <1>10
  DEF NotifierNext, InCall, Beside

(***************************************************************************)
(* All of it: the invariant is inductive for the notifier and for whatever *)
(* system leaves its state to these steps.                                 *)
(***************************************************************************)
LEMMA NotifierInvStep ==
    ASSUME NotifierInv, NotifierNext \/ UNCHANGED notifierVars
    PROVE  NotifierInv'
<1>1. NotifierTypeOK' /\ Routes'
  BY NotifierTypeStep, RoutesStep
<1>2. Deliveries' /\ Attempts'
  BY DeliveriesStep, AttemptsStep
<1>3. SentMeansAccepted' /\ RateLimitRespected'
  BY SentStep, RateLimitStep
<1>4. LinkDeliveries' /\ Statuses'
  BY LinkDeliveriesStep, StatusesStep
<1> QED
  BY <1>1, <1>2, <1>3, <1>4 DEF NotifierInv

(***************************************************************************)
(* No call of SendNotification delivers its alert twice, or an MQTT one    *)
(* more often than there were links; a settled client is "online".         *)
(***************************************************************************)
LEMMA NotifierInvPromises ==
    NotifierInv => OncePerLink /\ OnlineWhenSettled /\ OfflineOrWilled
<1> SUFFICES ASSUME NotifierInv PROVE OncePerLink /\ OnlineWhenSettled /\ OfflineOrWilled
  OBVIOUS
<1>1. OncePerLink
  BY DEF NotifierInv, Deliveries, LinkDeliveries, OncePerLink
<1>2. OnlineWhenSettled
  <2>1. link = "up" => service = "MQTT"
    BY DEF NotifierInv, Routes
  <2>2. outbox = <<>> => ~In("online", outbox)
    BY DEF In
  <2> QED
    BY <2>1, <2>2 DEF NotifierInv, Statuses, OnlineWhenSettled
<1>3. OfflineOrWilled
  BY DEF NotifierInv, Statuses, OfflineOrWilled
<1> QED
  BY <1>1, <1>2, <1>3
=============================================================================
