----------------------------- MODULE SlackProofs -----------------------------
(***************************************************************************)
(* The Slack listener, for any users, alerts, settings, channel sizes and  *)
(* numbers of presses, losses and restarts: its types, that it tells the   *)
(* users nothing it has not handed over, that only a lost acknowledgement  *)
(* repeats a press, and that it implements the feed of SlackFeed.          *)
(***************************************************************************)
EXTENDS SlackProperties, SequenceTheorems, WellFoundedInduction, TLAPS

Widths == MaxPresses \in Nat /\ MaxBoots \in Nat /\ MaxLost \in Nat
          /\ DecisionsCap \in Nat /\ CommandsCap \in Nat

(***************************************************************************)
(* The bounds are natural numbers.                                         *)
(***************************************************************************)
LEMMA BoundsAreNat == Widths
BY ListenerAssumption DEF Widths

(***************************************************************************)
(* A press is an envelope, and the one in hand is one that was sent.       *)
(***************************************************************************)
LEMMA InHand ==
    ASSUME TypeOK, pc \in Handling
    PROVE  env \in 1 .. Len(sent) /\ env \in Envelopes /\ sent[env] \in Press
BY BoundsAreNat DEF TypeOK, Envelopes, Widths

(***************************************************************************)
(* The empty process satisfies the types.                                  *)
(***************************************************************************)
LEMMA TypeInit == Init => TypeOK
<1> SUFFICES ASSUME Init PROVE TypeOK
  OBVIOUS
<1>1. sent \in Seq(Press) /\ decisions \in Seq(Choice) /\ commands \in Seq(Envelopes)
  BY DEF Init
<1>2. Len(sent) = 0 /\ Len(decisions) = 0 /\ Len(commands) = 0
  BY DEF Init
<1>3. env \in 0 .. Len(sent) /\ (env # 0) = (pc \in Handling)
  BY <1>2 DEF Init, Handling
<1>4. losses \in [Envelopes -> 0 .. MaxLost] /\ times \in [Envelopes -> Nat]
  BY BoundsAreNat DEF Init, Widths
<1>5. boots \in 0 .. MaxBoots
  BY BoundsAreNat DEF Init, Widths
<1>6. card \in [Alert -> Cards]
  BY DEF Init, Cards
<1>7. pc \in PCs /\ open \in BOOLEAN /\ ctx \in BOOLEAN
  BY DEF Init, PCs
<1>8. acked \subseteq 1 .. Len(sent) /\ applied \subseteq 1 .. Len(sent)
  BY DEF Init
<1>9. Len(sent) <= MaxPresses /\ Len(decisions) <= DecisionsCap
      /\ Len(commands) <= CommandsCap
  BY <1>2, BoundsAreNat DEF Widths
<1> QED
  BY <1>1, <1>3, <1>4, <1>5, <1>6, <1>7, <1>8, <1>9 DEF TypeOK

(***************************************************************************)
(* A step of the connection alone keeps the types.                         *)
(***************************************************************************)
LEMMA TypeSocket ==
    ASSUME TypeOK,
           UNCHANGED <<sent, queues, record, boots>>,
           acked' \subseteq 1 .. Len(sent), card' \in [Alert -> Cards],
           pc' \in PCs, open' \in BOOLEAN, ctx' \in BOOLEAN,
           env' \in 0 .. Len(sent), (env' # 0) = (pc' \in Handling)
    PROVE  TypeOK'
BY DEF TypeOK, queues, record

\* The queues hold only envelopes that were sent.
QueuedWasSent == \A e : InQueue(e) => e \in 1 .. Len(sent)

(***************************************************************************)
(* A hand-over queues the envelope in hand and nothing else.               *)
(***************************************************************************)
LEMMA QueueGrows ==
    ASSUME TypeOK, HandOver
    PROVE  \A e : InQueue(e)' <=> InQueue(e) \/ e = env
<1>1. env \in Envelopes
  BY InHand DEF HandOver, Handling
<1>2. CASE SendDecision
  <2> DEFINE new == [press |-> env, until |-> Until(sent[env])]
  <2>1. decisions \in Seq(Choice) /\ commands' = commands
        /\ decisions' = Append(decisions, new) /\ new.press = env
    BY <1>2 DEF SendDecision, TypeOK
  <2> HIDE DEF new
  <2>2. /\ DOMAIN decisions' = 1 .. Len(decisions) + 1
        /\ DOMAIN decisions = 1 .. Len(decisions) /\ Len(decisions) \in Nat
        /\ \A i \in 1 .. Len(decisions) : decisions'[i] = decisions[i]
        /\ decisions'[Len(decisions) + 1] = new
    BY <2>1
  <2> QED
    BY <2>1, <2>2 DEF InQueue
<1>3. CASE SendCommand
  <2>1. commands \in Seq(Envelopes) /\ decisions' = decisions
        /\ commands' = Append(commands, env)
    BY <1>3 DEF SendCommand, TypeOK
  <2>2. /\ DOMAIN commands' = 1 .. Len(commands) + 1
        /\ DOMAIN commands = 1 .. Len(commands) /\ Len(commands) \in Nat
        /\ \A i \in 1 .. Len(commands) : commands'[i] = commands[i]
        /\ commands'[Len(commands) + 1] = env
    BY <1>1, <2>1
  <2> QED
    BY <2>1, <2>2 DEF InQueue
<1> QED
  BY <1>2, <1>3 DEF HandOver

(***************************************************************************)
(* What the main loop takes was queued; the rest stays, and nothing else   *)
(* is touched.                                                             *)
(***************************************************************************)
LEMMA QueueShrinks ==
    ASSUME TypeOK, TakeDecision \/ TakeCommand
    PROVE  \E taken \in Envelopes :
             /\ InQueue(taken) /\ applied' = applied \cup {taken}
             /\ \A e : InQueue(e)' => InQueue(e)
             /\ \A e : e # taken /\ InQueue(e) => InQueue(e)'
<1>1. CASE TakeDecision
  <2>1. decisions \in Seq(Choice) /\ decisions # <<>> /\ decisions' = Tail(decisions)
        /\ commands' = commands /\ applied' = applied \cup {Head(decisions).press}
    BY <1>1 DEF TakeDecision, TypeOK
  <2>2. /\ Len(decisions) \in Nat /\ Len(decisions) >= 1
        /\ DOMAIN decisions = 1 .. Len(decisions)
        /\ DOMAIN decisions' = 1 .. Len(decisions) - 1
        /\ \A i \in 1 .. Len(decisions) - 1 : decisions'[i] = decisions[i + 1]
        /\ Head(decisions) = decisions[1] /\ decisions[1] \in Choice
    BY <2>1
  <2>3. Head(decisions).press \in Envelopes /\ InQueue(Head(decisions).press)
    BY <2>2 DEF Choice, InQueue
  <2>4. ASSUME NEW e, InQueue(e)' PROVE InQueue(e)
    BY <2>1, <2>2, <2>4 DEF InQueue
  <2>5. ASSUME NEW e, e # Head(decisions).press, InQueue(e) PROVE InQueue(e)'
    <3>1. CASE \E i \in DOMAIN commands : commands[i] = e
      BY <2>1, <3>1 DEF InQueue
    <3>2. CASE \E i \in DOMAIN decisions : decisions[i].press = e
      <4>1. PICK i \in 1 .. Len(decisions) : decisions[i].press = e
        BY <2>2, <3>2
      <4>2. i - 1 \in 1 .. Len(decisions) - 1 /\ i - 1 + 1 = i
        BY <2>2, <2>5, <4>1
      <4> QED
        BY <2>2, <4>1, <4>2 DEF InQueue
    <3> QED
      BY <2>5, <3>1, <3>2 DEF InQueue
  <2> QED
    BY <2>1, <2>3, <2>4, <2>5
<1>2. CASE TakeCommand
  <2>1. commands \in Seq(Envelopes) /\ commands # <<>> /\ commands' = Tail(commands)
        /\ decisions' = decisions /\ applied' = applied \cup {Head(commands)}
    BY <1>2 DEF TakeCommand, TypeOK
  <2>2. /\ Len(commands) \in Nat /\ Len(commands) >= 1
        /\ DOMAIN commands = 1 .. Len(commands)
        /\ DOMAIN commands' = 1 .. Len(commands) - 1
        /\ \A i \in 1 .. Len(commands) - 1 : commands'[i] = commands[i + 1]
        /\ Head(commands) = commands[1] /\ commands[1] \in Envelopes
    BY <2>1
  <2>3. Head(commands) \in Envelopes /\ InQueue(Head(commands))
    BY <2>2 DEF InQueue
  <2>4. ASSUME NEW e, InQueue(e)' PROVE InQueue(e)
    BY <2>1, <2>2, <2>4 DEF InQueue
  <2>5. ASSUME NEW e, e # Head(commands), InQueue(e) PROVE InQueue(e)'
    <3>1. CASE \E i \in DOMAIN decisions : decisions[i].press = e
      BY <2>1, <3>1 DEF InQueue
    <3>2. CASE \E i \in DOMAIN commands : commands[i] = e
      <4>1. PICK i \in 1 .. Len(commands) : commands[i] = e
        BY <2>2, <3>2
      <4>2. i - 1 \in 1 .. Len(commands) - 1 /\ i - 1 + 1 = i
        BY <2>2, <2>5, <4>1
      <4> QED
        BY <2>2, <4>1, <4>2 DEF InQueue
    <3> QED
      BY <2>5, <3>1, <3>2 DEF InQueue
  <2> QED
    BY <2>1, <2>3, <2>4, <2>5
<1> QED
  BY <1>1, <1>2

(***************************************************************************)
(* Every step keeps the types: in particular nothing goes into a channel   *)
(* that is full, and the listener forgets its envelope when it is done.    *)
(***************************************************************************)
LEMMA TypeStep ==
    ASSUME TypeOK, QueuedWasSent, [Next]_vars
    PROVE  TypeOK'
<1> USE DEF slack, socket, queues, record
<1>0. 0 \in 0 .. Len(sent)
  BY DEF TypeOK
<1>1. CASE Connect \/ Redial \/ CloseOnCancel
  <2>1. CASE Connect
    <3>1. pc' \in PCs /\ (env' # 0) = (pc' \in Handling)
      BY <2>1 DEF TypeOK, Connect, PCs, Handling
    <3> QED
      BY <2>1, <3>1, TypeSocket DEF TypeOK, Connect
  <2>2. CASE Redial
    <3>1. pc' \in {"connect", "stopped"} /\ pc = "wait"
      BY <2>2 DEF Redial
    <3>2. pc' \in PCs /\ (env' # 0) = (pc' \in Handling)
      BY <2>2, <3>1 DEF TypeOK, Redial, PCs, Handling
    <3> QED
      BY <2>2, <3>2, TypeSocket DEF TypeOK, Redial
  <2>3. CASE CloseOnCancel
    BY <2>3, TypeSocket DEF TypeOK, CloseOnCancel
  <2> QED
    BY <1>1, <2>1, <2>2, <2>3
<1>2. CASE ConnectFails \/ ReadEnds \/ AckFails
  <2>1. HangUp
    BY <1>2 DEF ConnectFails, ReadEnds, AckFails
  <2>2. pc' \in {"stopped", "wait"} /\ env' = 0
    BY <2>1 DEF HangUp
  <2>3. pc' \in PCs /\ (env' # 0) = (pc' \in Handling) /\ env' \in 0 .. Len(sent)
    BY <1>0, <2>2 DEF PCs, Handling
  <2> QED
    BY <2>1, <2>3, TypeSocket DEF TypeOK, HangUp
<1>3. CASE AckArrives
  <2>1. env \in 1 .. Len(sent)
    BY <1>3, InHand DEF AckArrives, Handling
  <2> QED
    BY <1>3, <2>1, TypeSocket DEF TypeOK, AckArrives, PCs, Handling
<1>4. CASE AckLost
  <2>1. env \in Envelopes
    BY <1>4, InHand DEF AckLost, Handling
  <2>2. losses' \in [Envelopes -> 0 .. MaxLost]
    <3>1. losses[env] + 1 \in 0 .. MaxLost
      BY <1>4, <2>1, BoundsAreNat DEF AckLost, TypeOK, Widths
    <3> QED
      BY <1>4, <2>1, <3>1 DEF AckLost, TypeOK
  <2> QED
    BY <1>4, <2>2 DEF TypeOK, AckLost, PCs, Handling
<1>5. CASE Handle
  <2>1. Verdict(sent[env]) \in {"accepted", "denied", "ignored"}
    BY DEF Verdict
  <2>2. /\ pc' \in {"send", "respond", "read"}
        /\ env' = IF pc' = "read" THEN 0 ELSE env
        /\ pc = "handle"
    BY <1>5, <2>1 DEF Handle
  <2>3. env \in 1 .. Len(sent)
    BY <2>2, InHand DEF Handling
  <2>4. pc' \in PCs /\ (env' # 0) = (pc' \in Handling) /\ env' \in 0 .. Len(sent)
    BY <1>0, <2>2, <2>3 DEF PCs, Handling
  <2> QED
    BY <1>5, <2>4, TypeSocket DEF TypeOK, Handle
<1>6. CASE HandOver
  <2>1. env \in Envelopes /\ env \in 1 .. Len(sent) /\ sent[env] \in Press
    BY <1>6, InHand DEF HandOver, Handling
  <2>2. times' \in [Envelopes -> Nat]
    BY <1>6, <2>1 DEF HandOver, TypeOK
  <2>3. CASE SendDecision
    <3>1. Until(sent[env]) \in {"permanent", "live", "lapsed"}
      BY DEF Until, Deadline
    <3>2. [press |-> env, until |-> Until(sent[env])] \in Choice
      BY <2>1, <3>1 DEF Choice
    <3>3. decisions' \in Seq(Choice) /\ Len(decisions') = Len(decisions) + 1
      BY <2>3, <3>2 DEF SendDecision, TypeOK
    <3>4. Len(decisions') <= DecisionsCap
      BY <2>3, <3>3, BoundsAreNat DEF SendDecision, TypeOK, Widths
    <3> QED
      BY <1>6, <2>2, <2>3, <3>3, <3>4
      DEF HandOver, SendDecision, TypeOK, PCs, Handling
  <2>4. CASE SendCommand
    <3>1. commands' \in Seq(Envelopes) /\ Len(commands') = Len(commands) + 1
      BY <2>1, <2>4 DEF SendCommand, TypeOK
    <3>2. Len(commands') <= CommandsCap
      BY <2>4, <3>1, BoundsAreNat DEF SendCommand, TypeOK, Widths
    <3> QED
      BY <1>6, <2>2, <2>4, <3>1, <3>2
      DEF HandOver, SendCommand, TypeOK, PCs, Handling
  <2> QED
    BY <1>6, <2>3, <2>4 DEF HandOver
<1>7. CASE Respond
  <2>1. card' \in [Alert -> Cards]
    BY <1>7 DEF Respond, TypeOK, Cards
  <2> QED
    BY <1>7, <2>1, TypeSocket DEF TypeOK, Respond, PCs, Handling
<1>8. ASSUME NEW e \in Envelopes, Read(e) PROVE TypeOK'
  BY <1>8, TypeSocket DEF TypeOK, Read, Waiting, PCs, Handling, Envelopes
<1>9. ASSUME NEW u \in User, NEW a \in Alert, PressButton(u, a) PROVE TypeOK'
  <2>1. PICK what \in Buttons(a) :
          sent' = Append(sent, [kind |-> "button", user |-> u, alert |-> a,
                                what |-> what])
    BY <1>9 DEF PressButton
  <2>2. what \in {"permanent"} \cup Labels \cup OldLabels
    BY DEF Buttons
  <2>3. [kind |-> "button", user |-> u, alert |-> a, what |-> what] \in Press
    BY <2>2 DEF Press
  <2>4. sent' \in Seq(Press) /\ Len(sent') = Len(sent) + 1
    BY <2>1, <2>3 DEF TypeOK
  <2> QED
    BY <1>9, <2>4, BoundsAreNat DEF PressButton, TypeOK, Widths
<1>10. ASSUME NEW u \in User, SlashCommand(u) PROVE TypeOK'
  <2>1. PICK order \in Orders :
          sent' = Append(sent, [kind |-> "slash", user |-> u, what |-> order])
    BY <1>10 DEF SlashCommand
  <2>2. [kind |-> "slash", user |-> u, what |-> order] \in Press
    BY DEF Press
  <2>3. sent' \in Seq(Press) /\ Len(sent') = Len(sent) + 1
    BY <2>1, <2>2 DEF TypeOK
  <2> QED
    BY <1>10, <2>3, BoundsAreNat DEF SlashCommand, TypeOK, Widths
<1>11. ASSUME NEW a \in Alert, PostAlert(a) PROVE TypeOK'
  BY <1>11 DEF TypeOK, PostAlert, Cards
<1>12. CASE UNCHANGED vars
  BY <1>12 DEF TypeOK, vars
<1>13. CASE TakeDecision
  <2>1. decisions' \in Seq(Choice) /\ Len(decisions') <= DecisionsCap
    BY <1>13, BoundsAreNat DEF TypeOK, TakeDecision, Widths
  <2>2. applied' \subseteq 1 .. Len(sent)
    BY <1>13, QueueShrinks DEF QueuedWasSent, TypeOK
  <2> QED
    BY <1>13, <2>1, <2>2 DEF TypeOK, TakeDecision
<1>14. CASE TakeCommand
  <2>1. commands' \in Seq(Envelopes) /\ Len(commands') <= CommandsCap
    BY <1>14, BoundsAreNat DEF TypeOK, TakeCommand, Widths
  <2>2. applied' \subseteq 1 .. Len(sent)
    BY <1>14, QueueShrinks DEF QueuedWasSent, TypeOK
  <2> QED
    BY <1>14, <2>1, <2>2 DEF TypeOK, TakeCommand
<1>15. CASE Boot
  <2>1. boots' \in 0 .. MaxBoots
    BY <1>15, BoundsAreNat DEF TypeOK, Boot, Widths
  <2>2. pc' \in PCs /\ (env' # 0) = (pc' \in Handling)
    BY <1>15 DEF TypeOK, Boot, PCs, Handling
  <2> QED
    BY <1>15, <2>1, <2>2 DEF TypeOK, Boot
<1>16. CASE Crash \/ Exit
  <2>1. LoseProcess
    BY <1>16 DEF Crash, Exit
  <2>2. pc' \in PCs /\ (env' # 0) = (pc' \in Handling) /\ env' \in 0 .. Len(sent)
    BY <1>0, <2>1 DEF LoseProcess, PCs, Handling
  <2>3. decisions' \in Seq(Choice) /\ Len(decisions') <= DecisionsCap
        /\ commands' \in Seq(Envelopes) /\ Len(commands') <= CommandsCap
    BY <2>1, BoundsAreNat DEF LoseProcess, Widths
  <2> QED
    BY <2>1, <2>2, <2>3 DEF TypeOK, LoseProcess
<1>17. CASE Signal
  BY <1>17 DEF TypeOK, Signal
<1> QED
  BY <1>1, <1>2, <1>3, <1>4, <1>5, <1>6, <1>7, <1>8, <1>9, <1>10, <1>11, <1>12,
     <1>13, <1>14, <1>15, <1>16, <1>17
  DEF Next, Listener, Outside, MainLoop

-----------------------------------------------------------------------------
(***************************************************************************)
(* A step records one more press or none; what was sent stays as it was.   *)
(***************************************************************************)
LEMMA SentGrows ==
    ASSUME TypeOK, [Next]_vars
    PROVE  /\ Len(sent) \in Nat /\ Len(sent') \in {Len(sent), Len(sent) + 1}
           /\ \A e \in 1 .. Len(sent) : sent'[e] = sent[e]
<1>0. sent \in Seq(Press)
  BY DEF TypeOK
<1>1. sent' = sent \/ \E p \in Press : sent' = Append(sent, p)
  <2>1. ASSUME NEW u \in User, NEW a \in Alert, PressButton(u, a)
        PROVE  \E p \in Press : sent' = Append(sent, p)
    <3>1. PICK what \in Buttons(a) :
            sent' = Append(sent, [kind |-> "button", user |-> u, alert |-> a,
                                  what |-> what])
      BY <2>1 DEF PressButton
    <3>2. what \in {"permanent"} \cup Labels \cup OldLabels
      BY DEF Buttons
    <3> QED
      BY <3>1, <3>2 DEF Press
  <2>2. ASSUME NEW u \in User, SlashCommand(u)
        PROVE  \E p \in Press : sent' = Append(sent, p)
    BY <2>2 DEF SlashCommand, Press
  <2>3. CASE UNCHANGED sent
    BY <2>3
  <2>4. CASE Listener
    BY <2>4 DEF Listener, Connect, ConnectFails, Redial, ReadEnds, AckArrives,
       AckLost, AckFails, Handle, HandOver, Respond, CloseOnCancel, Read, HangUp,
       slack
  <2>5. CASE MainLoop \/ Crash \/ Exit \/ Boot \/ Signal
    BY <2>5 DEF MainLoop, TakeDecision, TakeCommand, PostAlert, Crash, Exit,
       LoseProcess, Boot, Signal, slack
  <2>6. CASE UNCHANGED vars
    BY <2>6 DEF vars, slack
  <2> QED
    BY <2>1, <2>2, <2>3, <2>4, <2>5, <2>6 DEF Next, Outside
<1>2. CASE sent' = sent
  BY <1>0, <1>2
<1>3. ASSUME NEW p \in Press, sent' = Append(sent, p)
      PROVE  /\ Len(sent') = Len(sent) + 1
             /\ \A e \in 1 .. Len(sent) : sent'[e] = sent[e]
  BY <1>0, <1>3
<1> QED
  BY <1>0, <1>1, <1>2, <1>3

(***************************************************************************)
(* Every step keeps the queues to what was sent.                           *)
(***************************************************************************)
LEMMA QueuedStep ==
    ASSUME TypeOK, QueuedWasSent, [Next]_vars
    PROVE  QueuedWasSent'
<1>1. \A e \in 1 .. Len(sent) : e \in 1 .. Len(sent')
  BY SentGrows
<1>2. CASE HandOver
  <2>1. env \in 1 .. Len(sent)
    BY <1>2, InHand DEF HandOver, Handling
  <2> QED
    BY <1>1, <1>2, <2>1, QueueGrows DEF QueuedWasSent
<1>3. CASE TakeDecision \/ TakeCommand
  BY <1>1, <1>3, QueueShrinks DEF QueuedWasSent
<1>4. CASE UNCHANGED queues
  BY <1>1, <1>4 DEF QueuedWasSent, InQueue, queues
<1>5. CASE LoseProcess
  BY <1>5 DEF QueuedWasSent, InQueue, LoseProcess
<1>6. CASE Listener
  BY <1>2, <1>4, <1>6 DEF Listener, Connect, ConnectFails, Redial, ReadEnds,
     AckArrives, AckLost, AckFails, Handle, Respond, CloseOnCancel, Read, HangUp
<1>7. CASE Outside
  BY <1>4, <1>7 DEF Outside, PressButton, SlashCommand, Boot, Signal
<1>8. CASE MainLoop
  BY <1>3, <1>4, <1>8 DEF MainLoop, PostAlert
<1>9. CASE UNCHANGED vars
  BY <1>4, <1>9 DEF vars
<1> QED
  BY <1>5, <1>6, <1>7, <1>8, <1>9 DEF Next, Crash, Exit

-----------------------------------------------------------------------------
(***************************************************************************)
(* Where the listener stands with its envelope: it acknowledges only what  *)
(* was not acknowledged, and passes on only what it accepts.               *)
(***************************************************************************)
Progress ==
    /\ pc = "ack" => env \notin acked
    /\ pc = "send" => Verdict(sent[env]) = "accepted"
    /\ pc = "down" => decisions = <<>> /\ commands = <<>>

(***************************************************************************)
(* How often an envelope was handed over, against the acknowledgements it  *)
(* lost: once more if Slack has taken one, less if it is still to be done. *)
(***************************************************************************)
Counted ==
    \A e \in Envelopes :
        /\ times[e] <= 1 + losses[e]
        /\ e \notin acked => times[e] <= losses[e]
        /\ env = e /\ pc \in {"handle", "send"} =>
             IF e \in acked THEN times[e] <= losses[e] ELSE times[e] < losses[e]

\* An accepted press that is being answered has been handed over.
Answered ==
    /\ ToldMeansQueued
    /\ pc = "respond" /\ Verdict(sent[env]) = "accepted" => times[env] > 0

ListenerInv == TypeOK /\ QueuedWasSent /\ Progress /\ Counted /\ Answered

(***************************************************************************)
(* The process that is not up yet satisfies all of it.                     *)
(***************************************************************************)
LEMMA ListenerInit == Init => ListenerInv
<1> SUFFICES ASSUME Init PROVE ListenerInv
  OBVIOUS
<1>1. TypeOK
  BY TypeInit
<1>2. QueuedWasSent /\ Progress
  BY DEF Init, QueuedWasSent, InQueue, Progress
<1>3. Counted
  BY DEF Init, Counted
<1>4. Answered
  BY <1>1 DEF Init, Answered, ToldMeansQueued
<1> QED
  BY <1>1, <1>2, <1>3, <1>4 DEF ListenerInv

(***************************************************************************)
(* Every step keeps the listener's standing.                               *)
(***************************************************************************)
LEMMA ProgressStep ==
    ASSUME ListenerInv, [Next]_vars
    PROVE  Progress'
<1> USE DEF Progress, slack, socket, queues, record
<1>0. TypeOK /\ Progress
  BY DEF ListenerInv
<1>1. CASE Connect \/ Redial \/ CloseOnCancel
  BY <1>0, <1>1 DEF Connect, Redial, CloseOnCancel
<1>2. CASE ConnectFails \/ ReadEnds \/ AckFails
  BY <1>0, <1>2 DEF ConnectFails, ReadEnds, AckFails, HangUp
<1>3. CASE AckArrives \/ AckLost
  BY <1>0, <1>3 DEF AckArrives, AckLost
<1>4. CASE Handle
  <2>1. Verdict(sent[env]) \in {"accepted", "denied", "ignored"}
    BY DEF Verdict
  <2>2. /\ pc' \in {"send", "respond", "read"}
        /\ pc' = "send" => Verdict(sent[env]) = "accepted"
        /\ env' = IF pc' = "read" THEN 0 ELSE env
        /\ sent' = sent
    BY <1>4, <2>1 DEF Handle
  <2>3. Verdict(sent'[env]) = Verdict(sent[env])
    BY <2>2
  <2> QED
    BY <1>0, <1>4, <2>2, <2>3 DEF Handle
<1>5. CASE HandOver \/ Respond
  BY <1>0, <1>5 DEF HandOver, SendDecision, SendCommand, Respond
<1>6. ASSUME NEW e \in Envelopes, Read(e) PROVE Progress'
  BY <1>0, <1>6 DEF Read, Waiting
<1>7. CASE \/ \E u \in User, a \in Alert : PressButton(u, a)
           \/ \E u \in User : SlashCommand(u)
  <2>1. pc \in Handling => sent'[env] = sent[env]
    BY <1>0, SentGrows, InHand
  <2>2. UNCHANGED <<acked, socket, queues>>
    BY <1>7 DEF PressButton, SlashCommand
  <2> QED
    BY <1>0, <2>1, <2>2 DEF Handling, Verdict
<1>8. CASE Boot \/ Signal
  BY <1>0, <1>8 DEF Boot, Signal
<1>9. CASE MainLoop
  BY <1>0, <1>9 DEF MainLoop, TakeDecision, TakeCommand, PostAlert
<1>10. CASE Crash \/ Exit
  BY <1>10 DEF Crash, Exit, LoseProcess
<1>11. CASE UNCHANGED vars
  BY <1>0, <1>11 DEF vars
<1> QED
  BY <1>1, <1>2, <1>3, <1>4, <1>5, <1>6, <1>7, <1>8, <1>9, <1>10, <1>11
  DEF Next, Listener, Outside

(***************************************************************************)
(* Every step keeps the count: an envelope comes back only while it is not *)
(* acknowledged, and a lost acknowledgement is counted before the          *)
(* hand-over it repeats.                                                   *)
(***************************************************************************)
LEMMA CountedStep ==
    ASSUME ListenerInv, [Next]_vars
    PROVE  Counted'
<1> USE DEF Counted, slack, socket, queues, record
<1>0. TypeOK /\ Progress /\ Counted
  BY DEF ListenerInv
<1>1. \A e \in Envelopes : times[e] \in Nat /\ losses[e] \in Nat
  BY <1>0, BoundsAreNat DEF TypeOK, Widths
<1>2. CASE Connect \/ Redial \/ CloseOnCancel
  BY <1>0, <1>2 DEF Connect, Redial, CloseOnCancel
<1>3. CASE ConnectFails \/ ReadEnds \/ AckFails
  BY <1>0, <1>3 DEF ConnectFails, ReadEnds, AckFails, HangUp
<1>4. CASE AckArrives
  BY <1>0, <1>1, <1>4 DEF AckArrives, Progress
<1>5. CASE AckLost
  <2>1. env \in Envelopes /\ env \notin acked
    BY <1>0, <1>5, InHand DEF AckLost, Handling, Progress
  <2>2. losses' \in [Envelopes -> Int] /\ losses'[env] = losses[env] + 1
        /\ \A e \in Envelopes \ {env} : losses'[e] = losses[e]
    BY <1>0, <1>1, <1>5, <2>1 DEF AckLost, TypeOK
  <2> QED
    BY <1>0, <1>1, <1>5, <2>1, <2>2 DEF AckLost
<1>6. CASE Handle
  BY <1>0, <1>6 DEF Handle
<1>7. CASE HandOver
  <2>1. env \in Envelopes /\ pc = "send"
    BY <1>0, <1>7, InHand DEF HandOver, Handling
  <2>2. times'[env] = times[env] + 1
        /\ \A e \in Envelopes \ {env} : times'[e] = times[e]
    BY <1>0, <1>1, <1>7, <2>1 DEF HandOver, TypeOK
  <2>3. UNCHANGED <<acked, losses>> /\ pc' \in {"respond", "read"}
    BY <1>7 DEF HandOver, SendDecision, SendCommand
  <2> QED
    BY <1>0, <1>1, <2>1, <2>2, <2>3
<1>8. CASE Respond
  BY <1>0, <1>8 DEF Respond
<1>9. ASSUME NEW e \in Envelopes, Read(e) PROVE Counted'
  BY <1>0, <1>9 DEF Read
<1>10. CASE Outside
  BY <1>0, <1>10 DEF Outside, PressButton, SlashCommand, Boot, Signal
<1>11. CASE MainLoop
  BY <1>0, <1>11 DEF MainLoop, TakeDecision, TakeCommand, PostAlert
<1>12. CASE Crash \/ Exit
  BY <1>0, <1>12 DEF Crash, Exit, LoseProcess
<1>13. CASE UNCHANGED vars
  BY <1>0, <1>13 DEF vars
<1> QED
  BY <1>2, <1>3, <1>4, <1>5, <1>6, <1>7, <1>8, <1>9, <1>10, <1>11, <1>12, <1>13
  DEF Next, Listener

(***************************************************************************)
(* Nothing that was handed over is forgotten: a count never falls.         *)
(***************************************************************************)
LEMMA TimesGrow ==
    ASSUME TypeOK, [Next]_vars
    PROVE  \A e \in Envelopes : times'[e] >= times[e] /\ times[e] \in Nat
<1>1. \A e \in Envelopes : times[e] \in Nat
  BY DEF TypeOK
<1>2. CASE HandOver
  BY <1>1, <1>2 DEF HandOver, TypeOK
<1>3. CASE UNCHANGED times
  BY <1>1, <1>3
<1> QED
  BY <1>2, <1>3 DEF Next, Listener, Outside, MainLoop, vars, slack, socket, queues,
     record, Connect, ConnectFails, Redial, ReadEnds, AckArrives, AckLost,
     AckFails, Handle, Respond, CloseOnCancel, Read, HangUp, PressButton,
     SlashCommand, Boot, Signal, TakeDecision, TakeCommand, PostAlert, Crash,
     Exit, LoseProcess

(***************************************************************************)
(* Every step keeps the answers true: only the answer to an accepted press *)
(* says "allowed", and that press was handed over before.                  *)
(***************************************************************************)
LEMMA AnsweredStep ==
    ASSUME ListenerInv, [Next]_vars
    PROVE  Answered'
<1> USE DEF slack, socket, queues, record
<1>0. TypeOK /\ Progress /\ Answered
  BY DEF ListenerInv
<1>1. ASSUME NEW e \in 1 .. Len(sent)
      PROVE  /\ e \in 1 .. Len(sent') /\ sent'[e] = sent[e]
             /\ times'[e] >= times[e] /\ times[e] \in Nat /\ times'[e] \in Nat
  <2>1. e \in Envelopes
    BY <1>0, BoundsAreNat DEF TypeOK, Envelopes, Widths
  <2>2. times'[e] >= times[e] /\ times[e] \in Nat
    BY <1>0, <2>1, TimesGrow
  <2>3. times'[e] \in Nat
    BY <1>0, <2>1, TypeStep DEF ListenerInv, TypeOK
  <2>4. e \in 1 .. Len(sent') /\ sent'[e] = sent[e]
    BY <1>0, SentGrows
  <2> QED
    BY <2>2, <2>3, <2>4
<1>2. ASSUME NEW a \in Alert, card[a] = "allowed"
      PROVE  \E e \in 1 .. Len(sent') :
               sent'[e].kind = "button" /\ sent'[e].alert = a /\ times'[e] > 0
  <2>1. PICK e \in 1 .. Len(sent) :
          sent[e].kind = "button" /\ sent[e].alert = a /\ times[e] > 0
    BY <1>0, <1>2 DEF Answered, ToldMeansQueued
  <2>2. times'[e] > 0
    BY <1>1, <2>1
  <2> QED
    BY <1>1, <2>1, <2>2
<1>3. ASSUME card' = card PROVE ToldMeansQueued'
  BY <1>2, <1>3 DEF ToldMeansQueued
<1>4. CASE Respond
  <2>1. env \in 1 .. Len(sent) /\ sent[env] \in Press
    BY <1>0, <1>4, InHand DEF Respond, Handling
  <2>2. pc' = "read"
    BY <1>4 DEF Respond
  <2>3. CASE card' = card
    BY <1>3, <2>2, <2>3 DEF Answered
  <2>4. CASE /\ sent[env].kind = "button"
             /\ card' = [card EXCEPT ![sent[env].alert] =
                  IF Verdict(sent[env]) = "accepted" THEN "allowed" ELSE "denied"]
    <3>1. Verdict(sent[env]) = "accepted" => times[env] > 0
      BY <1>0, <1>4 DEF Answered, Respond
    <3>2. card \in [Alert -> Cards]
      BY <1>0 DEF TypeOK
    <3>3. ASSUME NEW a \in Alert, card'[a] = "allowed", card[a] # "allowed"
          PROVE  a = sent[env].alert /\ Verdict(sent[env]) = "accepted"
      BY <2>4, <3>2, <3>3
    <3>4. UNCHANGED <<sent, times>>
      BY <1>4 DEF Respond
    <3>5. ASSUME NEW a \in Alert, card'[a] = "allowed"
          PROVE  \E e \in 1 .. Len(sent') :
                   sent'[e].kind = "button" /\ sent'[e].alert = a /\ times'[e] > 0
      BY <1>2, <2>1, <2>4, <3>1, <3>3, <3>4, <3>5
    <3> QED
      BY <2>2, <3>5 DEF Answered, ToldMeansQueued
  <2> QED
    BY <1>4, <2>3, <2>4 DEF Respond
<1>5. CASE HandOver
  <2>1. env \in Envelopes
    BY <1>0, <1>5, InHand DEF HandOver, Handling
  <2>2. times'[env] > 0 /\ UNCHANGED card
    BY <1>0, <1>5, <2>1 DEF HandOver, TypeOK
  <2>3. pc' = "respond" => env' = env
    BY <1>5 DEF HandOver, SendDecision, SendCommand
  <2> QED
    BY <1>3, <2>2, <2>3 DEF Answered
<1>6. CASE Handle
  <2>1. UNCHANGED <<card, sent>> /\ (pc' = "respond" => env' = env)
        /\ (pc' = "respond" => Verdict(sent[env]) # "accepted")
    BY <1>6 DEF Handle, Verdict
  <2> QED
    BY <1>3, <2>1 DEF Answered, Verdict
<1>7. CASE UNCHANGED <<card, pc, env>>
  <2>1. pc = "respond" => env \in 1 .. Len(sent)
    BY <1>0, InHand DEF Handling
  <2> QED
    BY <1>0, <1>1, <1>3, <1>7, <2>1 DEF Answered, Verdict
<1>8. CASE UNCHANGED card /\ pc' # "respond"
  BY <1>3, <1>8 DEF Answered
<1>9. CASE Listener
  BY <1>4, <1>5, <1>6, <1>7, <1>8, <1>9
  DEF Listener, Connect, ConnectFails, Redial, ReadEnds, AckArrives,
      AckLost, AckFails, CloseOnCancel, Read, HangUp
<1>10. CASE Outside
  BY <1>7, <1>8, <1>10 DEF Outside, PressButton, SlashCommand, Boot, Signal
<1>11. ASSUME NEW a \in Alert, PostAlert(a) PROVE Answered'
  <2>1. ASSUME NEW b \in Alert, card'[b] = "allowed" PROVE card[b] = "allowed"
    BY <1>0, <1>11, <2>1 DEF PostAlert, TypeOK
  <2>2. ToldMeansQueued'
    BY <1>2, <2>1 DEF ToldMeansQueued
  <2> QED
    BY <1>0, <1>11, <2>2 DEF Answered, PostAlert, Verdict
<1>12. CASE TakeDecision \/ TakeCommand
  BY <1>7, <1>12 DEF TakeDecision, TakeCommand
<1>13. CASE Crash \/ Exit
  BY <1>8, <1>13 DEF Crash, Exit, LoseProcess
<1>14. CASE UNCHANGED vars
  BY <1>7, <1>14 DEF vars
<1> QED
  BY <1>9, <1>10, <1>11, <1>12, <1>13, <1>14 DEF Next, MainLoop

(***************************************************************************)
(* The invariant of the listener, and the theorems that follow from it.    *)
(***************************************************************************)
LEMMA ListenerInvariant == Spec => []ListenerInv
<1>1. ListenerInv /\ [Next]_vars => ListenerInv'
  <2> SUFFICES ASSUME ListenerInv, [Next]_vars PROVE ListenerInv'
    OBVIOUS
  <2>1. TypeOK' /\ QueuedWasSent'
    BY TypeStep, QueuedStep DEF ListenerInv
  <2> QED
    BY <2>1, ProgressStep, CountedStep, AnsweredStep DEF ListenerInv
<1> QED
  BY <1>1, ListenerInit, PTL DEF Spec

(***************************************************************************)
(* Types and channel capacities, for all bounds.                           *)
(***************************************************************************)
THEOREM TypeCorrect == Spec => []TypeOK
<1>1. ListenerInv => TypeOK
  BY DEF ListenerInv
<1> QED
  BY <1>1, ListenerInvariant, PTL

(***************************************************************************)
(* A press is handed over at most once more than its acknowledgement was   *)
(* lost, through any reconnections, crashes and restarts.                  *)
(***************************************************************************)
THEOREM HandedOverOnce == Spec => []OnceUnlessAckLost
<1>1. ListenerInv => OnceUnlessAckLost
  BY DEF ListenerInv, Counted, OnceUnlessAckLost
<1> QED
  BY <1>1, ListenerInvariant, PTL

(***************************************************************************)
(* Whenever an alert says "allowed", a decision about it was handed over.  *)
(***************************************************************************)
THEOREM ToldOnlyWhatIsQueued == Spec => []ToldMeansQueued
<1>1. ListenerInv => ToldMeansQueued
  BY DEF ListenerInv, Answered
<1> QED
  BY <1>1, ListenerInvariant, PTL

-----------------------------------------------------------------------------
(***************************************************************************)
(* A set of indices has a first one.                                       *)
(***************************************************************************)
LEMMA LeastIndex ==
    ASSUME NEW T \in SUBSET Nat, T # {}
    PROVE  \E i \in T : \A j \in T : i <= j
<1>1. PICK i \in T : \A j \in T : ~(<<j, i>> \in OpToRel(<, Nat))
  BY NatLessThanWellFounded, WFMin, Zenon
<1>2. \A j \in T : j \in Nat /\ i \in Nat
  OBVIOUS
<1>3. \A j \in T : ~(j < i)
  BY <1>1, <1>2 DEF OpToRel
<1> QED
  BY <1>2, <1>3

(***************************************************************************)
(* A button stands for a positive number of seconds.                       *)
(***************************************************************************)
LEMMA ButtonsPositive ==
    ASSUME NEW label \in Labels
    PROVE  DurationFor(label) \in Nat /\ DurationFor(label) > 0
<1> DEFINE T == {i \in Durations : Settings[i].label = label}
<1>1. ASSUME NEW i \in Durations
      PROVE  i \in Nat /\ ParseDuration(Settings[i]) \in Nat
             /\ ParseDuration(Settings[i]) > 0
  <2>1. i \in DOMAIN Settings /\ ParseDuration(Settings[i]) > 0
    BY DEF Durations, ParseAllowDurations, FirstFour
  <2>2. i \in Nat /\ Settings[i] \in Setting
    BY <2>1, ListenerAssumption
  <2>3. Settings[i].n * Settings[i].unit \in Int
    BY <2>2, WidthAssumption DEF Setting, Units
  <2>4. ParseDuration(Settings[i]) \in Int
    BY <2>3, WidthAssumption DEF ParseDuration, Int64
  <2> QED
    BY <2>1, <2>2, <2>4
<1>2. T \in SUBSET Nat /\ T # {}
  BY <1>1 DEF Labels
<1>3. \E i \in T : \A j \in T : i <= j
  <2> HIDE DEF T
  <2> QED
    BY <1>2, LeastIndex
<1>4. PICK first \in Durations : DurationFor(label) = ParseDuration(Settings[first])
  BY <1>3 DEF DurationFor
<1> QED
  BY <1>1, <1>4

(***************************************************************************)
(* A positive number of seconds that fits the clock is a deadline to come. *)
(***************************************************************************)
LEMMA DeadlineLive ==
    ASSUME NEW seconds \in Nat, seconds > 0, seconds * Nanos <= MaxInt
    PROVE  Deadline(seconds) = "live"
<1>1. seconds * Nanos \in Nat /\ seconds * Nanos > 0
  BY WidthAssumption
<1>2. ASSUME NEW n \in Nat, n <= MaxInt PROVE Int64(n) = n
  BY <1>2, WidthAssumption DEF Int64
<1> QED
  BY <1>1, <1>2 DEF Deadline

(***************************************************************************)
(* What is queued is what was pressed: a label on offer, and the deadline  *)
(* of the first setting that has it.                                       *)
(***************************************************************************)
Promised ==
    \A i \in DOMAIN decisions :
        LET p == sent[decisions[i].press] IN
        /\ p.what \in {"permanent"} \cup Labels
        /\ decisions[i].until = Until(p)

(***************************************************************************)
(* Every step keeps the promises that are queued.                          *)
(***************************************************************************)
LEMMA PromisedStep ==
    ASSUME ListenerInv, Promised, [Next]_vars
    PROVE  Promised'
<1> USE DEF slack, socket, queues, record
<1>0. TypeOK /\ QueuedWasSent /\ Progress /\ decisions \in Seq(Choice)
  BY DEF ListenerInv, TypeOK
<1>1. \A i \in DOMAIN decisions : sent'[decisions[i].press] = sent[decisions[i].press]
  <2>1. \A i \in DOMAIN decisions : decisions[i].press \in 1 .. Len(sent)
    BY <1>0 DEF QueuedWasSent, InQueue
  <2> QED
    BY <1>0, <2>1, SentGrows
<1>2. CASE decisions' = decisions
  BY <1>1, <1>2 DEF Promised, Until
<1>3. CASE decisions' = <<>>
  BY <1>3 DEF Promised
<1>4. CASE HandOver
  <2>1. CASE SendDecision
    <3> DEFINE new == [press |-> env, until |-> Until(sent[env])]
    <3>1. decisions' = Append(decisions, new) /\ sent' = sent
      BY <1>4, <2>1 DEF SendDecision, HandOver
    <3>2. /\ DOMAIN decisions' = 1 .. Len(decisions) + 1
          /\ DOMAIN decisions = 1 .. Len(decisions) /\ Len(decisions) \in Nat
          /\ \A i \in 1 .. Len(decisions) : decisions'[i] = decisions[i]
          /\ decisions'[Len(decisions) + 1] = new
      <4> HIDE DEF new
      <4> QED
        BY <1>0, <3>1
    <3>3. sent[env].what \in {"permanent"} \cup Labels
      <4>1. sent[env].kind = "button" /\ Verdict(sent[env]) = "accepted"
        BY <1>0, <1>4, <2>1 DEF SendDecision, HandOver, Progress
      <4> QED
        BY <4>1 DEF Verdict
    <3>4. ASSUME NEW i \in DOMAIN decisions'
          PROVE  LET p == sent'[decisions'[i].press] IN
                 p.what \in {"permanent"} \cup Labels /\ decisions'[i].until = Until(p)
      <4>1. i \in DOMAIN decisions \/ i = Len(decisions) + 1
        BY <3>2
      <4>2. CASE i \in DOMAIN decisions
        BY <3>1, <3>2, <4>2 DEF Promised
      <4>3. CASE i = Len(decisions) + 1
        BY <3>1, <3>2, <3>3, <4>3
      <4> QED
        BY <4>1, <4>2, <4>3
    <3> QED
      BY <3>4 DEF Promised, Until
  <2>2. CASE SendCommand
    BY <1>2, <2>2 DEF SendCommand
  <2> QED
    BY <1>4, <2>1, <2>2 DEF HandOver
<1>5. CASE TakeDecision
  <2>1. decisions # <<>> /\ decisions' = Tail(decisions) /\ sent' = sent
    BY <1>5 DEF TakeDecision
  <2>2. /\ DOMAIN decisions' = 1 .. Len(decisions) - 1
        /\ DOMAIN decisions = 1 .. Len(decisions) /\ Len(decisions) \in Nat
        /\ \A i \in 1 .. Len(decisions) - 1 :
              i + 1 \in DOMAIN decisions /\ decisions'[i] = decisions[i + 1]
    BY <1>0, <2>1
  <2> QED
    BY <2>1, <2>2 DEF Promised, Until
<1>6. CASE Listener
  BY <1>2, <1>4, <1>6 DEF Listener, Connect, ConnectFails, Redial, ReadEnds,
     AckArrives, AckLost, AckFails, Handle, Respond, CloseOnCancel, Read, HangUp
<1>7. CASE Outside
  BY <1>2, <1>7 DEF Outside, PressButton, SlashCommand, Boot, Signal
<1>8. CASE MainLoop
  BY <1>2, <1>5, <1>8 DEF MainLoop, TakeCommand, PostAlert
<1>9. CASE Crash \/ Exit
  BY <1>3, <1>9 DEF Crash, Exit, LoseProcess
<1>10. CASE UNCHANGED vars
  BY <1>2, <1>10 DEF vars
<1> QED
  BY <1>6, <1>7, <1>8, <1>9, <1>10 DEF Next

(***************************************************************************)
(* Whatever SLACK_ALLOW_DURATIONS says and however wide the integers are,  *)
(* a temporary allow whose length fits the clock is still to come when it  *)
(* is made: neither zero seconds nor a number that has wrapped below zero  *)
(* gets onto a button.  One that has wrapped to another positive number    *)
(* does, and is an allow of the wrong length.                              *)
(***************************************************************************)
THEOREM ButtonsAlwaysAllow == Spec => []ButtonsAllow
<1>1. Init => Promised
  BY DEF Init, Promised
<1>2. Promised => ButtonsAllow
  <2> SUFFICES ASSUME Promised, NEW i \in DOMAIN decisions,
                      sent[decisions[i].press].what # "permanent",
                      DurationFor(sent[decisions[i].press].what) * Nanos <= MaxInt
               PROVE  decisions[i].until = "live"
    BY DEF ButtonsAllow
  <2> DEFINE label == sent[decisions[i].press].what
  <2>1. label \in Labels /\ decisions[i].until = Deadline(DurationFor(label))
    BY DEF Promised, Until
  <2> QED
    BY <2>1, ButtonsPositive, DeadlineLive
<1> QED
  BY <1>1, <1>2, PromisedStep, ListenerInvariant, PTL DEF Spec

-----------------------------------------------------------------------------
\* The fates in an order: the cases of Fate exclude each other.
FateInTurn(e) ==
    IF ~(e <= Len(sent)) THEN "unsent"
    ELSE IF e \in applied THEN "applied"
    ELSE IF InQueue(e)    THEN "queued"
    ELSE IF e \notin acked THEN "waiting"
    ELSE IF env = e /\ pc \in {"handle", "send"} THEN "held" ELSE "dropped"

Fates == [e \in Envelopes |-> Fate(e)]

(***************************************************************************)
(* The fate of a press, before and after a step.                           *)
(***************************************************************************)
LEMMA FateIs ==
    ASSUME ListenerInv, ListenerInv', NEW e \in Envelopes
    PROVE  /\ Fates[e] = FateInTurn(e) /\ Fates'[e] = FateInTurn(e)'
           /\ Fates[e] \in Feed!Fates /\ Fates'[e] \in Feed!Fates
<1>1. e \in Int /\ Len(sent) \in Nat /\ Len(sent') \in Nat
  BY BoundsAreNat DEF ListenerInv, TypeOK, Envelopes, Widths
<1>2. applied \subseteq 1 .. Len(sent) /\ applied' \subseteq 1 .. Len(sent')
  BY DEF ListenerInv, TypeOK
<1>3. /\ InQueue(e) => e \in 1 .. Len(sent)
      /\ InQueue(e)' => e \in 1 .. Len(sent')
  BY DEF ListenerInv, QueuedWasSent
<1>4. 1 <= e
  BY BoundsAreNat DEF Envelopes, Widths
<1>5. Fate(e) = FateInTurn(e)
  BY <1>1, <1>2, <1>3, <1>4 DEF Fate, FateInTurn, Waiting
<1>6. Fate(e)' = FateInTurn(e)'
  BY <1>1, <1>2, <1>3, <1>4 DEF Fate, FateInTurn, Waiting
<1>7. FateInTurn(e) \in Feed!Fates /\ FateInTurn(e)' \in Feed!Fates
  BY DEF FateInTurn, Feed!Fates
<1> QED
  BY <1>5, <1>6, <1>7 DEF Fates

(***************************************************************************)
(* A press that a step leaves where it is keeps its fate.                  *)
(***************************************************************************)
LEMMA FateKept ==
    ASSUME ListenerInv, ListenerInv', NEW e \in Envelopes,
           sent' = sent, e \in applied' <=> e \in applied,
           InQueue(e)' <=> InQueue(e), e \in acked' <=> e \in acked,
           (env' = e /\ pc' \in {"handle", "send"})
             <=> (env = e /\ pc \in {"handle", "send"})
    PROVE  Fates'[e] = Fates[e]
BY FateIs DEF FateInTurn

(***************************************************************************)
(* A step that moves one press updates the fates at that press.            *)
(***************************************************************************)
LEMMA FatesUpdate ==
    ASSUME NEW p \in Envelopes, NEW f,
           \A e \in Envelopes \ {p} : Fates'[e] = Fates[e], Fates'[p] = f
    PROVE  Fates' = [Fates EXCEPT ![p] = f]
BY DEF Fates

(***************************************************************************)
(* A step that moves no press leaves the fates as they are.                *)
(***************************************************************************)
LEMMA FatesSame ==
    ASSUME \A e \in Envelopes : Fates'[e] = Fates[e]
    PROVE  Fates' = Fates
BY DEF Fates

\* What the feed sees of a step that moves no press.
Unmoved == Fates' = Fates /\ Valid' = Valid /\ (pc' # "down") = (pc # "down")

(***************************************************************************)
(* A step that sends nothing leaves the valid presses as they are.         *)
(***************************************************************************)
LEMMA ValidSame == ASSUME sent' = sent PROVE Valid' = Valid
<1>1. \A e \in 1 .. Len(sent) : Verdict(sent'[e]) = Verdict(sent[e])
  OBVIOUS
<1> QED
  BY <1>1 DEF Valid

(***************************************************************************)
(* The connection, the answers and the alerts move no press.               *)
(***************************************************************************)
LEMMA IdleStep ==
    ASSUME ListenerInv, ListenerInv', UNCHANGED <<sent, queues, applied>>,
           acked' = acked, pc # "down", pc' # "down",
           \/ UNCHANGED <<pc, env>>
           \/ pc \notin {"handle", "send"} /\ pc' \notin {"handle", "send"}
           \/ pc = "handle" /\ pc' = "send" /\ env' = env
    PROVE  Unmoved
<1>1. ASSUME NEW e \in Envelopes PROVE Fates'[e] = Fates[e]
  <2>1. InQueue(e)' <=> InQueue(e)
    BY DEF InQueue, queues
  <2> QED
    BY <2>1, FateKept
<1> QED
  BY <1>1, FatesSame, ValidSame DEF Unmoved

(***************************************************************************)
(* An acknowledgement that arrives takes the press from Slack, unless an   *)
(* earlier delivery has already brought it further.                        *)
(***************************************************************************)
LEMMA AckStep ==
    ASSUME ListenerInv, ListenerInv', AckArrives
    PROVE  Unmoved \/ Feed!Take(env)
<1> USE DEF slack, socket, queues, record
<1>0. env \in 1 .. Len(sent) /\ env \in Envelopes
  BY InHand DEF ListenerInv, AckArrives, Handling
<1>1. /\ pc = "ack" /\ pc' = "handle" /\ acked' = acked \cup {env} /\ env \notin acked
      /\ UNCHANGED <<sent, env, applied>> /\ \A e : InQueue(e)' <=> InQueue(e)
  BY DEF AckArrives, ListenerInv, Progress, InQueue
<1>2. \A e \in Envelopes \ {env} : Fates'[e] = Fates[e]
  BY <1>1, FateKept
<1>3. env <= Len(sent)
  BY <1>0
<1>4. Fates'[env] = Fates[env] \/ (Fates[env] = "waiting" /\ Fates'[env] = "held")
  BY <1>0, <1>1, <1>3, FateIs DEF FateInTurn
<1>5. Valid' = Valid /\ (pc' # "down") = (pc # "down") /\ pc # "down"
  BY <1>1, ValidSame
<1>6. CASE Fates'[env] = Fates[env]
  BY <1>2, <1>5, <1>6, FatesSame DEF Unmoved
<1>7. CASE Fates[env] = "waiting" /\ Fates'[env] = "held"
  BY <1>0, <1>2, <1>5, <1>7, FatesUpdate DEF Feed!Take, Fates
<1> QED
  BY <1>4, <1>6, <1>7

(***************************************************************************)
(* Handling refuses what is not valid, and moves nothing else.             *)
(***************************************************************************)
LEMMA HandleStep ==
    ASSUME ListenerInv, ListenerInv', Handle
    PROVE  Unmoved \/ Feed!Refuse(env)
<1> USE DEF slack, socket, queues, record
<1>0. env \in 1 .. Len(sent) /\ env \in Envelopes
  BY InHand DEF ListenerInv, Handle, Handling
<1>1. UNCHANGED <<sent, acked, applied>> /\ pc = "handle"
      /\ \A e : InQueue(e)' <=> InQueue(e)
  BY DEF Handle, InQueue
<1>2. Verdict(sent[env]) \in {"accepted", "denied", "ignored"}
  BY DEF Verdict
<1>3. CASE Verdict(sent[env]) = "accepted"
  <2>1. pc' = "send" /\ env' = env
    BY <1>3 DEF Handle
  <2> QED
    BY <1>1, <2>1, IdleStep DEF Handle
<1>4. CASE Verdict(sent[env]) # "accepted"
  <2>1. pc' \in {"respond", "read"}
    BY <1>2, <1>4 DEF Handle
  <2>2. \A e \in Envelopes \ {env} : Fates'[e] = Fates[e]
    <3> SUFFICES ASSUME NEW e \in Envelopes \ {env} PROVE Fates'[e] = Fates[e]
      OBVIOUS
    <3> QED
      BY <1>1, <2>1, FateKept
  <2>3. Fates'[env] = Fates[env] \/ (Fates[env] = "held" /\ Fates'[env] = "dropped")
    BY <1>0, <1>1, <2>1, FateIs DEF FateInTurn
  <2>4. Valid' = Valid /\ (pc' # "down") = (pc # "down") /\ pc # "down"
        /\ env \notin Valid
    BY <1>1, <1>4, <2>1, ValidSame DEF Valid
  <2>5. CASE Fates'[env] = Fates[env]
    BY <2>2, <2>4, <2>5, FatesSame DEF Unmoved
  <2>6. CASE Fates[env] = "held" /\ Fates'[env] = "dropped"
    BY <1>0, <2>2, <2>4, <2>6, FatesUpdate DEF Feed!Refuse, Fates
  <2> QED
    BY <2>3, <2>5, <2>6
<1> QED
  BY <1>3, <1>4

(***************************************************************************)
(* A hand-over queues the press in hand, if none of it is queued already.  *)
(***************************************************************************)
LEMMA HandOverStep ==
    ASSUME ListenerInv, ListenerInv', HandOver
    PROVE  Unmoved \/ Feed!Queue(env)
<1> USE DEF slack, socket, queues, record
<1>0. env \in 1 .. Len(sent) /\ env \in Envelopes
  BY InHand DEF ListenerInv, HandOver, Handling
<1>1. UNCHANGED <<sent, acked, applied>> /\ pc = "send" /\ pc' \in {"respond", "read"}
  BY DEF HandOver, SendDecision, SendCommand
<1>2. \A e : InQueue(e)' <=> InQueue(e) \/ e = env
  BY QueueGrows DEF ListenerInv
<1>3. \A e \in Envelopes \ {env} : Fates'[e] = Fates[e]
  <2> SUFFICES ASSUME NEW e \in Envelopes \ {env} PROVE Fates'[e] = Fates[e]
    OBVIOUS
  <2>1. env # 0 /\ env' \in {env, 0}
    BY <1>0 DEF HandOver, SendDecision, SendCommand
  <2>2. (InQueue(e)' <=> InQueue(e)) /\ e # env
    BY <1>2
  <2> QED
    BY <1>1, <2>2, FateKept
<1>4. \/ Fates'[env] = Fates[env]
      \/ Fates[env] \in {"held", "waiting"} /\ Fates'[env] = "queued"
  BY <1>0, <1>1, <1>2, FateIs DEF FateInTurn
<1>5. Valid' = Valid /\ (pc' # "down") = (pc # "down") /\ pc # "down"
      /\ env \in Valid
  BY <1>0, <1>1, ValidSame DEF Valid, ListenerInv, Progress
<1>6. CASE Fates'[env] = Fates[env]
  BY <1>3, <1>5, <1>6, FatesSame DEF Unmoved
<1>7. CASE Fates[env] \in {"held", "waiting"} /\ Fates'[env] = "queued"
  BY <1>0, <1>3, <1>5, <1>7, FatesUpdate DEF Feed!Queue, Fates
<1> QED
  BY <1>4, <1>6, <1>7

(***************************************************************************)
(* What the main loop takes is applied.                                    *)
(***************************************************************************)
LEMMA TakeStep ==
    ASSUME ListenerInv, ListenerInv', TakeDecision \/ TakeCommand
    PROVE  Unmoved \/ \E p \in Envelopes : Feed!Apply(p)
<1> USE DEF slack, socket, queues, record
<1>1. PICK p \in Envelopes :
        /\ InQueue(p) /\ applied' = applied \cup {p}
        /\ \A e : InQueue(e)' => InQueue(e)
        /\ \A e : e # p /\ InQueue(e) => InQueue(e)'
  BY QueueShrinks DEF ListenerInv
<1>2. UNCHANGED <<sent, acked, pc, env>>
  BY DEF TakeDecision, TakeCommand
<1>3. \A e \in Envelopes \ {p} : Fates'[e] = Fates[e]
  <2> SUFFICES ASSUME NEW e \in Envelopes \ {p} PROVE Fates'[e] = Fates[e]
    OBVIOUS
  <2>1. (InQueue(e)' <=> InQueue(e)) /\ (e \in applied' <=> e \in applied)
    BY <1>1
  <2> QED
    BY <1>2, <2>1, FateKept
<1>4. p \in 1 .. Len(sent)
  BY <1>1 DEF ListenerInv, QueuedWasSent
<1>5. \/ Fates'[p] = Fates[p]
      \/ Fates[p] = "queued" /\ Fates'[p] = "applied"
  BY <1>1, <1>2, <1>4, FateIs DEF FateInTurn
<1>6. Valid' = Valid /\ (pc' # "down") = (pc # "down")
  BY <1>2, ValidSame
<1>7. pc # "down"
  BY <1>1 DEF ListenerInv, Progress, InQueue
<1>8. CASE Fates'[p] = Fates[p]
  BY <1>3, <1>6, <1>8, FatesSame DEF Unmoved
<1>9. CASE Fates[p] = "queued" /\ Fates'[p] = "applied"
  BY <1>3, <1>6, <1>7, <1>9, FatesUpdate DEF Feed!Apply, Fates
<1> QED
  BY <1>5, <1>8, <1>9

(***************************************************************************)
(* A press or a command is a new envelope that waits for the listener.     *)
(***************************************************************************)
LEMMA SendStep ==
    ASSUME ListenerInv, ListenerInv',
           \/ \E u \in User, a \in Alert : PressButton(u, a)
           \/ \E u \in User : SlashCommand(u)
    PROVE  \E p \in Envelopes : Feed!Send(p)
<1> USE DEF slack, socket, queues, record
<1> DEFINE p == Len(sent) + 1
<1>0. Len(sent) \in Nat /\ Len(sent) < MaxPresses /\ p \in Envelopes
      /\ p \notin 1 .. Len(sent)
  BY BoundsAreNat DEF ListenerInv, TypeOK, PressButton, SlashCommand, Envelopes, Widths
<1>1. UNCHANGED <<acked, pc, env, queues, applied>> /\ \E q : sent' = Append(sent, q)
  BY DEF PressButton, SlashCommand
<1>2. /\ Len(sent') = Len(sent) + 1 /\ sent' \in Seq(Press)
      /\ \A e \in 1 .. Len(sent) : sent'[e] = sent[e]
  <2>1. sent \in Seq(Press)
    BY DEF ListenerInv, TypeOK
  <2> QED
    BY <1>1, <2>1 DEF ListenerInv, TypeOK
<1>3. \A e : InQueue(e)' <=> InQueue(e)
  BY <1>1 DEF InQueue
<1>4. p \notin applied /\ p \notin acked /\ ~InQueue(p)
  BY <1>0 DEF ListenerInv, TypeOK, QueuedWasSent
<1>5. Fates[p] = "unsent" /\ Fates'[p] = "waiting"
  BY <1>0, <1>1, <1>2, <1>3, <1>4, FateIs DEF FateInTurn
<1>6. \A e \in Envelopes \ {p} : Fates'[e] = Fates[e]
  <2> SUFFICES ASSUME NEW e \in Envelopes \ {p} PROVE Fates'[e] = Fates[e]
    OBVIOUS
  <2>1. e \in Int /\ (e <= Len(sent') <=> e <= Len(sent))
    BY <1>0, <1>2, BoundsAreNat DEF Envelopes, Widths
  <2> QED
    BY <1>1, <1>3, <2>1, FateIs DEF FateInTurn
<1>7. Valid' \in {Valid, Valid \cup {p}}
  <2>1. \A e \in 1 .. Len(sent) : Verdict(sent'[e]) = Verdict(sent[e])
    BY <1>2
  <2>2. \A e : e \in 1 .. Len(sent') <=> e \in 1 .. Len(sent) \/ e = p
    BY <1>0, <1>2
  <2> QED
    BY <2>1, <2>2 DEF Valid
<1>8. Fates' = [Fates EXCEPT ![p] = "waiting"]
  BY <1>0, <1>5, <1>6, FatesUpdate
<1> HIDE DEF p
<1> QED
  BY <1>0, <1>1, <1>5, <1>7, <1>8 DEF Feed!Send, Fates

(***************************************************************************)
(* A process that starts has moved nothing; one that dies loses what it    *)
(* held and what was queued, but for the presses Slack still waits with.   *)
(***************************************************************************)
LEMMA LifeStep ==
    ASSUME ListenerInv, ListenerInv', Boot \/ Crash \/ Exit
    PROVE  Feed!Start \/ Feed!Die
<1> USE DEF slack, socket, queues, record
<1>1. CASE Boot
  <2>1. \A e \in Envelopes : Fates'[e] = Fates[e]
    <3> SUFFICES ASSUME NEW e \in Envelopes PROVE Fates'[e] = Fates[e]
      OBVIOUS
    <3>1. (InQueue(e)' <=> InQueue(e)) /\ UNCHANGED <<sent, acked, applied, env>>
          /\ pc = "down" /\ pc' = "connect"
      BY <1>1 DEF Boot, InQueue
    <3> QED
      BY <3>1, FateKept
  <2>2. Fates' = Fates /\ Valid' = Valid
    BY <1>1, <2>1, FatesSame, ValidSame DEF Boot
  <2> QED
    BY <1>1, <2>2 DEF Boot, Feed!Start, Fates
<1>2. CASE Crash \/ Exit
  <2>1. pc # "down" /\ pc' = "down" /\ UNCHANGED <<sent, acked, applied>>
        /\ \A e : ~InQueue(e)'
    BY <1>2 DEF Crash, Exit, LoseProcess, InQueue
  <2>2. ASSUME NEW e \in Envelopes
        PROVE  IF Fates[e] \in {"held", "queued"}
               THEN Fates'[e] \in {"dropped", "waiting"}
               ELSE Fates'[e] = Fates[e]
    BY <2>1, FateIs DEF FateInTurn
  <2>3. Fates' \in [Envelopes -> Feed!Fates]
    BY FateIs DEF Fates
  <2>4. Valid' = Valid
    BY <2>1, ValidSame
  <2> QED
    BY <2>1, <2>2, <2>3, <2>4 DEF Feed!Die, Fates
<1> QED
  BY <1>1, <1>2

(***************************************************************************)
(* The listener implements the feed: each of its steps is a step of the    *)
(* feed or moves no press, so no order of crashes, reconnections and lost  *)
(* acknowledgements loses a valid press that the feed does not lose.       *)
(***************************************************************************)
THEOREM FeedImplemented == Spec => ImplementsFeed
<1>1. Init => Feed!Init
  <2> SUFFICES ASSUME Init PROVE Feed!Init
    OBVIOUS
  <2>1. ASSUME NEW e \in Envelopes PROVE Fate(e) = "unsent"
    BY <2>1, BoundsAreNat DEF Init, Fate, Waiting, InQueue, Envelopes, Widths
  <2>2. Valid = {} /\ pc = "down"
    BY DEF Init, Valid
  <2> QED
    BY <2>1, <2>2 DEF Feed!Init
<1>2. ListenerInv /\ ListenerInv' /\ [Next]_vars => Feed!Next \/ Unmoved
  <2> SUFFICES ASSUME ListenerInv, ListenerInv', [Next]_vars PROVE Feed!Next \/ Unmoved
    OBVIOUS
  <2> USE DEF slack, socket, queues, record
  <2>1. CASE AckArrives
    BY <2>1, AckStep, InHand DEF Feed!Next, ListenerInv, AckArrives, Handling
  <2>2. CASE Handle
    BY <2>2, HandleStep, InHand DEF Feed!Next, ListenerInv, Handle, Handling
  <2>3. CASE HandOver
    BY <2>3, HandOverStep, InHand DEF Feed!Next, ListenerInv, HandOver, Handling
  <2>4. CASE TakeDecision \/ TakeCommand
    BY <2>4, TakeStep DEF Feed!Next
  <2>5. CASE \/ \E u \in User, a \in Alert : PressButton(u, a)
             \/ \E u \in User : SlashCommand(u)
    BY <2>5, SendStep DEF Feed!Next
  <2>6. CASE Boot \/ Crash \/ Exit
    BY <2>6, LifeStep DEF Feed!Next
  <2>7. CASE Connect \/ Redial \/ Respond
    BY <2>7, IdleStep DEF Connect, Redial, Respond
  <2>8. CASE ConnectFails \/ ReadEnds \/ AckFails
    BY <2>8, IdleStep DEF ConnectFails, ReadEnds, AckFails, HangUp
  <2>9. ASSUME NEW e \in Envelopes, Read(e) PROVE Unmoved
    BY <2>9, IdleStep DEF Read
  <2>10. CASE AckLost
    <3>1. /\ pc = "ack" /\ pc' = "handle" /\ env \notin acked
          /\ UNCHANGED <<sent, acked, queues, applied, env>>
      BY <2>10 DEF AckLost, ListenerInv, Progress
    <3>2. ASSUME NEW e \in Envelopes PROVE Fates'[e] = Fates[e]
      <4>1. InQueue(e)' <=> InQueue(e)
        BY <3>1 DEF InQueue
      <4> QED
        BY <3>1, <4>1, FateIs DEF FateInTurn
    <3> QED
      BY <3>1, <3>2, FatesSame, ValidSame DEF Unmoved
  <2>11. CASE UNCHANGED <<sent, acked, applied, queues, pc, env>>
    <3>1. ASSUME NEW e \in Envelopes PROVE Fates'[e] = Fates[e]
      <4>1. InQueue(e)' <=> InQueue(e)
        BY <2>11 DEF InQueue
      <4> QED
        BY <2>11, <4>1, FateKept
    <3> QED
      BY <2>11, <3>1, FatesSame, ValidSame DEF Unmoved
  <2>12. CASE CloseOnCancel \/ Signal \/ \E a \in Alert : PostAlert(a)
    BY <2>11, <2>12 DEF CloseOnCancel, Signal, PostAlert
  <2>13. CASE UNCHANGED vars
    BY <2>11, <2>13 DEF vars
  <2> QED
    BY <2>1, <2>2, <2>3, <2>4, <2>5, <2>6, <2>7, <2>8, <2>9, <2>10, <2>12, <2>13
    DEF Next, Listener, Outside, MainLoop
<1>3. Unmoved => UNCHANGED <<[e \in Envelopes |-> Fate(e)], Valid, pc # "down">>
  BY DEF Unmoved, Fates
<1> QED
  BY <1>1, <1>2, <1>3, ListenerInvariant, PTL DEF Spec, ImplementsFeed, Feed!Spec
-----------------------------------------------------------------------------
(***************************************************************************)
(* What the feed alone is good for.                                        *)
(***************************************************************************)
TakenWereValid ==
    \A e \in Envelopes : Fates[e] \in {"queued", "applied"} => e \in Valid

LostByDeath ==
    \A e \in Envelopes :
        e \in Valid /\ Fates[e] # "dropped" /\ Fates'[e] = "dropped" => pc' = "down"

(***************************************************************************)
(* Whatever keeps the promise of the feed hands over only presses of users *)
(* who may make them and of buttons on offer, and drops one of these only  *)
(* in a step that ends the process: not for a full channel, a broken       *)
(* connection, a repetition or a refusal of another press.                 *)
(***************************************************************************)
THEOREM FeedSuffices == ImplementsFeed => []TakenWereValid /\ [][LostByDeath]_vars
<1> DEFINE Kept == UNCHANGED <<[e \in Envelopes |-> Fate(e)], Valid, pc # "down">>
<1>1. Feed!Init => TakenWereValid
  BY DEF Feed!Init, TakenWereValid, Fates
<1>2. ASSUME NEW e \in Envelopes, Feed!Next \/ Kept
      PROVE  /\ (Fates[e] \in {"queued", "applied"} => e \in Valid)
                  => (Fates'[e] \in {"queued", "applied"} => e \in Valid')
             /\ e \in Valid /\ Fates[e] # "dropped" /\ Fates'[e] = "dropped"
                  => pc' = "down"
  <2> DEFINE Goal == /\ (Fates[e] \in {"queued", "applied"} => e \in Valid)
                          => (Fates'[e] \in {"queued", "applied"} => e \in Valid')
                     /\ e \in Valid /\ Fates[e] # "dropped" /\ Fates'[e] = "dropped"
                          => pc' = "down"
  <2>1. ASSUME NEW p \in Envelopes, NEW f, Fates' = [Fates EXCEPT ![p] = f]
        PROVE  Fates'[e] = IF e = p THEN f ELSE Fates[e]
    BY <2>1 DEF Fates
  <2>2. ASSUME NEW p \in Envelopes, Feed!Send(p) PROVE Goal
    BY <2>1, <2>2 DEF Feed!Send, Fates
  <2>3. ASSUME NEW p \in Envelopes, Feed!Take(p) PROVE Goal
    BY <2>1, <2>3 DEF Feed!Take, Fates
  <2>4. ASSUME NEW p \in Envelopes, Feed!Refuse(p) PROVE Goal
    BY <2>1, <2>4 DEF Feed!Refuse, Fates
  <2>5. ASSUME NEW p \in Envelopes, Feed!Queue(p) PROVE Goal
    BY <2>1, <2>5 DEF Feed!Queue, Fates
  <2>6. ASSUME NEW p \in Envelopes, Feed!Apply(p) PROVE Goal
    BY <2>1, <2>6 DEF Feed!Apply, Fates
  <2>7. CASE Feed!Start \/ Kept
    BY <2>7 DEF Feed!Start, Fates
  <2>8. CASE Feed!Die
    BY <2>8 DEF Feed!Die, Fates
  <2> QED
    BY <1>2, <2>2, <2>3, <2>4, <2>5, <2>6, <2>7, <2>8 DEF Feed!Next
<1>3. TakenWereValid /\ (Feed!Next \/ Kept) => TakenWereValid'
  BY <1>2 DEF TakenWereValid
<1>4. Feed!Next \/ Kept => LostByDeath
  BY <1>2 DEF LostByDeath
<1> QED
  BY <1>1, <1>3, <1>4, PTL DEF ImplementsFeed, Feed!Spec
=============================================================================
