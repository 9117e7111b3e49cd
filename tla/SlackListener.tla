---------------------------- MODULE SlackListener ----------------------------
(***************************************************************************)
(* The Socket Mode listener: one goroutine that reads envelopes, acks each *)
(* before it handles it, hands what it accepts to the main loop on bounded *)
(* channels, and answers by replacing the alert.                           *)
(*                                                                         *)
(* Slack holds an envelope until it is acknowledged and repeats it on the  *)
(* next connection, in no promised order.  The main loop is only what it   *)
(* does to the channels.                                                   *)
(*                                                                         *)
(* A definition headed "Mistake:" is no part of the specification.         *)
(***************************************************************************)
EXTENDS Integers, Sequences, FiniteSets, Durations

CONSTANTS
    Alert,          \* alerts with buttons, each about one device
    User,
    AllowedUsers,   \* SLACK_ALLOWED_USERS
    Settings,       \* SLACK_ALLOW_DURATIONS, a sequence of settings
    OldLabels,      \* labels an earlier configuration put on alerts
    DecisionsCap, CommandsCap,      \* 8 and 4 in the code
    MaxPresses, MaxBoots,           \* bounds: presses, process starts
    MaxLost                         \* bound: lost acks, all of one envelope

ASSUME ListenerAssumption ==
    /\ AllowedUsers \subseteq User
    /\ Settings \in Seq(Setting) /\ OldLabels \subseteq STRING
    /\ {DecisionsCap, CommandsCap, MaxPresses, MaxBoots, MaxLost} \subseteq Nat

VARIABLES
    sent,       \* every press and slash command, in the order they were made
    acked,      \* the envelopes Slack will not repeat
    card,       \* what each alert looks like in the channel
    pc,         \* where the listener is; "down" when the process is
    open,       \* a Socket Mode connection is open
    env,        \* the envelope in hand, 0 for none
    decisions, commands,
    ctx, boots,
    losses,     \* history: lost acknowledgements of each envelope
    times,      \* history: how often each envelope was handed over
    applied     \* history: what the main loop has taken

slack   == <<sent, acked, card>>
queues  == <<decisions, commands>>
record  == <<losses, times, applied>>
socket  == <<pc, open, env>>
vars == <<slack, socket, queues, record, ctx, boots>>

-----------------------------------------------------------------------------
Envelopes == 1 .. MaxPresses

Durations == ParseAllowDurations(Settings)
Labels    == {Settings[i].label : i \in Durations}
Orders    == {"command", "other"}

Press == [kind : {"button"}, user : User, alert : Alert,
          what : {"permanent"} \cup Labels \cup OldLabels]
         \cup [kind : {"slash"}, user : User, what : Orders]

Handling == {"ack", "handle", "send", "respond"}
PCs      == {"down", "connect", "read", "wait", "stopped"} \cup Handling

Cards  == {"none", "stale", "fresh", "allowed", "denied"}
Choice == [press : Envelopes, until : {"permanent", "live", "lapsed"}]

Buttons(a) ==
    CASE card[a] = "fresh" -> {"permanent"} \cup Labels
      [] card[a] = "stale" -> {"permanent"} \cup OldLabels
      [] OTHER             -> {}

UserAllowed(u) == AllowedUsers = {} \/ u \in AllowedUsers

\* durationFor: the first configured duration with that label.
DurationFor(label) ==
    LET first == CHOOSE i \in Durations :
                   /\ Settings[i].label = label
                   /\ \A j \in Durations : Settings[j].label = label => i <= j
    IN ParseDuration(Settings[first])

(***************************************************************************)
(* An unknown slash command is ignored before its user is looked at, an    *)
(* unknown label after.                                                    *)
(***************************************************************************)
Verdict(p) ==
    CASE p.kind = "slash" /\ p.what = "other" -> "ignored"
      [] ~UserAllowed(p.user)                 -> "denied"
      [] p.kind = "button" /\ p.what \notin {"permanent"} \cup Labels -> "ignored"
      [] OTHER                                -> "accepted"

Until(p) == IF p.what = "permanent" THEN "permanent"
            ELSE Deadline(DurationFor(p.what))

\* The envelopes Slack still has to deliver.
Waiting == {e \in 1 .. Len(sent) : e \notin acked}

InQueue(e) == \/ \E i \in DOMAIN decisions : decisions[i].press = e
              \/ \E i \in DOMAIN commands : commands[i] = e

-----------------------------------------------------------------------------
Init ==
    /\ sent = <<>> /\ acked = {} /\ card \in [Alert -> {"none", "stale"}]
    /\ pc = "down" /\ open = FALSE /\ env = 0
    /\ decisions = <<>> /\ commands = <<>>
    /\ ctx = FALSE /\ boots = 0
    /\ losses = [e \in Envelopes |-> 0] /\ times = [e \in Envelopes |-> 0]
    /\ applied = {}

(***************************************************************************)
(* The listener.                                                           *)
(***************************************************************************)
\* Mistake: a connection that fails ends the listener.
HangUpForGood ==
    /\ pc' = "stopped" /\ open' = FALSE /\ env' = 0
    /\ UNCHANGED <<slack, queues, record, ctx, boots>>

\* listenOnce returns; Listen returns too if the context is cancelled.
HangUp ==
    /\ pc' = IF ctx THEN "stopped" ELSE "wait"
    /\ open' = FALSE /\ env' = 0
    /\ UNCHANGED <<slack, queues, record, ctx, boots>>

\* apps.connections.open, then the dial, which a cancelled context fails.
Connect ==
    /\ pc = "connect" /\ ~ctx
    /\ pc' = "read" /\ open' = TRUE
    /\ UNCHANGED <<slack, env, queues, record, ctx, boots>>

ConnectFails == pc = "connect" /\ HangUp

\* The five seconds before the next attempt.
Redial ==
    /\ pc = "wait" /\ pc' \in {"connect"} \cup (IF ctx THEN {"stopped"} ELSE {})
    /\ UNCHANGED <<slack, open, env, queues, record, ctx, boots>>

\* A "hello" changes nothing and is no step.
Read(e) ==
    /\ pc = "read" /\ open /\ e \in Waiting
    /\ pc' = "ack" /\ env' = e
    /\ UNCHANGED <<slack, open, queues, record, ctx, boots>>

\* A "disconnect" frame, or an error.
ReadEnds == pc = "read" /\ HangUp

AckArrives ==
    /\ pc = "ack" /\ open
    /\ acked' = acked \cup {env} /\ pc' = "handle"
    /\ UNCHANGED <<sent, card, open, env, queues, record, ctx, boots>>

\* The write succeeds, and the connection dies before Slack reads it.
AckLost ==
    /\ pc = "ack" /\ open /\ losses[env] < MaxLost
    /\ \A e \in Envelopes \ {env} : losses[e] = 0
    /\ losses' = [losses EXCEPT ![env] = @ + 1]
    /\ open' = FALSE /\ pc' = "handle"
    /\ UNCHANGED <<slack, env, queues, times, applied, ctx, boots>>

\* Mistake: the error of ack is ignored.
AckFailsUnnoticed ==
    /\ pc = "ack" /\ pc' = "handle" /\ open' = FALSE
    /\ UNCHANGED <<slack, env, queues, record, ctx, boots>>

AckFails == pc = "ack" /\ HangUp

\* Mistake: the alert is replaced before the decision is queued.
HandleRespondsFirst ==
    /\ pc = "handle"
    /\ LET p == sent[env] IN
         /\ pc' = CASE Verdict(p) = "accepted" -> "send"
                    [] Verdict(p) = "denied"   -> "respond"
                    [] Verdict(p) = "ignored"  -> "read"
         /\ card' = IF p.kind = "button" /\ Verdict(p) = "accepted"
                    THEN [card EXCEPT ![p.alert] = "allowed"] ELSE card
    /\ env' = IF pc' = "read" THEN 0 ELSE env
    /\ UNCHANGED <<sent, acked, open, queues, record, ctx, boots>>

Handle ==
    /\ pc = "handle"
    /\ pc' = CASE Verdict(sent[env]) = "accepted" -> "send"
               [] Verdict(sent[env]) = "denied"   -> "respond"
               [] Verdict(sent[env]) = "ignored"  -> "read"
    /\ env' = IF pc' = "read" THEN 0 ELSE env
    /\ UNCHANGED <<slack, open, queues, record, ctx, boots>>

\* Mistake: decisions go on a list without a limit.
SendDecisionAnyway ==
    /\ sent[env].kind = "button"
    /\ decisions' = Append(decisions, [press |-> env, until |-> Until(sent[env])])
    /\ pc' = "respond" /\ UNCHANGED <<commands, env>>

SendDecision ==
    /\ sent[env].kind = "button" /\ Len(decisions) < DecisionsCap
    /\ decisions' = Append(decisions, [press |-> env, until |-> Until(sent[env])])
    /\ pc' = "respond" /\ UNCHANGED <<commands, env>>

SendCommand ==
    /\ sent[env].kind = "slash" /\ Len(commands) < CommandsCap
    /\ commands' = Append(commands, env)
    /\ pc' = "read" /\ env' = 0 /\ UNCHANGED decisions

\* Mistake: what finds the channel full is dropped, as the event stream does.
HandOverOrDrop ==
    /\ pc = "send"
    /\ \/ /\ SendDecision \/ SendCommand
          /\ times' = [times EXCEPT ![env] = @ + 1]
       \/ /\ Len(decisions) = DecisionsCap /\ pc' = "read" /\ env' = 0
          /\ UNCHANGED <<queues, times>>
    /\ UNCHANGED <<slack, open, losses, applied, ctx, boots>>

\* A full channel blocks, and nothing but the main loop ends that.
HandOver ==
    /\ pc = "send"
    /\ SendDecision \/ SendCommand
    /\ times' = [times EXCEPT ![env] = @ + 1]
    /\ UNCHANGED <<slack, open, losses, applied, ctx, boots>>

\* The alert becomes the outcome, even a refusal, unless the POST fails; a
\* refused slash command is answered in private.
Respond ==
    /\ pc = "respond" /\ pc' = "read" /\ env' = 0
    /\ LET p == sent[env] IN
         \/ UNCHANGED card
         \/ /\ p.kind = "button"
            /\ card' = [card EXCEPT ![p.alert] =
                          IF Verdict(p) = "accepted" THEN "allowed" ELSE "denied"]
    /\ UNCHANGED <<sent, acked, open, queues, record, ctx, boots>>

\* The helper goroutine of a connection.
CloseOnCancel ==
    /\ ctx /\ open /\ open' = FALSE
    /\ UNCHANGED <<slack, pc, env, queues, record, ctx, boots>>

-----------------------------------------------------------------------------
(***************************************************************************)
(* Slack, its users and the network.                                       *)
(***************************************************************************)
\* As often as the buttons are there: a second press may be on its way
\* before the first one has replaced the alert.
PressButton(u, a) ==
    /\ Len(sent) < MaxPresses
    /\ \E what \in Buttons(a) :
         sent' = Append(sent, [kind |-> "button", user |-> u, alert |-> a,
                               what |-> what])
    /\ UNCHANGED <<acked, card, socket, queues, record, ctx, boots>>

SlashCommand(u) ==
    /\ Len(sent) < MaxPresses
    /\ \E order \in Orders :
         sent' = Append(sent, [kind |-> "slash", user |-> u, what |-> order])
    /\ UNCHANGED <<acked, card, socket, queues, record, ctx, boots>>

(***************************************************************************)
(* The main loop and the process.                                          *)
(***************************************************************************)
PostAlert(a) ==
    /\ pc # "down" /\ ~ctx
    /\ card[a] = "none" /\ card' = [card EXCEPT ![a] = "fresh"]
    /\ UNCHANGED <<sent, acked, socket, queues, record, ctx, boots>>

TakeDecision ==
    /\ decisions # <<>> /\ decisions' = Tail(decisions)
    /\ applied' = applied \cup {Head(decisions).press}
    /\ UNCHANGED <<slack, socket, commands, losses, times, ctx, boots>>

TakeCommand ==
    /\ commands # <<>> /\ commands' = Tail(commands)
    /\ applied' = applied \cup {Head(commands)}
    /\ UNCHANGED <<slack, socket, decisions, losses, times, ctx, boots>>

Boot ==
    /\ pc = "down" /\ boots < MaxBoots
    /\ boots' = boots + 1 /\ pc' = "connect"
    /\ UNCHANGED <<slack, open, env, queues, record, ctx>>

LoseProcess ==
    /\ pc' = "down" /\ open' = FALSE /\ env' = 0 /\ ctx' = FALSE
    /\ decisions' = <<>> /\ commands' = <<>>
    /\ UNCHANGED <<slack, record, boots>>

Crash == pc # "down" /\ LoseProcess

\* main returns without a look at the listener, which dies where it stands.
Exit == pc # "down" /\ ctx /\ LoseProcess

Signal ==
    /\ pc # "down" /\ ~ctx /\ ctx' = TRUE
    /\ UNCHANGED <<slack, socket, queues, record, boots>>

-----------------------------------------------------------------------------
Listener ==
    \/ Connect \/ ConnectFails \/ Redial \/ ReadEnds
    \/ AckArrives \/ AckLost \/ AckFails
    \/ Handle \/ HandOver \/ Respond \/ CloseOnCancel
    \/ \E e \in Envelopes : Read(e)

Outside ==
    \/ \E u \in User : SlashCommand(u) \/ \E a \in Alert : PressButton(u, a)
    \/ Boot \/ Signal

MainLoop == TakeDecision \/ TakeCommand \/ \E a \in Alert : PostAlert(a)

Next == Listener \/ Outside \/ MainLoop \/ Crash \/ Exit

Spec == Init /\ [][Next]_vars

-----------------------------------------------------------------------------
(***************************************************************************)
(* How far a press has come, and the promise it is a part of.              *)
(***************************************************************************)
Fate(e) ==
    CASE e > Len(sent)                       -> "unsent"
      [] e \in applied                       -> "applied"
      [] e \notin applied /\ InQueue(e)      -> "queued"
      [] e \in Waiting \ applied /\ ~InQueue(e) -> "waiting"
      [] OTHER -> IF env = e /\ pc \in {"handle", "send"}
                  THEN "held" ELSE "dropped"

Valid == {e \in 1 .. Len(sent) : Verdict(sent[e]) = "accepted"}

Feed == INSTANCE SlackFeed WITH
    Press <- Envelopes, fate <- [e \in Envelopes |-> Fate(e)],
    valid <- Valid, up <- pc # "down"
=============================================================================
