--------------------------- MODULE SlackProperties ---------------------------
(***************************************************************************)
(* What the Slack listener of SlackListener.tla promises, and the fairness *)
(* under which its liveness is checked.                                    *)
(***************************************************************************)
EXTENDS SlackListener

(***************************************************************************)
(* Every variable keeps its type; the two channels keep to their capacity  *)
(* and the listener has an envelope in hand exactly while it works on one. *)
(***************************************************************************)
TypeOK ==
    /\ sent \in Seq(Press) /\ Len(sent) <= MaxPresses
    /\ acked \subseteq 1 .. Len(sent) /\ card \in [Alert -> Cards]
    /\ pc \in PCs /\ open \in BOOLEAN
    /\ env \in 0 .. Len(sent) /\ (env # 0) = (pc \in Handling)
    /\ decisions \in Seq(Choice) /\ Len(decisions) <= DecisionsCap
    /\ commands \in Seq(Envelopes) /\ Len(commands) <= CommandsCap
    /\ ctx \in BOOLEAN /\ boots \in 0 .. MaxBoots
    /\ losses \in [Envelopes -> 0 .. MaxLost] /\ times \in [Envelopes -> Nat]
    /\ applied \subseteq 1 .. Len(sent)

(***************************************************************************)
(* An alert says "allowed" only once a decision about its device has been  *)
(* handed to the main loop, however long the listener waited for room.     *)
(***************************************************************************)
ToldMeansQueued ==
    \A a \in Alert : card[a] = "allowed" =>
        \E e \in 1 .. Len(sent) :
            sent[e].kind = "button" /\ sent[e].alert = a /\ times[e] > 0

(***************************************************************************)
(* A press is handed over again only if Slack missed an acknowledgement:   *)
(* failed writes, reconnections and restarts alone repeat nothing.         *)
(***************************************************************************)
OnceUnlessAckLost == \A e \in Envelopes : times[e] <= 1 + losses[e]

(***************************************************************************)
(* A temporary allow from a button is one still to come when it is made,   *)
(* if its length in nanoseconds fits an int64: parseAllowDurations leaves  *)
(* no button of length zero on offer, nor one whose seconds have wrapped   *)
(* below it.                                                               *)
(***************************************************************************)
ButtonsAllow ==
    \A i \in DOMAIN decisions :
        LET label == sent[decisions[i].press].what IN
        label # "permanent" /\ DurationFor(label) * Nanos <= MaxInt =>
            decisions[i].until = "live"

(***************************************************************************)
(* The listener is a feed: what a running process has taken from Slack and *)
(* found valid reaches the main loop, at least once, and only a crash or a *)
(* shutdown between acknowledgement and select loses it.                   *)
(***************************************************************************)
ImplementsFeed == Feed!Spec

(***************************************************************************)
(* Fairness.  The listener and the main loop run when they can, and Go's   *)
(* select takes each ready channel in the end.  Dialling, reading and      *)
(* acknowledging succeed at last if they are tried again and again, for    *)
(* whichever envelope Slack sends.  Nothing is assumed of users, crashes   *)
(* or responses.                                                           *)
(***************************************************************************)
Fairness ==
    /\ WF_vars(Listener) /\ WF_vars(TakeDecision) /\ WF_vars(TakeCommand)
    /\ SF_vars(Connect) /\ SF_vars(AckArrives)
    /\ SF_vars(\E e \in Envelopes : Read(e))

FairSpec == Spec /\ Fairness

(***************************************************************************)
(* A valid press is applied in the end while the process lives, over lost  *)
(* connections, lost acknowledgements and full channels.                   *)
(***************************************************************************)
PressApplied ==
    \A e \in Envelopes :
        (e \in Valid \cap Waiting /\ pc # "down") ~>
            (e \in applied \/ ctx \/ pc = "down")
=============================================================================
