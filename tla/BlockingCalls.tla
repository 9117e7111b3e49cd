---------------------------- MODULE BlockingCalls ----------------------------
(***************************************************************************)
(* The two things the main goroutine does between two visits to its select *)
(* that take a while and reach outside: delivering an alert (Notifier) and *)
(* writing the list of addresses to a file (MacsFile).  It does one at a   *)
(* time and sees SIGTERM only at the select; kill -9 comes at any moment.  *)
(***************************************************************************)
EXTENDS Notifier, MacsFile

VARIABLE ctx    \* SIGTERM has come

vars == <<notifierVars, fileVars, ctx>>

InitCalls == Init /\ FileInit /\ ctx = FALSE

AtSelect == phase = "idle" /\ step = "idle"

Signal ==
    /\ phase # "gone" /\ ~ctx /\ ctx' = TRUE
    /\ UNCHANGED <<notifierVars, fileVars>>

Alerts ==
    /\ AtSelect /\ \E a \in Alert : BeginSend(a)
    /\ UNCHANGED <<fileVars, ctx>>

Export ==
    /\ AtSelect /\ \E macs \in Lists : BeginExport(macs)
    /\ UNCHANGED <<notifierVars, ctx>>

Shutdown == AtSelect /\ ctx /\ BeginClose /\ UNCHANGED <<fileVars, ctx>>

Crash == Killed /\ FileCrash /\ UNCHANGED ctx

Call == \/ InCall /\ UNCHANGED <<fileVars, ctx>>
        \/ FileStep /\ UNCHANGED <<notifierVars, ctx>>

Next ==
    \/ Signal \/ Alerts \/ Export \/ Shutdown \/ Crash \/ Call
    \/ Beside /\ UNCHANGED <<fileVars, ctx>>

Spec == InitCalls /\ [][Next]_vars

(***************************************************************************)
(* Fairness.  Every call is bounded by a timeout and goes on; the select   *)
(* picks ctx.Done in the end; the client's goroutines run, a link that     *)
(* stays up carries what is given to it, and the broker notices a client   *)
(* that is gone.  Nothing is assumed of links, signals or crashes.         *)
(***************************************************************************)
Fairness ==
    /\ WF_vars(Call) /\ SF_vars(Shutdown)
    /\ WF_vars(Hello /\ UNCHANGED <<fileVars, ctx>>)
    /\ WF_vars(Publish /\ UNCHANGED <<fileVars, ctx>>)
    /\ WF_vars(WillFires /\ UNCHANGED <<fileVars, ctx>>)

FairSpec == Spec /\ Fairness

(***************************************************************************)
(* Every variable keeps its type; a call makes at most maxRetries attempts.*)
(***************************************************************************)
TypeOK == NotifierTypeOK /\ FileTypeOK /\ ctx \in BOOLEAN

(***************************************************************************)
(* SIGTERM ends the process, also in the middle of an alert the service    *)
(* keeps refusing for now, or of an export.                                *)
(***************************************************************************)
SignalEnds == ctx ~> phase = "gone"
=============================================================================
