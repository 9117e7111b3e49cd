------------------------ MODULE BlockingCallsProofs ------------------------
(***************************************************************************)
(* The main goroutine's blocking calls keep what the notifier and the file *)
(* promise, for every value of the constants: each step of the composition *)
(* is a step or a stutter of either part.  The notifier's invariant is in  *)
(* NotifierProofs, the one of the file comes first here.                   *)
(***************************************************************************)
EXTENDS BlockingCalls, NotifierProofs

-----------------------------------------------------------------------------
(***************************************************************************)
(* The export file is never half written and the user is told the truth    *)
(* about it, for all lists of addresses.  The invariant behind both says   *)
(* how far the temporary file has come at each system call.                *)
(***************************************************************************)
InExport == {"mkdir", "create", "write", "close", "chmod", "rename"}

FileProgress ==
    /\ NeverHalfWritten
    /\ step # "idle" => list \in complete
    /\ step \in {"close", "chmod", "rename"} => temp = list
    /\ step \in InExport => target = before /\ outcome = "none"
    /\ step \in {"idle", "remove"} =>
         /\ outcome = "written" => target = list
         /\ outcome = "failed" => target = before

FileInv == FileTypeOK /\ FileProgress

(***************************************************************************)
(* The file as it is found at the start satisfies the invariant.           *)
(***************************************************************************)
LEMMA FileInitInv == FileInit => FileInv
<1> SUFFICES ASSUME FileInit PROVE FileInv
  OBVIOUS
<1>1. FileTypeOK
  BY DEF FileInit, FileTypeOK, Macs, Steps
<1>2. FileProgress
  BY DEF FileInit, FileProgress, NeverHalfWritten, InExport
<1> QED
  BY <1>1, <1>2 DEF FileInv

(***************************************************************************)
(* Every system call, a new export and the death of the process keep the   *)
(* types of the file variables.                                            *)
(***************************************************************************)
LEMMA FileTypeStep ==
    ASSUME FileTypeOK, FileNext \/ UNCHANGED fileVars
    PROVE  FileTypeOK'
<1> USE DEF FileTypeOK, Steps
<1>1. ASSUME NEW macs \in Lists, BeginExport(macs) PROVE FileTypeOK'
  <2>1. macs \in SUBSET Macs
    BY <1>1 DEF Macs
  <2> QED
    BY <1>1, <2>1 DEF BeginExport
<1>2. CASE MakeDir
  BY <1>2 DEF MakeDir, Fails
<1>3. CASE CreateTemp
  BY <1>3 DEF CreateTemp, Fails
<1>4. CASE WriteTemp
  <2>1. list \in SUBSET Macs
    BY DEF Macs
  <2> QED
    BY <1>4, <2>1 DEF WriteTemp, Fails
<1>5. CASE CloseTemp
  BY <1>5 DEF CloseTemp, Fails
<1>6. CASE ChmodTemp
  BY <1>6 DEF ChmodTemp, Fails
<1>7. CASE Rename
  BY <1>7 DEF Rename, Fails
<1>8. CASE RemoveTemp
  BY <1>8 DEF RemoveTemp
<1>9. CASE FileCrash
  BY <1>9 DEF FileCrash
<1>10. CASE UNCHANGED fileVars
  BY <1>10 DEF fileVars
<1> QED
  BY <1>1, <1>2, <1>3, <1>4, <1>5, <1>6, <1>7, <1>8, <1>9, <1>10
  DEF FileNext, FileStep

(***************************************************************************)
(* They keep the rest of the invariant too: only the rename changes the    *)
(* target, and the temporary file then holds the whole list.               *)
(***************************************************************************)
LEMMA FileProgressStep ==
    ASSUME FileTypeOK, FileProgress, FileNext \/ UNCHANGED fileVars
    PROVE  FileProgress'
<1> USE DEF FileProgress, NeverHalfWritten, InExport
<1>1. ASSUME NEW macs \in Lists, BeginExport(macs) PROVE FileProgress'
  BY <1>1 DEF BeginExport
<1>2. CASE MakeDir
  BY <1>2 DEF MakeDir, Fails
<1>3. CASE CreateTemp
  BY <1>3 DEF CreateTemp, Fails
<1>4. CASE WriteTemp
  BY <1>4 DEF WriteTemp, Fails
<1>5. CASE CloseTemp
  BY <1>5 DEF CloseTemp, Fails
<1>6. CASE ChmodTemp
  BY <1>6 DEF ChmodTemp, Fails
<1>7. CASE Rename
  BY <1>7 DEF Rename, Fails
<1>8. CASE RemoveTemp
  BY <1>8 DEF RemoveTemp
<1>9. CASE FileCrash
  BY <1>9 DEF FileCrash
<1>10. CASE UNCHANGED fileVars
  BY <1>10 DEF fileVars
<1> QED
  BY <1>1, <1>2, <1>3, <1>4, <1>5, <1>6, <1>7, <1>8, <1>9, <1>10
  DEF FileNext, FileStep

(***************************************************************************)
(* Both together: the invariant is inductive for the file alone and for    *)
(* whatever system leaves the file to these steps.                         *)
(***************************************************************************)
LEMMA FileInvStep ==
    ASSUME FileInv, FileNext \/ UNCHANGED fileVars
    PROVE  FileInv'
<1>1. FileTypeOK'
  BY FileTypeStep DEF FileInv
<1>2. FileProgress'
  BY FileProgressStep DEF FileInv
<1> QED
  BY <1>1, <1>2 DEF FileInv

(***************************************************************************)
(* It says what a reader of the file and the user of /writemacs rely on.   *)
(***************************************************************************)
LEMMA FileInvPromises == FileInv => NeverHalfWritten /\ ReportedTruthfully
BY DEF FileInv, FileProgress, ReportedTruthfully

-----------------------------------------------------------------------------
(***************************************************************************)
(* The two parts together.                                                 *)
(***************************************************************************)
CallsInv == NotifierInv /\ FileInv /\ ctx \in BOOLEAN

(***************************************************************************)
(* A step of the composition is, for the notifier, one of its own steps or *)
(* none.                                                                   *)
(***************************************************************************)
LEMMA NotifierPart == [Next]_vars => NotifierNext \/ UNCHANGED notifierVars
BY DEF Next, vars, Signal, Alerts, Export, Shutdown, Crash, Call, NotifierNext

(***************************************************************************)
(* And for the file.                                                       *)
(***************************************************************************)
LEMMA FilePart == [Next]_vars => FileNext \/ UNCHANGED fileVars
BY DEF Next, vars, Signal, Alerts, Export, Shutdown, Crash, Call, FileNext

(***************************************************************************)
(* The invariants of the two parts together are inductive.                 *)
(***************************************************************************)
LEMMA CallsInvariant == Spec => []CallsInv
<1>1. InitCalls => CallsInv
  BY NotifierInitInv, FileInitInv DEF InitCalls, CallsInv
<1>2. CallsInv /\ [Next]_vars => CallsInv'
  <2> SUFFICES ASSUME CallsInv, [Next]_vars PROVE CallsInv'
    OBVIOUS
  <2>1. NotifierInv'
    BY NotifierPart, NotifierInvStep DEF CallsInv
  <2>2. FileInv'
    BY FilePart, FileInvStep DEF CallsInv
  <2>3. ctx' \in BOOLEAN
    BY DEF CallsInv, Next, vars, Signal, Alerts, Export, Shutdown, Crash, Call
  <2> QED
    BY <2>1, <2>2, <2>3 DEF CallsInv
<1> QED
  BY <1>1, <1>2, PTL DEF Spec

(***************************************************************************)
(* Types, and at most maxRetries attempts, whatever the services answer.   *)
(***************************************************************************)
THEOREM TypeCorrect == Spec => []TypeOK
<1>1. CallsInv => TypeOK
  BY DEF CallsInv, TypeOK, NotifierInv, FileInv
<1> QED
  BY <1>1, CallsInvariant, PTL

(***************************************************************************)
(* One call delivers its alert at most once over HTTP, and at most once    *)
(* for each link the MQTT client had.                                      *)
(***************************************************************************)
THEOREM DeliveredOncePerLink == Spec => []OncePerLink
<1>1. CallsInv => OncePerLink
  BY NotifierInvPromises DEF CallsInv
<1> QED
  BY <1>1, CallsInvariant, PTL

(***************************************************************************)
(* A connected MQTT client with nothing left to publish is shown as        *)
(* "online", however many links and wills came before.                     *)
(***************************************************************************)
THEOREM SettledIsOnline == Spec => []OnlineWhenSettled
<1>1. CallsInv => OnlineWhenSettled
  BY NotifierInvPromises DEF CallsInv
<1> QED
  BY <1>1, CallsInvariant, PTL

(***************************************************************************)
(* A process that is gone is shown as "offline" or leaves a will behind    *)
(* that will say so, but for a handler that ran beside DisconnectMQTT.     *)
(***************************************************************************)
THEOREM GoneIsOfflineOrWilled == Spec => []OfflineOrWilled
<1>1. CallsInv => OfflineOrWilled
  BY NotifierInvPromises DEF CallsInv
<1> QED
  BY <1>1, CallsInvariant, PTL

(***************************************************************************)
(* A call that returns no error has delivered its alert.                   *)
(***************************************************************************)
THEOREM SentIsAccepted == Spec => []SentMeansAccepted
<1>1. CallsInv => SentMeansAccepted
  BY DEF CallsInv, NotifierInv
<1> QED
  BY <1>1, CallsInvariant, PTL

(***************************************************************************)
(* A rate limit is waited out and tried again up to maxRetries times,      *)
(* whatever the service asks for.                                          *)
(***************************************************************************)
THEOREM RateLimitsRespected == Spec => []RateLimitRespected
<1>1. CallsInv => RateLimitRespected
  BY DEF CallsInv, NotifierInv
<1> QED
  BY <1>1, CallsInvariant, PTL

(***************************************************************************)
(* The export file holds one whole list at every moment, through failing   *)
(* system calls and kills.                                                 *)
(***************************************************************************)
THEOREM FileNeverHalfWritten == Spec => []NeverHalfWritten
<1>1. CallsInv => NeverHalfWritten
  BY FileInvPromises DEF CallsInv
<1> QED
  BY <1>1, CallsInvariant, PTL

(***************************************************************************)
(* What an export reports to its user is what it did.                      *)
(***************************************************************************)
THEOREM ExportReportsTruthfully == Spec => []ReportedTruthfully
<1>1. CallsInv => ReportedTruthfully
  BY FileInvPromises DEF CallsInv
<1> QED
  BY <1>1, CallsInvariant, PTL
=============================================================================
