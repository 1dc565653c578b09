--------------------------- MODULE SettingsProofs ---------------------------
(***************************************************************************)
(* Proofs about Settings, for every number of calls, of requests and of      *)
(* restarts: GetGlobalSSHKeyPair implements WriteOnce, and the schedule      *)
(* follows the rows.                                                        *)
(***************************************************************************)
EXTENDS Settings, TLAPS

KeyTypes ==
    /\ sshKey \in Callers \cup {None}
    /\ calls \in [Callers -> Call]

KeysOK == KeyTypes /\ OneInsert /\ ReadsKey

-----------------------------------------------------------------------------
(* Frames *)

\* The clock and the worker of the report.
ReportStep == ReportTick \/ SendReport \/ SendFail \/ RetryReport

\* Only the calls themselves and a restart change the key or a call.
OtherStep ==
    \/ \E r \in Requests, in \in Inputs : UpdateSettings(r, in)
    \/ \E r \in Requests : UpdateStep(r) \/ UpdateFail(r)
    \/ Initialize
    \/ InitializeFail
    \/ ReportStep

\* The settings page, the start, the clock and the worker leave the key and the calls alone.
LEMMA KeyFrame == OtherStep => UNCHANGED keyVars
<1>1. ASSUME NEW r \in Requests, NEW in \in Inputs, UpdateSettings(r, in) PROVE UNCHANGED keyVars
  BY <1>1 DEF UpdateSettings, keyVars
<1>2. ASSUME NEW r \in Requests, UpdateStep(r) PROVE UNCHANGED keyVars
  BY <1>2 DEF UpdateStep, SetDefaultSSHPullUser, SetAskToCopyPublicKey, SetSMTPSettingsRead,
     SetSMTPSettingsWrite, ReadFrequency, SetEmailFrequency, RemoveReportJob, AddReportJob,
     reqFrame, keyVars
<1>3. ASSUME NEW r \in Requests, UpdateFail(r) PROVE UNCHANGED keyVars
  BY <1>3 DEF UpdateFail, keyVars
<1>4. Initialize \/ InitializeFail \/ ReportStep => UNCHANGED keyVars
  BY DEF Initialize, InitializeFail, ReportStep, ReportTick, SendReport, SendFail, RetryReport, keyVars
<1> QED
  BY <1>1, <1>2, <1>3, <1>4 DEF OtherStep

\* A step is one of a call, a restart, or one of the others.
LEMMA StepKinds == Next => (\E c \in Callers : KeyNext(c)) \/ Restart \/ OtherStep
BY DEF Next, OtherStep, ReportStep

-----------------------------------------------------------------------------
(* The invariant *)

LEMMA KeysInit == Init => KeysOK
BY SettingsAssumption DEF Init, KeysOK, KeyTypes, OneInsert, ReadsKey, Call, NoCall

\* What a call may become while the stored key stays.
Allowed(e) ==
    /\ e \in Call
    /\ e.inserted => e.pc = "commit" /\ sshKey = None /\ \A d \in Callers : ~calls[d].inserted
    /\ e.pc = "commit" => e.inserted \/ sshKey # None
    /\ e.pc = "final" => sshKey # None
    /\ e.answer # None => e.answer = sshKey
    /\ e.pc # "idle" => e.answer = None

LEMMA CallKeeps ==
    ASSUME KeysOK, NEW c \in Callers, NEW e, Allowed(e),
           calls' = [calls EXCEPT ![c] = e], sshKey' = sshKey
    PROVE  KeysOK'
<1>1. KeyTypes'
  BY DEF KeysOK, KeyTypes, Allowed
<1>2. calls'[c] = e /\ \A d \in Callers \ {c} : calls'[d] = calls[d]
  BY DEF KeysOK, KeyTypes
<1>3. OneInsert'
  BY <1>2 DEF KeysOK, OneInsert, Allowed
<1>4. ReadsKey'
  BY <1>2 DEF KeysOK, ReadsKey, Allowed
<1> QED
  BY <1>1, <1>3, <1>4 DEF KeysOK

\* The ends of a call: an answer, or nothing.
LEMMA EndAllowed ==
    ASSUME KeysOK
    PROVE  Allowed(NoCall) /\ (sshKey # None => Allowed([NoCall EXCEPT !.answer = sshKey]))
BY SettingsAssumption DEF Allowed, NoCall, Call, KeysOK, KeyTypes

\* A call that goes on to a place where it holds nothing yet.
LEMMA MoveAllowed ==
    ASSUME KeysOK, NEW c \in Callers, ~calls[c].inserted, calls[c].answer = None,
           NEW pc \in {"generate", "ensure"}
    PROVE  Allowed([calls[c] EXCEPT !.pc = pc])
BY SettingsAssumption DEF Allowed, Call, KeysOK, KeyTypes

LEMMA KeyGetKeeps ==
    ASSUME KeysOK, NEW c \in Callers, KeyGet(c) \/ KeyGetInTx(c)
    PROVE  KeysOK'
<1>1. sshKey' = sshKey
  BY DEF KeyGet, KeyGetInTx
<1>2. ~calls[c].inserted /\ calls[c].answer = None
  BY DEF KeyGet, KeyGetInTx, KeysOK, OneInsert, ReadsKey
<1>3. CASE sshKey # None
  <2>1. calls' = [calls EXCEPT ![c] = [NoCall EXCEPT !.answer = sshKey]]
    BY <1>3 DEF KeyGet, KeyGetInTx, Answered
  <2> QED
    BY <1>1, <1>3, <2>1, EndAllowed, CallKeeps
<1>4. CASE sshKey = None
  <2>1. PICK pc \in {"generate", "ensure"} : calls' = [calls EXCEPT ![c].pc = pc]
    BY <1>4 DEF KeyGet, KeyGetInTx
  <2>2. calls' = [calls EXCEPT ![c] = [calls[c] EXCEPT !.pc = pc]]
    BY <2>1 DEF KeysOK, KeyTypes
  <2> QED
    BY <1>1, <1>2, <2>2, MoveAllowed, CallKeeps
<1> QED
  BY <1>3, <1>4

LEMMA KeyEnsureKeeps ==
    ASSUME KeysOK, NEW c \in Callers, KeyEnsure(c)
    PROVE  KeysOK'
<1> DEFINE e == [calls[c] EXCEPT !.pc = "commit", !.inserted = (sshKey = None)]
<1>1. calls' = [calls EXCEPT ![c] = e] /\ sshKey' = sshKey
  BY DEF KeyEnsure, KeysOK, KeyTypes
<1>2. calls[c] \in Call /\ calls[c].answer = None
  BY DEF KeyEnsure, KeysOK, KeyTypes, ReadsKey
<1>3. (sshKey = None) \in BOOLEAN
  OBVIOUS
<1>4. e \in Call
  BY <1>2, <1>3 DEF Call
<1>5. e.pc = "commit" /\ e.inserted = (sshKey = None) /\ e.answer = None
  BY <1>2 DEF Call
<1> HIDE DEF e
<1>6. Allowed(e)
  BY <1>4, <1>5 DEF Allowed, KeyEnsure
<1> QED
  BY <1>1, <1>6, CallKeeps

LEMMA KeyCommitKeeps ==
    ASSUME KeysOK, NEW c \in Callers, KeyCommit(c)
    PROVE  KeysOK'
<1> DEFINE e == [calls[c] EXCEPT !.pc = "final", !.inserted = FALSE]
<1>1. calls' = [calls EXCEPT ![c] = e]
  BY DEF KeyCommit, KeysOK, KeyTypes
<1>2. calls[c] \in Call /\ calls[c].answer = None
  BY DEF KeyCommit, KeysOK, KeyTypes, ReadsKey
<1>3. e \in Call /\ e.pc = "final" /\ e.inserted = FALSE /\ e.answer = None
  BY <1>2 DEF Call
<1>4. c # None
  BY SettingsAssumption
<1> HIDE DEF e
<1>5. CASE ~calls[c].inserted
  <2>1. sshKey' = sshKey /\ sshKey # None
    BY <1>5 DEF KeyCommit, KeysOK, ReadsKey
  <2>2. Allowed(e)
    BY <1>3, <2>1 DEF Allowed
  <2> QED
    BY <1>1, <2>1, <2>2, CallKeeps
<1>6. CASE calls[c].inserted
  <2>1. sshKey' = c /\ sshKey = None
    BY <1>6 DEF KeyCommit, KeysOK, OneInsert
  <2>2. calls'[c] = e /\ \A d \in Callers \ {c} : calls'[d] = calls[d]
    BY <1>1 DEF KeysOK, KeyTypes
  <2>3. KeyTypes'
    BY <1>1, <1>3, <2>1 DEF KeysOK, KeyTypes
  <2>4. \A d \in Callers : ~calls'[d].inserted
    BY <1>3, <1>6, <2>2 DEF KeysOK, OneInsert
  <2>5. OneInsert'
    BY <2>4 DEF OneInsert
  <2>6. \A d \in Callers : calls[d].answer = None
    BY <2>1 DEF KeysOK, ReadsKey
  <2>7. ReadsKey'
    BY <1>3, <1>4, <2>1, <2>2, <2>6 DEF ReadsKey
  <2> QED
    BY <2>3, <2>5, <2>7 DEF KeysOK
<1> QED
  BY <1>5, <1>6

LEMMA KeyEndKeeps ==
    ASSUME KeysOK, NEW c \in Callers, KeyFinal(c) \/ KeyFail(c)
    PROVE  KeysOK'
<1>1. CASE KeyFinal(c)
  <2>1. sshKey' = sshKey /\ sshKey # None
    BY <1>1 DEF KeyFinal, KeysOK, ReadsKey
  <2>2. calls' = [calls EXCEPT ![c] = [NoCall EXCEPT !.answer = sshKey]]
    BY <1>1 DEF KeyFinal, Answered
  <2> QED
    BY <2>1, <2>2, EndAllowed, CallKeeps
<1>2. CASE KeyFail(c)
  BY <1>2, EndAllowed, CallKeeps DEF KeyFail
<1> QED
  BY <1>1, <1>2

LEMMA RestartKeeps == KeysOK /\ Restart => KeysOK'
BY SettingsAssumption DEF Restart, KeysOK, KeyTypes, OneInsert, ReadsKey, Call, NoCall

LEMMA KeysStep == KeysOK /\ [Next]_vars => KeysOK'
<1> SUFFICES ASSUME KeysOK, [Next]_vars PROVE KeysOK'
  OBVIOUS
<1>1. UNCHANGED keyVars => KeysOK'
  BY DEF KeysOK, KeyTypes, OneInsert, ReadsKey, keyVars
<1>2. ASSUME NEW c \in Callers, KeyNext(c) PROVE KeysOK'
  BY <1>2, KeyGetKeeps, KeyEnsureKeeps, KeyCommitKeeps, KeyEndKeeps DEF KeyNext
<1>3. CASE Restart
  BY <1>3, RestartKeeps
<1>4. CASE OtherStep
  BY <1>1, <1>4, KeyFrame
<1>5. CASE UNCHANGED vars
  BY <1>1, <1>5 DEF vars, keyVars
<1> QED
  BY <1>2, <1>3, <1>4, <1>5, StepKinds

\* However the calls of GetGlobalSSHKeyPair interleave with each other, with failures and
\* restarts, at most one of their transactions holds an insert, none once a key is stored, and
\* every call that comes to its last read finds the key.
THEOREM KeyInvariant == Spec => []KeysOK
BY KeysInit, KeysStep, PTL DEF Spec

-----------------------------------------------------------------------------
(* The refinement *)

\* A call that ends with the stored key, or without one, is a step of the promise.
LEMMA AnswerRefines ==
    ASSUME KeysOK, NEW c \in Callers, sshKey # None, sshKey' = sshKey,
           calls' = [calls EXCEPT ![c] = [NoCall EXCEPT !.answer = sshKey]]
    PROVE  Keys!Answer(c)
<1>1. \A d \in Callers : calls'[d].answer = IF d = c THEN sshKey ELSE calls[d].answer
  BY DEF KeysOK, KeyTypes, NoCall
<1> QED
  BY <1>1 DEF Keys!Answer, Answers

\* What WriteOnce sees of the state.
Seen == <<sshKey, Answers>>

\* A step that changes neither the key nor an answer is not seen.
LEMMA Unseen ==
    ASSUME sshKey' = sshKey, \A d \in Callers : calls'[d].answer = calls[d].answer
    PROVE  UNCHANGED Seen
BY DEF Seen, Answers

LEMMA KeyNextRefines ==
    ASSUME KeysOK, NEW c \in Callers, KeyNext(c)
    PROVE  Keys!Next \/ UNCHANGED Seen
<1>1. CASE (KeyGet(c) \/ KeyGetInTx(c)) /\ sshKey # None
  <2>1. Keys!Answer(c)
    BY <1>1, AnswerRefines DEF KeyGet, KeyGetInTx, Answered
  <2> QED
    BY <2>1 DEF Keys!Next
<1>2. CASE (KeyGet(c) \/ KeyGetInTx(c)) /\ sshKey = None
  BY <1>2, Unseen DEF KeyGet, KeyGetInTx, KeysOK, KeyTypes, Call
<1>3. CASE KeyEnsure(c)
  BY <1>3, Unseen DEF KeyEnsure, KeysOK, KeyTypes, Call
<1>4. CASE KeyCommit(c)
  <2>1. \A d \in Callers : calls'[d].answer = calls[d].answer
    BY <1>4 DEF KeyCommit, KeysOK, KeyTypes, Call
  <2>2. CASE calls[c].inserted
    <3>1. sshKey = None /\ sshKey' = c
      BY <1>4, <2>2 DEF KeyCommit, KeysOK, OneInsert
    <3>2. Keys!Choose(c)
      BY <2>1, <3>1 DEF Keys!Choose, Answers
    <3> QED
      BY <3>2 DEF Keys!Next
  <2>3. CASE ~calls[c].inserted
    BY <1>4, <2>1, <2>3, Unseen DEF KeyCommit
  <2> QED
    BY <2>2, <2>3
<1>5. CASE KeyFinal(c)
  <2>1. sshKey # None
    BY <1>5 DEF KeyFinal, KeysOK, ReadsKey
  <2>2. Keys!Answer(c)
    BY <1>5, <2>1, AnswerRefines DEF KeyFinal, Answered
  <2> QED
    BY <2>2 DEF Keys!Next
<1>6. CASE KeyFail(c)
  <2>1. calls[c].answer = None
    BY <1>6 DEF KeyFail, KeysOK, ReadsKey
  <2> QED
    BY <1>6, <2>1, Unseen DEF KeyFail, KeysOK, KeyTypes, NoCall
<1> QED
  BY <1>1, <1>2, <1>3, <1>4, <1>5, <1>6 DEF KeyNext

LEMMA StepRefines ==
    ASSUME KeysOK, [Next]_vars
    PROVE  [Keys!Next]_Seen
<1>1. ASSUME NEW c \in Callers, KeyNext(c) PROVE Keys!Next \/ UNCHANGED Seen
  BY <1>1, KeyNextRefines
<1>2. CASE Restart
  <2>1. Keys!Forget
    BY <1>2 DEF Restart, Keys!Forget, NoCall, Answers
  <2> QED
    BY <2>1 DEF Keys!Next
<1>3. CASE OtherStep
  BY <1>3, KeyFrame, Unseen DEF keyVars
<1>4. CASE UNCHANGED vars
  BY <1>4, Unseen DEF vars
<1> QED
  BY <1>1, <1>2, <1>3, <1>4, StepKinds

LEMMA InitRefines == Init => Keys!Init
BY DEF Init, Keys!Init, NoCall, Answers

\* GetGlobalSSHKeyPair implements WriteOnce: one key pair is ever stored, and every call that
\* is answered is answered with it.
THEOREM KeyWrittenOnce == Spec => KeyIsWrittenOnce
<1>1. KeysOK /\ [Next]_vars => [Keys!Next]_<<sshKey, Answers>>
  BY StepRefines DEF Seen
<1> QED
  BY <1>1, InitRefines, KeyInvariant, PTL DEF Spec, KeyIsWrittenOnce, Keys!Spec

-----------------------------------------------------------------------------
(* The schedule *)

RowTypes ==
    /\ smtp \in SMTP \cup {None}
    /\ freq \in Frequencies \cup {None}
    /\ user \in Users \cup {None}
    /\ ask \in BOOLEAN \cup {None}
    /\ job \in Hours \cup {None}
    /\ mu \in Requests \cup {None}
    /\ calm \in BOOLEAN

ScheduleOK ==
    /\ RowTypes
    /\ up \in BOOLEAN
    /\ req \in [Requests -> Request]
    /\ JobFollowsSettings
    /\ RequestsOK
    /\ OneAtATime
    /\ DownOK

\* What ScheduleOK is about.
ScheduleState == <<rowVars, scheduleVars, req, calm>>

LEMMA NoRequestType == NoRequest \in Request
BY DEF NoRequest, Request, NoInput, Input

LEMMA ScheduleInit == Init => ScheduleOK
<1> SUFFICES ASSUME Init PROVE ScheduleOK
  OBVIOUS
<1>1. RowTypes /\ up \in BOOLEAN
  BY DEF Init, RowTypes
<1>2. req \in [Requests -> Request]
  BY NoRequestType DEF Init
<1>3. \A r \in Requests : req[r].pc = "idle"
  BY DEF Init, NoRequest
<1>4. RequestsOK
  BY <1>3, SettingsAssumption DEF Init, RequestsOK, RequestOK
<1> QED
  BY <1>1, <1>2, <1>3, <1>4 DEF Init, ScheduleOK, JobFollowsSettings, OneAtATime, DownOK, InProgress

LEMMA ScheduleFrame == ScheduleOK /\ UNCHANGED ScheduleState => ScheduleOK'
BY DEF ScheduleOK, ScheduleState, rowVars, scheduleVars, RowTypes, JobFollowsSettings, InProgress, WantedJob,
   GetEmailFrequency, GetSMTPSettings, RequestsOK, RequestOK, OneAtATime, DownOK

\* Calls for the key, the clock and the worker leave the schedule and the rows alone.
LEMMA KeyNextSchedule ==
    ASSUME NEW c \in Callers, KeyNext(c)
    PROVE  UNCHANGED ScheduleState
BY DEF KeyNext, KeyGet, KeyGetInTx, KeyEnsure, KeyCommit, KeyFinal, KeyFail, keyFrame, ScheduleState,
   rowVars, scheduleVars

LEMMA ReportSchedule == ReportStep => UNCHANGED ScheduleState
BY DEF ReportStep, ReportTick, SendReport, SendFail, RetryReport, ScheduleState, rowVars, scheduleVars

-----------------------------------------------------------------------------
(* A step of one request *)

\* Request r becomes q.  A step that leaves calm has no other request beside it.
Advances(r, q) ==
    /\ up /\ up'
    /\ RowTypes'
    /\ q \in Request
    /\ req' = [req EXCEPT ![r] = q]
    /\ calm' => calm /\ \A s \in Requests \ {r} : req[s].pc = "idle"
    /\ \A s \in Requests \ {r} : mu' = s <=> mu = s
    /\ RequestOK(r, q)'
    /\ calm' /\ q.pc = "idle" => (job = WantedJob)'

LEMMA RequestFrame ==
    ASSUME ScheduleOK, NEW r \in Requests, NEW q, Advances(r, q)
    PROVE  ScheduleOK'
<1>1. req' \in [Requests -> Request]
  BY DEF ScheduleOK, Advances
<1>2. req'[r] = q /\ \A s \in Requests \ {r} : req'[s] = req[s]
  BY DEF ScheduleOK, Advances
<1>3. RequestOK(r, req[r])'
  BY <1>2 DEF Advances
<1>4. ASSUME NEW s \in Requests \ {r} PROVE RequestOK(s, req[s])'
  <2>1. RequestOK(s, req[s])
    BY DEF ScheduleOK, RequestsOK
  <2>2. (mu' = s <=> mu = s) /\ (calm' => req'[s].pc = "idle") /\ req'[s] = req[s]
    BY <1>2 DEF Advances
  <2> QED
    BY <2>1, <2>2 DEF RequestOK
<1>5. RequestsOK'
  BY <1>3, <1>4 DEF RequestsOK
<1>6. OneAtATime'
  BY <1>2 DEF OneAtATime, Advances
<1>7. DownOK'
  BY DEF DownOK, Advances
<1>8. JobFollowsSettings'
  BY <1>2 DEF JobFollowsSettings, InProgress, Advances
<1>9. up' \in BOOLEAN
  BY DEF Advances
<1> QED
  BY <1>1, <1>5, <1>6, <1>7, <1>8, <1>9 DEF ScheduleOK, Advances

\* What holds when a request takes a step.
LEMMA InStep ==
    ASSUME ScheduleOK, NEW r \in Requests, req[r].pc # "idle"
    PROVE  /\ up
           /\ req[r] \in Request
           /\ RequestOK(r, req[r])
           /\ calm => \A s \in Requests \ {r} : req[s].pc = "idle"
BY DEF ScheduleOK, DownOK, InProgress, RequestsOK, OneAtATime

Places == {"idle", "user", "ask", "smtpRead", "smtpWrite", "freqRead", "freqWrite", "set", "add"}

\* A request that is moved keeps what it knows, until it ends.
LEMMA MovedRequest ==
    ASSUME ScheduleOK, NEW r \in Requests, NEW pc \in Places
    PROVE  \E q \in Request :
              /\ Moved(r, pc) = [req EXCEPT ![r] = q]
              /\ q.pc = pc
              /\ pc # "idle" => q.in = req[r].in /\ q.old = req[r].old /\ q.freq = req[r].freq
<1>1. req[r] \in Request
  BY DEF ScheduleOK
<1>2. CASE pc = "idle"
  <2>1. Moved(r, pc) = [req EXCEPT ![r] = NoRequest] /\ NoRequest.pc = pc
    BY <1>2 DEF Moved, NoRequest
  <2> QED
    BY <1>2, <2>1, NoRequestType
<1>3. CASE pc # "idle"
  <2>1. PICK q0 \in Request : q0 = req[r]
    BY <1>1
  <2>2. [q0 EXCEPT !.pc = pc] \in Request
    BY DEF Request, Places
  <2>3. /\ [q0 EXCEPT !.pc = pc].pc = pc
        /\ [q0 EXCEPT !.pc = pc].in = q0.in
        /\ [q0 EXCEPT !.pc = pc].old = q0.old
        /\ [q0 EXCEPT !.pc = pc].freq = q0.freq
    BY DEF Request
  <2>4. Moved(r, pc) = [req EXCEPT ![r] = [q0 EXCEPT !.pc = pc]]
    BY <1>3, <2>1 DEF Moved, ScheduleOK
  <2> QED
    BY <2>1, <2>2, <2>3, <2>4
<1> QED
  BY <1>2, <1>3

\* Where the handler goes on: a part is entered only when the request has its field.
LEMMA AfterParts ==
    ASSUME NEW in
    PROVE  /\ AfterAsk(in) \in {"idle", "smtpRead", "smtpWrite", "freqWrite"}
           /\ AfterAsk(in) \in {"smtpRead", "smtpWrite"} => in.hour # None
           /\ AfterAsk(in) = "smtpWrite" => in.secret # None
           /\ AfterAsk(in) = "freqWrite" => in.freq # None
           /\ AfterUser(in) \in {AfterAsk(in), "ask"}
BY DEF AfterAsk, AfterUser

\* A request that has read or changed nothing of the schedule yet.
LEMMA PartMoves ==
    ASSUME ScheduleOK, NEW r \in Requests, req[r].pc \in {"user", "ask"},
           NEW pc \in {"idle", "ask", "smtpRead", "smtpWrite", "freqWrite"},
           pc \in {"smtpRead", "smtpWrite"} => req[r].in.hour # None,
           pc = "smtpWrite" => req[r].in.secret # None,
           pc = "freqWrite" => req[r].in.freq # None,
           req' = Moved(r, pc), user' \in Users \cup {None}, ask' \in BOOLEAN \cup {None},
           UNCHANGED <<smtp, freq, scheduleVars, calm>>
    PROVE  ScheduleOK'
<1>1. /\ up /\ RequestOK(r, req[r])
      /\ calm => \A s \in Requests \ {r} : req[s].pc = "idle"
  BY InStep
<1>2. PICK q \in Request : /\ req' = [req EXCEPT ![r] = q]
                           /\ q.pc = pc
                           /\ pc # "idle" => q.in = req[r].in
  BY MovedRequest DEF Places
<1>3. up' /\ job' = job /\ mu' = mu /\ (calm' => calm) /\ WantedJob' = WantedJob
  BY <1>1 DEF scheduleVars, WantedJob, GetEmailFrequency, GetSMTPSettings
<1>4. RowTypes'
  BY DEF ScheduleOK, RowTypes, scheduleVars
<1>5. mu # r /\ (calm => job = WantedJob)
  BY <1>1 DEF RequestOK
<1>6. RequestOK(r, q)'
  BY <1>2, <1>3, <1>5 DEF RequestOK
<1>7. Advances(r, q)
  BY <1>1, <1>2, <1>3, <1>4, <1>5, <1>6 DEF Advances
<1> QED
  BY <1>7, RequestFrame

LEMMA SetDefaultSSHPullUserKeeps ==
    ASSUME ScheduleOK, NEW r \in Requests, SetDefaultSSHPullUser(r)
    PROVE  ScheduleOK'
<1>1. req[r].in \in Input
  BY DEF ScheduleOK, Request
<1>2. user' \in Users \cup {None} /\ ask' \in BOOLEAN \cup {None}
  BY <1>1 DEF SetDefaultSSHPullUser, Input, ScheduleOK, RowTypes
<1> QED
  BY <1>2, AfterParts, PartMoves DEF SetDefaultSSHPullUser

LEMMA SetAskToCopyPublicKeyKeeps ==
    ASSUME ScheduleOK, NEW r \in Requests, SetAskToCopyPublicKey(r)
    PROVE  ScheduleOK'
<1>1. req[r].in \in Input
  BY DEF ScheduleOK, Request
<1>2. user' \in Users \cup {None} /\ ask' \in BOOLEAN \cup {None}
  BY <1>1 DEF SetAskToCopyPublicKey, Input, ScheduleOK, RowTypes
<1> QED
  BY <1>2, AfterParts, PartMoves DEF SetAskToCopyPublicKey

\* A request that begins has the rows and the job as they are, or another one beside it.
LEMMA UpdateSettingsKeeps ==
    ASSUME ScheduleOK, NEW r \in Requests, NEW in \in Inputs, UpdateSettings(r, in)
    PROVE  ScheduleOK'
<1> DEFINE pc == IF in.user # None THEN "user" ELSE AfterUser(in)
<1>1. in \in Input
  BY InputsAssumption
<1>2. pc \in {"idle", "user", "ask", "smtpRead", "smtpWrite", "freqWrite"}
  BY AfterParts
<1>3. /\ pc \in {"smtpRead", "smtpWrite"} => in.hour # None
      /\ pc = "smtpWrite" => in.secret # None
      /\ pc = "freqWrite" => in.freq # None
  BY AfterParts
<1>4. req' = [req EXCEPT ![r] = [NoRequest EXCEPT !.pc = pc, !.in = in]]
  BY DEF UpdateSettings
<1> HIDE DEF pc
<1>5. PICK q \in Request : q = [NoRequest EXCEPT !.pc = pc, !.in = in] /\ q.pc = pc /\ q.in = in
  <2>1. PICK pc0 \in Places : pc0 = pc
    BY <1>2 DEF Places
  <2>2. [NoRequest EXCEPT !.pc = pc0, !.in = in] \in Request
    BY <1>1, NoRequestType DEF Request, Places
  <2>3. [NoRequest EXCEPT !.pc = pc0, !.in = in].pc = pc0 /\ [NoRequest EXCEPT !.pc = pc0, !.in = in].in = in
    BY DEF NoRequest
  <2> QED
    BY <2>1, <2>2, <2>3
<1>6. calm' \in BOOLEAN
  BY Zenon DEF UpdateSettings
<1>7. calm' => calm /\ InProgress = {}
  BY Zenon DEF UpdateSettings
<1>8. up /\ req[r].pc = "idle" /\ UNCHANGED <<rowVars, scheduleVars>>
  BY DEF UpdateSettings
<1>9. up' /\ job' = job /\ mu' = mu /\ WantedJob' = WantedJob
  BY <1>8 DEF rowVars, scheduleVars, WantedJob, GetEmailFrequency, GetSMTPSettings
<1>10. RowTypes'
  BY <1>6, <1>8 DEF ScheduleOK, RowTypes, rowVars, scheduleVars
<1>11. mu # r /\ (calm' => job = WantedJob)
  BY <1>7, <1>8 DEF ScheduleOK, RequestsOK, RequestOK, JobFollowsSettings
<1>12. RequestOK(r, q)'
  BY <1>2, <1>3, <1>5, <1>9, <1>11 DEF RequestOK
<1>13. calm' => calm /\ \A s \in Requests \ {r} : req[s].pc = "idle"
  BY <1>7 DEF InProgress
<1>14. Advances(r, q)
  BY <1>4, <1>5, <1>8, <1>9, <1>10, <1>11, <1>12, <1>13 DEF Advances
<1> QED
  BY <1>14, RequestFrame

\* The password is read to be written back.
LEMMA SetSMTPSettingsReadKeeps ==
    ASSUME ScheduleOK, NEW r \in Requests, SetSMTPSettingsRead(r)
    PROVE  ScheduleOK'
<1>1. /\ up /\ RequestOK(r, req[r])
      /\ calm => \A s \in Requests \ {r} : req[s].pc = "idle"
  BY InStep DEF SetSMTPSettingsRead
<1>2. PICK q0 \in Request, old \in Secrets \cup {None} : q0 = req[r] /\ old = GetSMTPSettings.secret
  <2>1. GetSMTPSettings.secret \in Secrets \cup {None}
    BY DEF GetSMTPSettings, ScheduleOK, RowTypes, SMTP
  <2> QED
    BY <2>1 DEF ScheduleOK
<1>3. PICK q \in Request : /\ q = [q0 EXCEPT !.pc = "smtpWrite", !.old = old]
                           /\ q.pc = "smtpWrite" /\ q.old = old /\ q.in = q0.in
  <2>1. [q0 EXCEPT !.pc = "smtpWrite", !.old = old] \in Request
    BY DEF Request
  <2> QED
    BY <2>1 DEF Request
<1>4. req' = [req EXCEPT ![r] = q] /\ req[r].pc = "smtpRead"
  BY <1>2, <1>3 DEF SetSMTPSettingsRead
<1>5. UNCHANGED <<rowVars, scheduleVars, calm>>
  BY DEF SetSMTPSettingsRead
<1>6. /\ up' /\ job' = job /\ mu' = mu /\ (calm' => calm) /\ WantedJob' = WantedJob
      /\ GetSMTPSettings' = GetSMTPSettings
  BY <1>1, <1>5 DEF rowVars, scheduleVars, WantedJob, GetEmailFrequency, GetSMTPSettings
<1>7. RowTypes'
  BY <1>5 DEF ScheduleOK, RowTypes, rowVars, scheduleVars
<1>8. RequestOK(r, q)'
  BY <1>1, <1>2, <1>3, <1>4, <1>6 DEF RequestOK
<1>9. Advances(r, q)
  BY <1>1, <1>3, <1>4, <1>6, <1>7, <1>8 DEF Advances
<1> QED
  BY <1>9, RequestFrame

LEMMA SetSMTPSettingsWriteKeeps ==
    ASSUME ScheduleOK, NEW r \in Requests, SetSMTPSettingsWrite(r)
    PROVE  ScheduleOK'
<1>1. /\ up /\ RequestOK(r, req[r]) /\ req[r] \in Request
      /\ calm => \A s \in Requests \ {r} : req[s].pc = "idle"
  BY InStep DEF SetSMTPSettingsWrite
<1>2. PICK q \in Request : req' = [req EXCEPT ![r] = q] /\ q.pc = "freqRead"
  BY MovedRequest DEF SetSMTPSettingsWrite, Places
<1>3. SMTPRow(req[r]) \in SMTP
  <2>1. req[r].in \in Input /\ req[r].old \in Secrets \cup {None}
    BY <1>1 DEF Request
  <2>2. req[r].in.hour \in Hours \cup {None} /\ req[r].in.secret \in Secrets \cup {None}
    BY <2>1 DEF Input
  <2>3. req[r].in.hour # None
    BY <1>1 DEF RequestOK, SetSMTPSettingsWrite
  <2> QED
    BY <2>1, <2>2, <2>3 DEF SMTPRow, SMTP
<1>4. smtp' \in SMTP /\ UNCHANGED <<freq, user, ask, scheduleVars, calm>>
  BY <1>3 DEF SetSMTPSettingsWrite
<1>5. up' /\ job' = job /\ mu' = mu /\ (calm' => calm)
  BY <1>1, <1>4 DEF scheduleVars
<1>6. RowTypes'
  BY <1>4 DEF ScheduleOK, RowTypes, scheduleVars
<1>7. mu # r
  BY <1>1 DEF RequestOK, SetSMTPSettingsWrite
<1>8. RequestOK(r, q)'
  BY <1>2, <1>5, <1>7 DEF RequestOK
<1>9. Advances(r, q)
  BY <1>1, <1>2, <1>5, <1>6, <1>8 DEF Advances
<1> QED
  BY <1>9, RequestFrame

LEMMA FrequencyType ==
    ASSUME ScheduleOK
    PROVE  GetEmailFrequency \in Frequencies /\ GetSMTPSettings.hour \in Hours
<1>1. GetEmailFrequency \in Frequencies
  BY DEF GetEmailFrequency, Frequencies, ScheduleOK, RowTypes
<1>2. GetSMTPSettings.hour \in Hours
  BY SettingsAssumption DEF GetSMTPSettings, ScheduleOK, RowTypes, SMTP
<1> QED
  BY <1>1, <1>2

\* The schedule is set with the stored frequency.
LEMMA ReadFrequencyKeeps ==
    ASSUME ScheduleOK, NEW r \in Requests, ReadFrequency(r)
    PROVE  ScheduleOK'
<1>1. /\ up /\ RequestOK(r, req[r])
      /\ calm => \A s \in Requests \ {r} : req[s].pc = "idle"
  BY InStep DEF ReadFrequency
<1>2. PICK q0 \in Request, f \in Frequencies : q0 = req[r] /\ f = GetEmailFrequency
  BY FrequencyType DEF ScheduleOK
<1>3. PICK q \in Request : q = [q0 EXCEPT !.pc = "set", !.freq = f] /\ q.pc = "set" /\ q.freq = f
  <2>1. [q0 EXCEPT !.pc = "set", !.freq = f] \in Request
    BY DEF Request
  <2> QED
    BY <2>1 DEF Request
<1>4. req' = [req EXCEPT ![r] = q] /\ req[r].pc = "freqRead"
  BY <1>2, <1>3 DEF ReadFrequency
<1>5. UNCHANGED <<rowVars, scheduleVars, calm>>
  BY DEF ReadFrequency
<1>6. /\ up' /\ job' = job /\ mu' = mu /\ (calm' => calm)
      /\ GetEmailFrequency' = GetEmailFrequency
  BY <1>1, <1>5 DEF rowVars, scheduleVars, GetEmailFrequency
<1>7. RowTypes'
  BY <1>5 DEF ScheduleOK, RowTypes, rowVars, scheduleVars
<1>8. f # None
  BY SettingsAssumption
<1>9. RequestOK(r, q)'
  BY <1>1, <1>2, <1>3, <1>4, <1>6, <1>8 DEF RequestOK
<1>10. Advances(r, q)
  BY <1>1, <1>3, <1>4, <1>6, <1>7, <1>9 DEF Advances
<1> QED
  BY <1>10, RequestFrame

\* The records of a request that has its frequency, and the hour for it.
LEMMA SetRecord ==
    ASSUME NEW q \in Request, NEW f \in Frequencies, NEW last \in BOOLEAN
    PROVE  /\ [q EXCEPT !.pc = "set", !.freq = f, !.last = last] \in Request
           /\ [q EXCEPT !.pc = "set", !.freq = f, !.last = last].pc = "set"
           /\ [q EXCEPT !.pc = "set", !.freq = f, !.last = last].freq = f
BY DEF Request

LEMMA AddRecord ==
    ASSUME NEW q \in Request, NEW h \in Hours
    PROVE  /\ [q EXCEPT !.pc = "add", !.hour = h] \in Request
           /\ [q EXCEPT !.pc = "add", !.hour = h].pc = "add"
           /\ [q EXCEPT !.pc = "add", !.hour = h].hour = h
           /\ [q EXCEPT !.pc = "add", !.hour = h].freq = q.freq
BY DEF Request

LEMMA SetEmailFrequencyKeeps ==
    ASSUME ScheduleOK, NEW r \in Requests, SetEmailFrequency(r)
    PROVE  ScheduleOK'
<1>1. /\ up /\ RequestOK(r, req[r]) /\ req[r] \in Request
      /\ calm => \A s \in Requests \ {r} : req[s].pc = "idle"
  BY InStep DEF SetEmailFrequency
<1>2. req[r].in.freq \in Frequencies
  <2>1. req[r].in \in Input
    BY <1>1 DEF Request
  <2>2. req[r].in.freq \in Frequencies \cup {None}
    BY <2>1 DEF Input
  <2> QED
    BY <1>1, <2>2 DEF RequestOK, SetEmailFrequency
<1>3. PICK q0 \in Request, f \in Frequencies : q0 = req[r] /\ f = req[r].in.freq
  BY <1>1, <1>2
<1>4. PICK q \in Request : /\ q = [q0 EXCEPT !.pc = "set", !.freq = f, !.last = TRUE]
                           /\ q.pc = "set" /\ q.freq = f
  BY SetRecord
<1>5. req' = [req EXCEPT ![r] = q] /\ freq' = f
  BY <1>3, <1>4 DEF SetEmailFrequency
<1>6. UNCHANGED <<smtp, user, ask, scheduleVars, calm>>
  BY DEF SetEmailFrequency
<1>7. f # None
  BY SettingsAssumption
<1>8. up' /\ job' = job /\ mu' = mu /\ (calm' => calm) /\ GetEmailFrequency' = f
  BY <1>1, <1>5, <1>6, <1>7 DEF scheduleVars, GetEmailFrequency
<1>9. RowTypes'
  BY <1>5, <1>6 DEF ScheduleOK, RowTypes, scheduleVars
<1>10. mu # r
  BY <1>1 DEF RequestOK, SetEmailFrequency
<1>11. RequestOK(r, q)'
  BY <1>4, <1>7, <1>8, <1>10 DEF RequestOK
<1>12. Advances(r, q)
  BY <1>1, <1>4, <1>5, <1>8, <1>9, <1>11 DEF Advances
<1> QED
  BY <1>12, RequestFrame

\* After SetEmailReportJob the frequency part is left, when it has not been done.
LEMMA AfterSetParts ==
    ASSUME NEW q
    PROVE  AfterSet(q) \in {"idle", "freqWrite"} /\ (AfterSet(q) = "freqWrite" => q.in.freq # None)
BY DEF AfterSet

\* The step that ends SetEmailReportJob with the job that the rows ask for.
LEMMA JobSet ==
    ASSUME ScheduleOK, NEW r \in Requests, req[r].pc # "idle",
           req' = Moved(r, AfterSet(req[r])), mu' = None, mu \in {None, r},
           job' \in Hours \cup {None}, calm => job' = WantedJob,
           UNCHANGED <<rowVars, up, calm>>
    PROVE  ScheduleOK'
<1>1. /\ up
      /\ calm => \A s \in Requests \ {r} : req[s].pc = "idle"
  BY InStep
<1>2. PICK q \in Request : /\ req' = [req EXCEPT ![r] = q]
                           /\ q.pc = AfterSet(req[r])
                           /\ q.pc # "idle" => q.in = req[r].in
  <2>1. PICK pc \in Places : pc = AfterSet(req[r])
    BY AfterSetParts DEF Places
  <2>2. PICK q \in Request : /\ Moved(r, pc) = [req EXCEPT ![r] = q]
                             /\ q.pc = pc
                             /\ pc # "idle" => q.in = req[r].in
    BY MovedRequest
  <2> QED
    BY <2>1, <2>2
<1>3. up' /\ (calm' => calm) /\ WantedJob' = WantedJob
  BY <1>1 DEF rowVars, WantedJob, GetEmailFrequency, GetSMTPSettings
<1>4. RowTypes'
  BY DEF ScheduleOK, RowTypes, rowVars
<1>5. mu' # r /\ \A s \in Requests \ {r} : mu' # s /\ mu # s
  BY SettingsAssumption
<1>6. RequestOK(r, q)'
  BY <1>2, <1>5, AfterSetParts DEF RequestOK
<1>7. Advances(r, q)
  BY <1>1, <1>2, <1>3, <1>4, <1>5, <1>6 DEF Advances
<1> QED
  BY <1>7, RequestFrame

LEMMA RemoveReportJobKeeps ==
    ASSUME ScheduleOK, NEW r \in Requests, RemoveReportJob(r)
    PROVE  ScheduleOK'
<1>1. /\ up /\ RequestOK(r, req[r]) /\ req[r] \in Request
      /\ calm => \A s \in Requests \ {r} : req[s].pc = "idle"
  BY InStep DEF RemoveReportJob
<1>2. /\ req[r].pc = "set" /\ mu = None /\ job' = None
      /\ UNCHANGED <<rowVars, up, calm>>
  BY DEF RemoveReportJob
<1>3. calm => req[r].freq = GetEmailFrequency
  BY <1>1, <1>2 DEF RequestOK
<1>4. CASE req[r].freq = "daily"
  <2>1. PICK q0 \in Request, h \in Hours : q0 = req[r] /\ h = GetSMTPSettings.hour
    BY <1>1, FrequencyType
  <2>2. PICK q \in Request : /\ q = [q0 EXCEPT !.pc = "add", !.hour = h]
                             /\ q.pc = "add" /\ q.hour = h /\ q.freq = q0.freq
    BY AddRecord
  <2>3. req' = [req EXCEPT ![r] = q] /\ mu' = r
    BY <1>4, <2>1, <2>2 DEF RemoveReportJob
  <2>4. calm => WantedJob = h
    BY <1>3, <1>4, <2>1 DEF WantedJob
  <2>5. /\ up' /\ (calm' => calm) /\ WantedJob' = WantedJob
        /\ GetEmailFrequency' = GetEmailFrequency
    BY <1>1, <1>2 DEF rowVars, WantedJob, GetEmailFrequency, GetSMTPSettings
  <2>6. RowTypes'
    BY <1>2, <2>3 DEF ScheduleOK, RowTypes, rowVars
  <2>7. h # None /\ req[r].freq # None /\ \A s \in Requests \ {r} : mu' # s /\ mu # s
    BY <1>1, <1>2, <2>3, SettingsAssumption DEF RequestOK
  <2>8. RequestOK(r, q)'
    BY <1>3, <2>1, <2>2, <2>3, <2>4, <2>5, <2>7 DEF RequestOK
  <2>9. Advances(r, q)
    BY <1>1, <2>2, <2>3, <2>5, <2>6, <2>7, <2>8 DEF Advances
  <2> QED
    BY <2>9, RequestFrame
<1>5. CASE req[r].freq # "daily"
  <2>1. req' = Moved(r, AfterSet(req[r])) /\ mu' = mu
    BY <1>5 DEF RemoveReportJob
  <2>2. calm => job' = WantedJob
    BY <1>2, <1>3, <1>5 DEF WantedJob
  <2> QED
    BY <1>2, <2>1, <2>2, JobSet
<1> QED
  BY <1>4, <1>5

LEMMA AddReportJobKeeps ==
    ASSUME ScheduleOK, NEW r \in Requests, AddReportJob(r)
    PROVE  ScheduleOK'
<1>1. RequestOK(r, req[r]) /\ req[r] \in Request
  BY InStep DEF AddReportJob
<1>2. mu = r /\ req[r].hour \in Hours \cup {None} /\ (calm => req[r].hour = WantedJob)
  BY <1>1 DEF RequestOK, AddReportJob, Request
<1> QED
  BY <1>2, JobSet DEF AddReportJob

\* An error ends the request, and with it the calm.
LEMMA UpdateFailKeeps ==
    ASSUME ScheduleOK, NEW r \in Requests, UpdateFail(r)
    PROVE  ScheduleOK'
<1>1. up
  BY InStep DEF UpdateFail
<1>2. PICK q \in Request : q = NoRequest /\ q.pc = "idle"
  BY NoRequestType DEF NoRequest
<1>3. req' = [req EXCEPT ![r] = q] /\ ~calm' /\ calm' \in BOOLEAN /\ UNCHANGED <<rowVars, up, job>>
  <2>1. ~calm' /\ calm' \in BOOLEAN
    BY Zenon DEF UpdateFail
  <2> QED
    BY <1>2, <2>1 DEF UpdateFail
<1>4. mu' # r /\ mu' \in Requests \cup {None} /\ \A s \in Requests \ {r} : mu' = s <=> mu = s
  BY SettingsAssumption DEF UpdateFail, ScheduleOK, RowTypes
<1>5. RowTypes'
  BY <1>3, <1>4 DEF ScheduleOK, RowTypes, rowVars
<1>6. RequestOK(r, q)'
  BY <1>2, <1>3, <1>4 DEF RequestOK
<1>7. Advances(r, q)
  BY <1>1, <1>2, <1>3, <1>4, <1>5, <1>6 DEF Advances
<1> QED
  BY <1>7, RequestFrame

-----------------------------------------------------------------------------
(* Start and restart *)

LEMMA InitializeKeeps == ScheduleOK /\ Initialize => ScheduleOK'
<1> SUFFICES ASSUME ScheduleOK, Initialize PROVE ScheduleOK'
  OBVIOUS
<1>1. /\ ~up /\ job' = WantedJob
      /\ UNCHANGED <<rowVars, mu, req, calm>>
  BY DEF Initialize, WantedJob
<1>2. up' /\ up' \in BOOLEAN
  BY Zenon DEF Initialize
<1>3. \A r \in Requests : req[r].pc = "idle"
  BY <1>1 DEF ScheduleOK, DownOK, InProgress
<1>4. WantedJob' = WantedJob
  BY <1>1 DEF rowVars, WantedJob, GetEmailFrequency, GetSMTPSettings
<1>5. job' \in Hours \cup {None}
  BY <1>1, FrequencyType DEF WantedJob
<1>6. RowTypes'
  BY <1>1, <1>5 DEF ScheduleOK, RowTypes, rowVars
<1>7. RequestsOK'
  BY <1>1, <1>3 DEF ScheduleOK, RequestsOK, RequestOK
<1>8. OneAtATime' /\ DownOK' /\ JobFollowsSettings'
  BY <1>1, <1>2, <1>3, <1>4 DEF OneAtATime, DownOK, JobFollowsSettings
<1>9. req' \in [Requests -> Request]
  BY <1>1 DEF ScheduleOK
<1> QED
  BY <1>2, <1>6, <1>7, <1>8, <1>9 DEF ScheduleOK

\* A start that could not register the job is not calm.
LEMMA InitializeFailKeeps == ScheduleOK /\ InitializeFail => ScheduleOK'
<1> SUFFICES ASSUME ScheduleOK, InitializeFail PROVE ScheduleOK'
  OBVIOUS
<1>1. ~up /\ UNCHANGED <<rowVars, mu, req, job>>
  BY DEF InitializeFail
<1>2. up' /\ up' \in BOOLEAN /\ ~calm' /\ calm' \in BOOLEAN
  BY Zenon DEF InitializeFail
<1>3. \A r \in Requests : req[r].pc = "idle"
  BY <1>1 DEF ScheduleOK, DownOK, InProgress
<1>4. RowTypes'
  BY <1>1, <1>2 DEF ScheduleOK, RowTypes, rowVars
<1>5. RequestsOK'
  BY <1>1, <1>2, <1>3 DEF ScheduleOK, RequestsOK, RequestOK
<1>6. OneAtATime' /\ DownOK' /\ JobFollowsSettings'
  BY <1>2 DEF OneAtATime, DownOK, JobFollowsSettings
<1>7. req' \in [Requests -> Request]
  BY <1>1 DEF ScheduleOK
<1> QED
  BY <1>2, <1>4, <1>5, <1>6, <1>7 DEF ScheduleOK

LEMMA RestartSchedule == ScheduleOK /\ Restart => ScheduleOK'
<1> SUFFICES ASSUME ScheduleOK, Restart PROVE ScheduleOK'
  OBVIOUS
<1>1. /\ job' = None /\ mu' = None /\ req' = [r \in Requests |-> NoRequest]
      /\ UNCHANGED rowVars
  BY DEF Restart
<1>2. ~up' /\ up' \in BOOLEAN /\ calm' \in BOOLEAN
  BY Zenon DEF Restart
<1>3. \A r \in Requests : req'[r].pc = "idle"
  BY <1>1 DEF NoRequest
<1>4. req' \in [Requests -> Request]
  BY <1>1, NoRequestType
<1>5. RowTypes'
  BY <1>1, <1>2 DEF ScheduleOK, RowTypes, rowVars
<1>6. RequestsOK'
  BY <1>1, <1>3, SettingsAssumption DEF RequestsOK, RequestOK
<1>7. OneAtATime' /\ DownOK' /\ JobFollowsSettings'
  BY <1>1, <1>2, <1>3 DEF OneAtATime, DownOK, JobFollowsSettings, InProgress
<1> QED
  BY <1>2, <1>4, <1>5, <1>6, <1>7 DEF ScheduleOK

-----------------------------------------------------------------------------
(* The theorems about the schedule *)

LEMMA UpdateStepKeeps ==
    ASSUME ScheduleOK, NEW r \in Requests, UpdateStep(r)
    PROVE  ScheduleOK'
BY SetDefaultSSHPullUserKeeps, SetAskToCopyPublicKeyKeeps, SetSMTPSettingsReadKeeps,
   SetSMTPSettingsWriteKeeps, ReadFrequencyKeeps, SetEmailFrequencyKeeps, RemoveReportJobKeeps,
   AddReportJobKeeps DEF UpdateStep

LEMMA ScheduleStep == ScheduleOK /\ [Next]_vars => ScheduleOK'
<1> SUFFICES ASSUME ScheduleOK, [Next]_vars PROVE ScheduleOK'
  OBVIOUS
<1>1. ASSUME NEW c \in Callers, KeyNext(c) PROVE ScheduleOK'
  BY <1>1, KeyNextSchedule, ScheduleFrame
<1>2. ASSUME NEW r \in Requests, NEW in \in Inputs, UpdateSettings(r, in) PROVE ScheduleOK'
  BY <1>2, UpdateSettingsKeeps
<1>3. ASSUME NEW r \in Requests, UpdateStep(r) \/ UpdateFail(r) PROVE ScheduleOK'
  BY <1>3, UpdateStepKeeps, UpdateFailKeeps
<1>4. CASE Initialize \/ InitializeFail \/ Restart
  BY <1>4, InitializeKeeps, InitializeFailKeeps, RestartSchedule
<1>5. CASE ReportStep
  BY <1>5, ReportSchedule, ScheduleFrame
<1>6. CASE UNCHANGED vars
  <2>1. UNCHANGED ScheduleState
    BY <1>6 DEF vars, ScheduleState, rowVars, scheduleVars
  <2> QED
    BY <2>1, ScheduleFrame
<1> QED
  BY <1>1, <1>2, <1>3, <1>4, <1>5, <1>6 DEF Next, ReportStep

\* In a calm server a request of the settings page knows at each step what the rows hold, and
\* the job is what the rows ask for until the request changes them.
THEOREM ScheduleInvariant == Spec => []ScheduleOK
BY ScheduleInit, ScheduleStep, PTL DEF Spec

\* The counters and the queued report.
CounterTypes ==
    /\ report \subseteq {"available", "retryable"}
    /\ updates \in 0..MaxUpdates
    /\ faults \in 0..MaxFaults

LEMMA CountersInit == Init => CounterTypes
BY SettingsAssumption DEF Init, CounterTypes

LEMMA CountersStep == CounterTypes /\ [Next]_vars => CounterTypes'
<1> SUFFICES ASSUME CounterTypes, [Next]_vars PROVE CounterTypes'
  OBVIOUS
<1>1. UNCHANGED <<report, updates, faults>> => CounterTypes'
  BY DEF CounterTypes
<1>2. UNCHANGED <<report, updates>> /\ Faulty => CounterTypes'
  BY SettingsAssumption DEF CounterTypes, Faulty
<1>3. ASSUME NEW c \in Callers, KeyNext(c) PROVE CounterTypes'
  BY <1>1, <1>2, <1>3 DEF KeyNext, KeyGet, KeyGetInTx, KeyEnsure, KeyCommit, KeyFinal, KeyFail, keyFrame
<1>4. ASSUME NEW r \in Requests, NEW in \in Inputs, UpdateSettings(r, in) PROVE CounterTypes'
  BY <1>4, SettingsAssumption DEF UpdateSettings, CounterTypes
<1>5. ASSUME NEW r \in Requests, UpdateStep(r) PROVE CounterTypes'
  BY <1>1, <1>5 DEF UpdateStep, SetDefaultSSHPullUser, SetAskToCopyPublicKey, SetSMTPSettingsRead,
     SetSMTPSettingsWrite, ReadFrequency, SetEmailFrequency, RemoveReportJob, AddReportJob, reqFrame
<1>6. ASSUME NEW r \in Requests, UpdateFail(r) PROVE CounterTypes'
  BY <1>2, <1>6 DEF UpdateFail
<1>7. CASE Initialize
  BY <1>1, <1>7 DEF Initialize
<1>8. CASE Restart \/ InitializeFail
  BY <1>2, <1>8 DEF Restart, InitializeFail
<1>9. CASE ReportStep
  <2>1. updates' = updates /\ report' \subseteq {"available", "retryable"}
    BY <1>9 DEF ReportStep, ReportTick, SendReport, SendFail, RetryReport, CounterTypes
  <2>2. Faulty \/ faults' = faults
    BY <1>9 DEF ReportStep, ReportTick, SendReport, SendFail, RetryReport
  <2> QED
    BY <2>1, <2>2, SettingsAssumption DEF CounterTypes, Faulty
<1>10. CASE UNCHANGED vars
  BY <1>1, <1>10 DEF vars
<1> QED
  BY <1>3, <1>4, <1>5, <1>6, <1>7, <1>8, <1>9, <1>10 DEF Next, ReportStep

\* The whole inductive invariant, types included.
THEOREM SettingsInvariant == Spec => []SettingsInv
<1>1. KeysOK /\ ScheduleOK /\ CounterTypes => SettingsInv
  BY DEF KeysOK, KeyTypes, ScheduleOK, RowTypes, CounterTypes, SettingsInv, TypeOK
<1>2. Spec => []CounterTypes
  BY CountersInit, CountersStep, PTL DEF Spec
<1> QED
  BY <1>1, <1>2, KeyInvariant, ScheduleInvariant, PTL

\* Whatever order requests change hour and frequency in, the periodic job is the one the rows
\* ask for when no request is in progress, as long as none overlapped and none failed since the
\* last start.
THEOREM JobFollows == Spec => []JobFollowsSettings
<1>1. ScheduleOK => JobFollowsSettings
  BY DEF ScheduleOK
<1> QED
  BY <1>1, ScheduleInvariant, PTL

-----------------------------------------------------------------------------
(* The SMTP password *)

\* Only SetSMTPSettings writes the row.
LEMMA OnlyWriteChangesSMTP ==
    ASSUME Next, smtp' # smtp
    PROVE  \E r \in Requests : SetSMTPSettingsWrite(r)
<1>1. ASSUME NEW c \in Callers, KeyNext(c) PROVE FALSE
  BY <1>1, KeyNextSchedule DEF ScheduleState, rowVars
<1>2. ASSUME NEW r \in Requests, NEW in \in Inputs, UpdateSettings(r, in) PROVE FALSE
  BY <1>2 DEF UpdateSettings, rowVars
<1>3. ASSUME NEW r \in Requests, UpdateStep(r) PROVE SetSMTPSettingsWrite(r)
  BY <1>3 DEF UpdateStep, SetDefaultSSHPullUser, SetAskToCopyPublicKey, SetSMTPSettingsRead,
     ReadFrequency, SetEmailFrequency, RemoveReportJob, AddReportJob, rowVars
<1>4. ASSUME NEW r \in Requests, UpdateFail(r) PROVE FALSE
  BY <1>4 DEF UpdateFail, rowVars
<1>5. CASE Initialize \/ InitializeFail \/ Restart
  BY <1>5 DEF Initialize, InitializeFail, Restart, rowVars
<1>6. CASE ReportStep
  BY <1>6, ReportSchedule DEF ScheduleState, rowVars
<1> QED
  BY <1>1, <1>2, <1>3, <1>4, <1>5, <1>6 DEF Next, ReportStep

\* A stored SMTP password is replaced only by a request that brings another one: the page does
\* not send the one it has, and the handler writes back what it has read.
THEOREM StoredPasswordKept == Spec => PasswordKept
<1> DEFINE Kept ==
        calm /\ smtp # None /\ smtp.secret # None /\ smtp' # smtp
        => \/ smtp'.secret = smtp.secret
           \/ \E r \in Requests : req[r].pc = "smtpWrite" /\ req[r].in.secret = smtp'.secret
                                   /\ req[r].in.secret # None
<1>1. ScheduleOK /\ [Next]_vars => [Kept]_vars
  <2> SUFFICES ASSUME ScheduleOK, Next, calm, smtp # None, smtp' # smtp
               PROVE  \/ smtp'.secret = smtp.secret
                      \/ \E r \in Requests : req[r].pc = "smtpWrite" /\ req[r].in.secret = smtp'.secret
                                              /\ req[r].in.secret # None
    OBVIOUS
  <2>1. PICK r \in Requests : SetSMTPSettingsWrite(r)
    BY OnlyWriteChangesSMTP
  <2>2. req[r].pc = "smtpWrite" /\ smtp' = SMTPRow(req[r])
    BY <2>1 DEF SetSMTPSettingsWrite
  <2>3. CASE req[r].in.secret # None
    BY <2>2, <2>3 DEF SMTPRow
  <2>4. CASE req[r].in.secret = None
    <3>1. req[r].old = smtp.secret
      BY <2>2, <2>4 DEF ScheduleOK, RequestsOK, RequestOK, GetSMTPSettings
    <3> QED
      BY <2>2, <2>4, <3>1 DEF SMTPRow
  <2> QED
    BY <2>3, <2>4
<1> QED
  BY <1>1, ScheduleInvariant, PTL DEF Spec, PasswordKept
=============================================================================
