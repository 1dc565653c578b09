------------------------------ MODULE Settings ------------------------------
(***************************************************************************)
(* The settings table and what is derived from it: the SSH key pair that is *)
(* generated by whoever asks first (GetGlobalSSHKeyPair), the requests of    *)
(* the settings page (UpdateSettings), the schedule of the daily report     *)
(* (SetEmailReportJob) and its delivery (EmailReportWorker).                *)
(*                                                                         *)
(* Single queries commit at once; nothing but the key's insert runs in a    *)
(* transaction.  The schedule is in the server's memory and is built again  *)
(* when it restarts.                                                       *)
(***************************************************************************)
EXTENDS Naturals, FiniteSets

CONSTANTS
    Callers,     \* calls of GetGlobalSSHKeyPair; each names the key it generates
    Requests,    \* requests of the settings page
    Hours,       \* report hours; DefaultHour is the one of GetSMTPSettings
    DefaultHour,
    Secrets,     \* SMTP passwords
    Users,       \* names for default_ssh_pull_user
    None,        \* no row, or a field that is absent
    Inputs,      \* what requests of the settings page may ask for
    MaxUpdates,  \* bound: requests of the settings page
    MaxFaults    \* bound: failed queries and restarts

Frequencies == {"daily", "never"}

ASSUME SettingsAssumption ==
    /\ DefaultHour \in Hours
    /\ None \notin Callers \cup Hours \cup Secrets \cup Users \cup Requests
    /\ None \notin Frequencies
    /\ MaxUpdates \in Nat
    /\ MaxFaults \in Nat

VARIABLES
    sshKey,    \* global_ssh_key
    calls,     \* calls of GetGlobalSSHKeyPair
    smtp,      \* smtp_settings: the report hour and the encrypted password
    freq,      \* email_frequency
    user,      \* default_ssh_pull_user
    ask,       \* ask_to_copy_public_key
    up,        \* the server has initialised its schedule
    job,       \* hour of the periodic job email-report, or None
    mu,        \* the request that is in SetEmailReportJob
    req,       \* requests of the settings page in progress
    report,    \* the states of the queued send_report jobs
    calm,      \* history: since the last start, which registered its job, no request overlapped
               \* another one or failed
    updates, faults

keyVars == <<sshKey, calls>>
rowVars == <<smtp, freq, user, ask>>
scheduleVars == <<up, job, mu>>
vars == <<sshKey, calls, smtp, freq, user, ask, up, job, mu, req, report, calm, updates, faults>>

SMTP == [hour : Hours, secret : Secrets \cup {None}]

Call == [pc : {"idle", "generate", "ensure", "commit", "final"},
         inserted : BOOLEAN, answer : Callers \cup {None}]
NoCall == [pc |-> "idle", inserted |-> FALSE, answer |-> None]

\* What a request asks for: None for the fields it leaves out.
Input == [user : Users \cup {None}, ask : BOOLEAN \cup {None},
          hour : Hours \cup {None}, secret : Secrets \cup {None},
          freq : Frequencies \cup {None}]
NoInput == [user |-> None, ask |-> None, hour |-> None, secret |-> None, freq |-> None]

ASSUME InputsAssumption ==
    Inputs \subseteq {in \in Input \ {NoInput} : in.hour = None => in.secret = None}

Request == [pc : {"idle", "user", "ask", "smtpRead", "smtpWrite", "freqRead", "freqWrite", "set", "add"},
            in : Input,
            old : Secrets \cup {None},            \* the password read to be kept
            freq : Frequencies \cup {None},       \* the frequency for SetEmailReportJob
            hour : Hours \cup {None},             \* the hour it read
            last : BOOLEAN]                       \* SetEmailReportJob of the frequency part
NoRequest == [pc |-> "idle", in |-> NoInput, old |-> None, freq |-> None, hour |-> None,
              last |-> FALSE]

TypeOK ==
    /\ sshKey \in Callers \cup {None}
    /\ calls \in [Callers -> Call]
    /\ smtp \in SMTP \cup {None}
    /\ freq \in Frequencies \cup {None}
    /\ user \in Users \cup {None}
    /\ ask \in BOOLEAN \cup {None}
    /\ up \in BOOLEAN
    /\ job \in Hours \cup {None}
    /\ mu \in Requests \cup {None}
    /\ req \in [Requests -> Request]
    /\ report \subseteq {"available", "retryable"}
    /\ calm \in BOOLEAN
    /\ updates \in 0..MaxUpdates
    /\ faults \in 0..MaxFaults

Init ==
    /\ sshKey = None
    /\ calls = [c \in Callers |-> NoCall]
    /\ smtp = None
    /\ freq = None
    /\ user = None
    /\ ask = None
    /\ up = FALSE
    /\ job = None
    /\ mu = None
    /\ req = [r \in Requests |-> NoRequest]
    /\ report = {}
    /\ calm = TRUE
    /\ updates = 0
    /\ faults = 0

Faulty == faults < MaxFaults /\ faults' = faults + 1

-----------------------------------------------------------------------------
(* GetGlobalSSHKeyPair *)

keyFrame == <<rowVars, scheduleVars, req, report, calm, updates, faults>>

Answered(c, k) == [calls EXCEPT ![c] = [NoCall EXCEPT !.answer = k]]

\* The first read: the key, or a new pair is generated for the row.
KeyGet(c) ==
    /\ up
    /\ calls[c].pc = "idle"
    /\ calls[c].answer = None
    /\ calls' = IF sshKey # None THEN Answered(c, sshKey)
                ELSE [calls EXCEPT ![c].pc = "generate"]
    /\ UNCHANGED <<sshKey, keyFrame>>

\* The read in the transaction.
KeyGetInTx(c) ==
    /\ calls[c].pc = "generate"
    /\ calls' = IF sshKey # None THEN Answered(c, sshKey)
                ELSE [calls EXCEPT ![c].pc = "ensure"]
    /\ UNCHANGED <<sshKey, keyFrame>>

\* Ensure: INSERT ... ON CONFLICT DO NOTHING, which waits for another transaction's insert.
KeyEnsure(c) ==
    /\ calls[c].pc = "ensure"
    /\ \A d \in Callers : ~calls[d].inserted
    /\ calls' = [calls EXCEPT ![c] = [@ EXCEPT !.pc = "commit", !.inserted = (sshKey = None)]]
    /\ UNCHANGED <<sshKey, keyFrame>>

KeyCommit(c) ==
    /\ calls[c].pc = "commit"
    /\ sshKey' = IF calls[c].inserted THEN c ELSE sshKey
    /\ calls' = [calls EXCEPT ![c] = [@ EXCEPT !.pc = "final", !.inserted = FALSE]]
    /\ UNCHANGED keyFrame

\* The answer is what a last read finds, whoever inserted it.
KeyFinalMutant(c) ==
    /\ calls[c].pc = "final"
    /\ calls' = Answered(c, c)
    /\ UNCHANGED <<sshKey, keyFrame>>
KeyFinal(c) ==
    /\ calls[c].pc = "final"
    /\ calls' = Answered(c, sshKey)
    /\ UNCHANGED <<sshKey, keyFrame>>

\* An error, or a client that goes away, ends the call; its transaction is rolled back.
KeyFail(c) ==
    /\ calls[c].pc # "idle"
    /\ Faulty
    /\ calls' = [calls EXCEPT ![c] = NoCall]
    /\ UNCHANGED <<sshKey, rowVars, scheduleVars, req, report, calm, updates>>

-----------------------------------------------------------------------------
(* What the getters return *)

GetEmailFrequency == IF freq = None THEN "never" ELSE freq
GetSMTPSettings == IF smtp = None THEN [hour |-> DefaultHour, secret |-> None] ELSE smtp

\* SendReport needs settings that name a host.
Configured == smtp # None

-----------------------------------------------------------------------------
(* UpdateSettings: user, ask, SMTP and frequency, each only when it is in the request *)

reqFrame == <<sshKey, calls, report, updates>>

\* Where the handler goes on behind a part.
AfterAsk(in) == IF in.hour # None
                THEN IF in.secret = None THEN "smtpRead" ELSE "smtpWrite"
                ELSE IF in.freq # None THEN "freqWrite" ELSE "idle"
AfterUser(in) == IF in.ask # None THEN "ask" ELSE AfterAsk(in)

Moved(r, pc) == IF pc = "idle" THEN [req EXCEPT ![r] = NoRequest] ELSE [req EXCEPT ![r].pc = pc]

InProgress == {r \in Requests : req[r].pc # "idle"}

UpdateSettings(r, in) ==
    /\ up
    /\ req[r].pc = "idle"
    /\ updates < MaxUpdates
    /\ updates' = updates + 1
    /\ req' = [req EXCEPT ![r] = [NoRequest EXCEPT
                 !.pc = IF in.user # None THEN "user" ELSE AfterUser(in), !.in = in]]
    /\ calm' = (calm /\ InProgress = {})
    /\ UNCHANGED <<keyVars, rowVars, scheduleVars, report, faults>>

SetDefaultSSHPullUser(r) ==
    /\ req[r].pc = "user"
    /\ user' = req[r].in.user
    /\ req' = Moved(r, AfterUser(req[r].in))
    /\ UNCHANGED <<smtp, freq, ask, scheduleVars, calm, faults, reqFrame>>

SetAskToCopyPublicKey(r) ==
    /\ req[r].pc = "ask"
    /\ ask' = req[r].in.ask
    /\ req' = Moved(r, AfterAsk(req[r].in))
    /\ UNCHANGED <<smtp, freq, user, scheduleVars, calm, faults, reqFrame>>

\* Without a password in the request the stored one is read, to be written back.
SetSMTPSettingsRead(r) ==
    /\ req[r].pc = "smtpRead"
    /\ req' = [req EXCEPT ![r] = [@ EXCEPT !.pc = "smtpWrite", !.old = GetSMTPSettings.secret]]
    /\ UNCHANGED <<rowVars, scheduleVars, calm, faults, reqFrame>>

SMTPRowMutant(q) == [hour |-> q.in.hour, secret |-> q.in.secret]
SMTPRow(q) ==
    [hour |-> q.in.hour, secret |-> IF q.in.secret # None THEN q.in.secret ELSE q.old]

SetSMTPSettingsWrite(r) ==
    /\ req[r].pc = "smtpWrite"
    /\ smtp' = SMTPRow(req[r])
    /\ req' = Moved(r, "freqRead")
    /\ UNCHANGED <<freq, user, ask, scheduleVars, calm, faults, reqFrame>>

\* The schedule is set again with the frequency that is stored.
ReadFrequency(r) ==
    /\ req[r].pc = "freqRead"
    /\ req' = [req EXCEPT ![r] = [@ EXCEPT !.pc = "set", !.freq = GetEmailFrequency]]
    /\ UNCHANGED <<rowVars, scheduleVars, calm, faults, reqFrame>>

SetEmailFrequency(r) ==
    /\ req[r].pc = "freqWrite"
    /\ freq' = req[r].in.freq
    /\ req' = [req EXCEPT ![r] = [@ EXCEPT !.pc = "set", !.freq = req[r].in.freq, !.last = TRUE]]
    /\ UNCHANGED <<smtp, user, ask, scheduleVars, calm, faults, reqFrame>>

-----------------------------------------------------------------------------
(* SetEmailReportJob, under the manager's mutex *)

AfterSet(q) == IF ~q.last /\ q.in.freq # None THEN "freqWrite" ELSE "idle"

\* The job is removed; the hour is read only for a daily report, ...
RemoveReportJob(r) ==
    /\ req[r].pc = "set"
    /\ mu = None
    /\ job' = None
    /\ IF req[r].freq = "daily"
       THEN /\ mu' = r
            /\ req' = [req EXCEPT ![r] = [@ EXCEPT !.pc = "add", !.hour = GetSMTPSettings.hour]]
       ELSE /\ UNCHANGED mu
            /\ req' = Moved(r, AfterSet(req[r]))
    /\ UNCHANGED <<rowVars, up, calm, faults, reqFrame>>

\* ... and the job is added with it.
AddReportJob(r) ==
    /\ req[r].pc = "add"
    /\ job' = req[r].hour
    /\ mu' = None
    /\ req' = Moved(r, AfterSet(req[r]))
    /\ UNCHANGED <<rowVars, up, calm, faults, reqFrame>>

\* An error ends the request with what it has done so far; also after the job is removed.
UpdateFail(r) ==
    /\ req[r].pc # "idle"
    /\ Faulty
    /\ req' = [req EXCEPT ![r] = NoRequest]
    /\ mu' = IF mu = r THEN None ELSE mu
    /\ calm' = FALSE
    /\ UNCHANGED <<keyVars, rowVars, up, job, report, updates>>

-----------------------------------------------------------------------------
(* Start and restart, the periodic job and its worker *)

\* The report job part of Initialize, which runs before requests are served.
InitializeMutant ==
    /\ ~up
    /\ up' = TRUE
    /\ job' = IF freq = "daily" THEN DefaultHour ELSE None
    /\ UNCHANGED <<keyVars, rowVars, mu, req, report, calm, updates, faults>>
\* Fault: the schedule is not built again.
InitializeForgets ==
    /\ ~up
    /\ up' = TRUE
    /\ UNCHANGED <<job, keyVars, rowVars, mu, req, report, calm, updates, faults>>
Initialize ==
    /\ ~up
    /\ up' = TRUE
    /\ job' = IF GetEmailFrequency = "daily" THEN GetSMTPSettings.hour ELSE None
    /\ UNCHANGED <<keyVars, rowVars, mu, req, report, calm, updates, faults>>

\* The errors of reading the frequency or the hour and of adding the job are logged or
\* ignored: the server is up without a job.
InitializeFail ==
    /\ ~up
    /\ Faulty
    /\ up' = TRUE
    /\ calm' = FALSE
    /\ UNCHANGED <<job, keyVars, rowVars, mu, req, report, updates>>

Restart ==
    /\ Faulty
    /\ up' = FALSE
    /\ job' = None
    /\ mu' = None
    /\ calls' = [c \in Callers |-> NoCall]
    /\ req' = [r \in Requests |-> NoRequest]
    /\ calm' = TRUE
    /\ UNCHANGED <<sshKey, rowVars, report, updates>>

\* The hour has come: the job is inserted unless one is queued; one that waits for its
\* next attempt does not count.
ReportTick ==
    /\ up
    /\ job # None
    /\ "available" \notin report
    /\ report' = report \cup {"available"}
    /\ UNCHANGED <<keyVars, rowVars, scheduleVars, req, calm, updates, faults>>

\* SendReport mails the administrators, ...
SendReport ==
    /\ up
    /\ "available" \in report
    /\ Configured
    /\ report' = report \ {"available"}
    /\ UNCHANGED <<keyVars, rowVars, scheduleVars, req, calm, updates, faults>>

\* ... or returns an error, without settings and when the mail server refuses or is not there.
\* River tries again later, or discards the job after its last attempt.
SendFail ==
    /\ up
    /\ "available" \in report
    /\ (~Configured /\ faults' = faults) \/ Faulty
    /\ report' \in {report \ {"available"}, {"retryable"}}
    /\ UNCHANGED <<keyVars, rowVars, scheduleVars, req, calm, updates>>

\* The next attempt; next to a job that is queued already it is discarded.
RetryReport ==
    /\ "retryable" \in report
    /\ report' = {"available"}
    /\ UNCHANGED <<keyVars, rowVars, scheduleVars, req, calm, updates, faults>>

-----------------------------------------------------------------------------
KeyNext(c) ==
    \/ KeyGet(c) \/ KeyGetInTx(c) \/ KeyEnsure(c) \/ KeyCommit(c) \/ KeyFinal(c)
    \/ KeyFail(c)

\* The steps of a request that has begun.
UpdateStep(r) ==
    \/ SetDefaultSSHPullUser(r)
    \/ SetAskToCopyPublicKey(r)
    \/ SetSMTPSettingsRead(r)
    \/ SetSMTPSettingsWrite(r)
    \/ ReadFrequency(r)
    \/ SetEmailFrequency(r)
    \/ RemoveReportJob(r)
    \/ AddReportJob(r)

Next ==
    \/ \E c \in Callers : KeyNext(c)
    \/ \E r \in Requests, in \in Inputs : UpdateSettings(r, in)
    \/ \E r \in Requests : UpdateStep(r) \/ UpdateFail(r)
    \/ Initialize
    \/ InitializeFail
    \/ Restart
    \/ ReportTick
    \/ SendReport
    \/ SendFail
    \/ RetryReport

Spec == Init /\ [][Next]_vars

\* Requests go on, the server starts, its clock runs and its worker works.
FairSpec ==
    /\ Spec
    /\ \A r \in Requests : WF_vars(UpdateStep(r))
    /\ WF_vars(Initialize)
    /\ WF_vars(ReportTick)
    /\ WF_vars(SendReport \/ SendFail)

-----------------------------------------------------------------------------
(* Properties *)

\* What the calls were answered.
Answers == [c \in Callers |-> calls[c].answer]

\* However calls of GetGlobalSSHKeyPair race, fail and restart, one key pair is ever stored
\* and every answer is that pair: no host is given a public key that is then replaced.
Keys == INSTANCE WriteOnce WITH
            Callers <- Callers, Values <- Callers, NoValue <- None,
            value <- sshKey, answers <- Answers
KeyIsWrittenOnce == Keys!Spec

\* The schedule the rows ask for.
WantedJob == IF GetEmailFrequency = "daily" THEN GetSMTPSettings.hour ELSE None

\* Between requests the periodic job is the one the rows ask for, whatever order the
\* requests change hour and frequency in, as long as no two of them overlapped and none
\* failed since the last start, and that one registered its job.
JobFollowsSettings == up /\ calm /\ InProgress = {} => job = WantedJob

\* At most one transaction holds an insert of the key, and only while no key is stored.
OneInsert ==
    /\ \A c, d \in Callers : calls[c].inserted /\ calls[d].inserted => c = d
    /\ \A c \in Callers : calls[c].inserted => calls[c].pc = "commit" /\ sshKey = None

\* Who has passed the insert finds a key at the last read, and an answer is that key.
ReadsKey ==
    \A c \in Callers :
        /\ calls[c].pc = "commit" => calls[c].inserted \/ sshKey # None
        /\ calls[c].pc = "final" => sshKey # None
        /\ calls[c].answer # None => calls[c].answer = sshKey
        /\ calls[c].pc # "idle" => calls[c].answer = None

\* What a request of the settings page knows at its step.
RequestOK(r, q) ==
    /\ mu = r <=> q.pc = "add"
    /\ q.pc \in {"smtpRead", "smtpWrite"} => q.in.hour # None
    /\ q.pc = "freqWrite" => q.in.freq # None
    /\ q.pc \in {"set", "add"} => q.freq # None
    /\ q.pc = "add" => q.hour # None
    /\ calm /\ q.pc \in {"user", "ask", "smtpRead", "smtpWrite"} => job = WantedJob
    /\ calm /\ q.pc = "smtpWrite" /\ q.in.secret = None => q.old = GetSMTPSettings.secret
    /\ calm /\ q.pc \in {"set", "add"} => q.freq = GetEmailFrequency
    /\ calm /\ q.pc = "add" => q.hour = WantedJob
RequestsOK == \A r \in Requests : RequestOK(r, req[r])

\* Without an overlap there is one request at a time.
OneAtATime ==
    calm => \A r, s \in Requests : req[r].pc # "idle" /\ req[s].pc # "idle" => r = s

\* While the server is down there is neither a job nor a request.
DownOK == ~up => job = None /\ mu = None /\ InProgress = {}

\* The inductive invariant.
SettingsInv ==
    /\ TypeOK
    /\ OneInsert
    /\ ReadsKey
    /\ JobFollowsSettings
    /\ RequestsOK
    /\ OneAtATime
    /\ DownOK

\* A stored SMTP password is replaced only by a request that brings another one, also by
\* requests that do not send it because the page never shows it; only requests that overlap
\* may bring an old one back.
PasswordKept ==
    [][calm /\ smtp # None /\ smtp.secret # None /\ smtp' # smtp
       => \/ smtp'.secret = smtp.secret
          \/ \E r \in Requests : req[r].pc = "smtpWrite" /\ req[r].in.secret = smtp'.secret
                                  /\ req[r].in.secret # None]_vars

\* As long as the daily report stays switched on and configured, reports keep going out,
\* through restarts, failed requests and mail servers that refuse, unless the last change of
\* the settings overlapped another one or failed, or the last start could not register the job.
ReportsGoOut ==
    <>[](GetEmailFrequency = "daily" /\ Configured /\ calm) => []<><<SendReport>>_vars

=============================================================================
