-------------------------- MODULE EnrollmentProofs --------------------------
(***************************************************************************)
(* Proofs about Enrollment, for any number of machines, enrolments, hosts,   *)
(* tokens and losses.  EnrolInv is inductive; the theorems read the          *)
(* properties off it.                                                       *)
(***************************************************************************)
EXTENDS Enrollment, TLAPS

\* The idle enrolment, the idle sync and the unused row are well formed.
LEMMA RecordTypes ==
    /\ NoEnrolRun \in EnrolRun
    /\ NoSyncRun \in SyncRun
    /\ NoRow \in Row
BY DEF NoEnrolRun, EnrolRun, NoSyncRun, SyncRun, NoRow, Row

\* Nothing is registered at the start.
LEMMA InitInv == Init => EnrolInv
<1> SUFFICES ASSUME Init PROVE EnrolInv
  OBVIOUS
<1>1. TypeOK
  <2>1. enrol \in [Enrolments -> EnrolRun] /\ sync \in [Machines -> SyncRun] /\ hosts \in [HostIds -> Row]
    BY RecordTypes DEF Init
  <2>2. lost \in 0..MaxLost
    BY EnrollmentAssumption DEF Init
  <2> QED
    BY <2>1, <2>2 DEF Init, TypeOK
<1>2. OneMachinePerHost /\ SnapshotsVouched /\ TokensNamed /\ NamesRegistered /\ RowsChecked
  BY DEF Init, OneMachinePerHost, SnapshotsVouched, TokensNamed, NamesRegistered, RowsChecked, Exists,
     NoRow
<1>3. FilesIssued
  BY FileAssumption DEF Init, FilesIssued
<1>4. AnswersIssued /\ EnrolChecked /\ SyncChecked
  BY DEF Init, AnswersIssued, EnrolChecked, SyncChecked, NoEnrolRun, NoSyncRun
<1> QED
  BY <1>1, <1>2, <1>3, <1>4 DEF EnrolInv

\* One more loss is within the bound.
LEMMA LosingType == ASSUME EnrolInv, Losing PROVE lost' \in 0..MaxLost
BY EnrollmentAssumption DEF EnrolInv, TypeOK, Losing

-----------------------------------------------------------------------------
(* Steps that change nothing but an enrolment *)

\* What an enrolment may become while the server's rows and the files stay.
EnrolAllowed(e, q) ==
    /\ q \in EnrolRun
    /\ q.pc # "idle" => /\ q.machine \in Machines
                        /\ q.token \in RegTokens
                        /\ MachineId[q.machine] # None
    /\ q.host # None <=> q.pc \in {"answered", "received", "writing"}
    /\ q.host # None => q.host = enrol[e].host /\ q.machine = enrol[e].machine

\* An enrolment that ends is allowed, and so is one that goes on without changing its host.
LEMMA EnrolEnds == ASSUME NEW e PROVE EnrolAllowed(e, NoEnrolRun)
BY RecordTypes DEF EnrolAllowed, NoEnrolRun

LEMMA EnrolMoves ==
    ASSUME EnrolInv, NEW e \in Enrolments, enrol[e].pc # "idle",
           NEW pc \in {"checked", "received", "writing"},
           pc = "checked" <=> enrol[e].pc \in {"sent", "checked"}
    PROVE  EnrolAllowed(e, [enrol[e] EXCEPT !.pc = pc])
<1>1. enrol[e] \in EnrolRun
  BY DEF EnrolInv, TypeOK
<1>2. [enrol[e] EXCEPT !.pc = pc] \in EnrolRun
  BY <1>1 DEF EnrolRun
<1> QED
  BY <1>1, <1>2 DEF EnrolAllowed, EnrolInv, EnrolChecked, EnrolRun

LEMMA EnrolFrame ==
    ASSUME EnrolInv, NEW e \in Enrolments, NEW q, EnrolAllowed(e, q),
           enrol' = [enrol EXCEPT ![e] = q], lost' \in 0..MaxLost,
           file' \in [Machines -> HostIds \cup {NoFile, Broken}], FilesIssued',
           UNCHANGED <<serverVars, sync>>
    PROVE  EnrolInv'
<1>1. TypeOK'
  BY DEF EnrolInv, TypeOK, EnrolAllowed, serverVars
<1>2. OneMachinePerHost' /\ SnapshotsVouched' /\ TokensNamed' /\ NamesRegistered' /\ RowsChecked' /\ SyncChecked'
  BY DEF EnrolInv, OneMachinePerHost, SnapshotsVouched, TokensNamed, NamesRegistered, RowsChecked, SyncChecked,
         Exists, serverVars
<1>3. enrol'[e] = q /\ \A d \in Enrolments \ {e} : enrol'[d] = enrol[d]
  BY DEF EnrolInv, TypeOK
<1>4. EnrolChecked'
  BY <1>3 DEF EnrolInv, EnrolChecked, EnrolAllowed
<1>5. AnswersIssued'
  BY <1>3 DEF EnrolInv, AnswersIssued, EnrolAllowed, serverVars
<1> QED
  BY <1>1, <1>2, <1>4, <1>5 DEF EnrolInv

LEMMA EnrolStep ==
    ASSUME EnrolInv, NEW e \in Enrolments, NEW q, EnrolAllowed(e, q),
           enrol' = [enrol EXCEPT ![e] = q], lost' \in 0..MaxLost,
           UNCHANGED <<serverVars, file, sync>>
    PROVE  EnrolInv'
<1>1. file' \in [Machines -> HostIds \cup {NoFile, Broken}] /\ FilesIssued'
  BY DEF EnrolInv, TypeOK, FilesIssued, serverVars
<1> QED
  BY <1>1, EnrolFrame

LEMMA EnrollInv ==
    ASSUME EnrolInv, NEW e \in Enrolments, NEW m \in Machines, NEW t \in RegTokens, Enroll(e, m, t)
    PROVE  EnrolInv'
<1> DEFINE q == [pc |-> "sent", machine |-> m, token |-> t, host |-> None, heard |-> TRUE]
<1>1. EnrolAllowed(e, q)
  BY DEF EnrolAllowed, EnrolRun, Enroll, ValidRegistration
<1>2. enrol' = [enrol EXCEPT ![e] = q] /\ UNCHANGED <<serverVars, file, sync, lost>>
  BY DEF Enroll
<1>3. lost' \in 0..MaxLost
  BY <1>2 DEF EnrolInv, TypeOK
<1> HIDE DEF q
<1> QED
  BY <1>1, <1>2, <1>3, EnrolStep

LEMMA RegisterCheckTokenInv ==
    ASSUME EnrolInv, NEW e \in Enrolments, RegisterCheckToken(e)
    PROVE  EnrolInv'
<1>1. PICK q \in {[enrol[e] EXCEPT !.pc = "checked"], NoEnrolRun} : enrol' = [enrol EXCEPT ![e] = q]
  BY DEF RegisterCheckToken
<1>2. EnrolAllowed(e, [enrol[e] EXCEPT !.pc = "checked"])
  BY EnrolMoves DEF RegisterCheckToken
<1>3. UNCHANGED <<serverVars, file, sync, lost>> /\ lost' \in 0..MaxLost
  BY DEF RegisterCheckToken, EnrolInv, TypeOK
<1> QED
  BY <1>1, <1>2, <1>3, EnrolEnds, EnrolStep

LEMMA EnrolEndInv ==
    ASSUME EnrolInv, NEW e \in Enrolments,
           RegisterDuplicate(e) \/ RegisterRollback(e) \/ LoseAnswer(e) \/ SaveFail(e)
    PROVE  EnrolInv'
<1>1. enrol' = [enrol EXCEPT ![e] = NoEnrolRun] /\ UNCHANGED <<serverVars, file, sync>>
  BY DEF RegisterDuplicate, RegisterRollback, LoseAnswer, SaveFail
<1>2. Losing \/ lost' = lost
  BY DEF RegisterDuplicate, RegisterRollback, LoseAnswer, SaveFail
<1>3. lost' \in 0..MaxLost
  BY <1>2, LosingType DEF EnrolInv, TypeOK
<1> QED
  BY <1>1, <1>3, EnrolEnds, EnrolStep

LEMMA HangUpInv ==
    ASSUME EnrolInv, NEW e \in Enrolments, HangUp(e)
    PROVE  EnrolInv'
<1> DEFINE q == [enrol[e] EXCEPT !.heard = FALSE]
<1>1. enrol[e] \in EnrolRun
  BY DEF EnrolInv, TypeOK
<1>2. q \in EnrolRun
  BY <1>1 DEF EnrolRun
<1>3. EnrolAllowed(e, q)
  BY <1>1, <1>2 DEF EnrolAllowed, EnrolInv, EnrolChecked, EnrolRun
<1>4. enrol' = [enrol EXCEPT ![e] = q] /\ UNCHANGED <<serverVars, file, sync>>
  BY DEF HangUp, EnrolInv, TypeOK
<1> HIDE DEF q
<1> QED
  BY <1>3, <1>4, LosingType, EnrolStep DEF HangUp

LEMMA ReceiveTokenInv ==
    ASSUME EnrolInv, NEW e \in Enrolments, ReceiveToken(e)
    PROVE  EnrolInv'
<1>1. EnrolAllowed(e, [enrol[e] EXCEPT !.pc = "received"])
  BY EnrolMoves DEF ReceiveToken
<1>2. enrol' = [enrol EXCEPT ![e] = [enrol[e] EXCEPT !.pc = "received"]]
  BY DEF ReceiveToken, EnrolInv, TypeOK
<1>3. UNCHANGED <<serverVars, file, sync, lost>> /\ lost' \in 0..MaxLost
  BY DEF ReceiveToken, EnrolInv, TypeOK
<1> QED
  BY <1>1, <1>2, <1>3, EnrolStep

-----------------------------------------------------------------------------
(* Steps that write a configuration file *)

\* A file that is broken, or names a host whose token was issued.
Writable(f) ==
    \/ f = Broken
    \/ f \in HostIds /\ (hosts[f].status = "deleted" \/ f \in access)

LEMMA FileFrame ==
    ASSUME EnrolInv, NEW m \in Machines, NEW f, Writable(f),
           file' = [file EXCEPT ![m] = f], UNCHANGED <<serverVars, lost>>
    PROVE  /\ file' \in [Machines -> HostIds \cup {NoFile, Broken}]
           /\ FilesIssued'
BY FileAssumption DEF EnrolInv, TypeOK, FilesIssued, Writable, serverVars

LEMMA SaveInv ==
    ASSUME EnrolInv, NEW e \in Enrolments, SaveTruncate(e) \/ SaveWrite(e)
    PROVE  EnrolInv'
<1>1. enrol[e].machine \in Machines /\ enrol[e].pc \in {"received", "writing"}
  BY DEF SaveTruncate, SaveWrite, EnrolInv, EnrolChecked
<1>2. UNCHANGED <<serverVars, sync, lost>>
  BY DEF SaveTruncate, SaveWrite
<1>3. Writable(enrol[e].host)
  BY <1>1 DEF Writable, EnrolInv, TypeOK, EnrolRun, EnrolChecked, AnswersIssued
<1>4. PICK f : Writable(f) /\ file' = [file EXCEPT ![enrol[e].machine] = f]
  BY <1>3 DEF SaveTruncate, SaveWrite, Writable
<1>5. file' \in [Machines -> HostIds \cup {NoFile, Broken}] /\ FilesIssued'
  BY <1>1, <1>2, <1>4, FileFrame
<1>6. PICK q : EnrolAllowed(e, q) /\ enrol' = [enrol EXCEPT ![e] = q]
  <2>1. EnrolAllowed(e, [enrol[e] EXCEPT !.pc = "writing"])
    BY <1>1, EnrolMoves
  <2>2. CASE SaveTruncate(e)
    BY <2>1, <2>2 DEF SaveTruncate, EnrolInv, TypeOK
  <2>3. CASE SaveWrite(e)
    BY <2>3, EnrolEnds DEF SaveWrite
  <2> QED
    BY <2>2, <2>3
<1> QED
  BY <1>2, <1>5, <1>6, EnrolFrame DEF EnrolInv, TypeOK

LEMMA CloneMachineInv ==
    ASSUME EnrolInv, NEW a \in Machines, NEW b \in Machines, CloneMachine(a, b)
    PROVE  EnrolInv'
<1>1. Writable(file[a])
  BY DEF CloneMachine, EnrolInv, FilesIssued, Writable
<1>2. file' \in [Machines -> HostIds \cup {NoFile, Broken}] /\ FilesIssued'
  BY <1>1, FileFrame DEF CloneMachine
<1>3. UNCHANGED <<serverVars, enrol, sync, lost>>
  BY DEF CloneMachine
<1>4. TypeOK'
  BY <1>2, <1>3 DEF EnrolInv, TypeOK, serverVars
<1> QED
  BY <1>2, <1>3, <1>4 DEF EnrolInv, OneMachinePerHost, SnapshotsVouched, TokensNamed, NamesRegistered, RowsChecked,
     AnswersIssued, EnrolChecked, SyncChecked, Exists, serverVars

-----------------------------------------------------------------------------
(* Steps that change a row *)

\* Ids that were never used are in no file, no answer and no request.
LEMMA UnusedIsUnknown ==
    ASSUME EnrolInv, NEW h \in HostIds, hosts[h].status = "unused"
    PROVE  /\ h \notin access
           /\ hosts[h].mode # "agent"
           /\ snaps[h] = {}
           /\ \A m \in Machines : file[m] # h
           /\ \A e \in Enrolments : enrol[e].host # h
           /\ \A m \in Machines : sync[m].pc # "idle" => sync[m].host # h
<1>1. h \notin access
  BY DEF EnrolInv, TokensNamed, Exists
<1>2. hosts[h].mode # "agent" /\ snaps[h] = {}
  BY DEF EnrolInv, RowsChecked, Exists
<1>3. \A m \in Machines : file[m] # h
  BY <1>1 DEF EnrolInv, FilesIssued
<1>4. \A e \in Enrolments : enrol[e].host # h
  BY <1>1, EnrollmentAssumption DEF EnrolInv, AnswersIssued
<1>5. \A m \in Machines : sync[m].pc # "idle" => sync[m].host # h
  BY <1>1 DEF EnrolInv, SyncChecked
<1> QED
  BY <1>1, <1>2, <1>3, <1>4, <1>5

\* The registration's commit: a new row with the machine of the request, and its token.
LEMMA RegisterCommitInv ==
    ASSUME EnrolInv, NEW e \in Enrolments, NEW h \in HostIds, RegisterCommit(e, h)
    PROVE  EnrolInv'
<1> DEFINE m == enrol[e].machine
<1>1. m \in Machines /\ MachineId[m] \in MachineIds /\ Hostname[m] \in Names /\ enrol[e].host = None
  BY EnrollmentAssumption DEF RegisterCommit, EnrolInv, EnrolChecked
<1>2. PICK r \in Row : /\ hosts' = [hosts EXCEPT ![h] = r]
                       /\ r.mode = "agent" /\ r.name = Hostname[m] /\ r.machine = MachineId[m]
                       /\ r.status \in {"waiting_approval", "approved"}
                       /\ r.status = "approved" => h \in vouched'
  <2>1. InsertAgentHost(m) \in Row /\ InsertAgentHostApproved(m) \in Row
    BY <1>1 DEF InsertAgentHost, InsertAgentHostApproved, Row
  <2>2. CASE enrol[e].token \in auto
    BY <2>1, <2>2 DEF RegisterCommit, InsertAgentHostApproved
  <2>3. CASE enrol[e].token \notin auto
    BY <2>1, <2>3 DEF RegisterCommit, InsertAgentHost
  <2> QED
    BY <2>2, <2>3
<1>3. access' = access \cup {h} /\ vouched \subseteq vouched' /\ vouched' \subseteq vouched \cup {h}
  BY DEF RegisterCommit, InsertHostAccessToken
<1>4. UNCHANGED <<regTokens, auto, snaps, renamed, file, sync, lost>>
  BY DEF RegisterCommit
<1>5. PICK q \in EnrolRun : /\ enrol' = [enrol EXCEPT ![e] = q]
                            /\ q.pc = "answered" /\ q.host = h /\ q.machine = m
                            /\ q.token = enrol[e].token
  <2>1. enrol[e] \in EnrolRun
    BY DEF EnrolInv, TypeOK
  <2>2. [enrol[e] EXCEPT !.pc = "answered", !.host = h] \in EnrolRun
    BY <2>1 DEF EnrolRun
  <2> QED
    BY <2>1, <2>2 DEF RegisterCommit, EnrolRun
<1>6. hosts'[h] = r /\ \A g \in HostIds \ {h} : hosts'[g] = hosts[g]
  BY <1>2 DEF EnrolInv, TypeOK
<1>7. enrol'[e] = q /\ \A d \in Enrolments \ {e} : enrol'[d] = enrol[d]
  BY <1>5 DEF EnrolInv, TypeOK
<1>8. hosts[h].status = "unused" /\ ~NameTaken(Hostname[m], h)
  BY DEF RegisterCommit
<1>9. TypeOK'
  BY <1>2, <1>3, <1>4, <1>5 DEF EnrolInv, TypeOK
<1> HIDE DEF m
<1>10. OneMachinePerHost' /\ SnapshotsVouched' /\ RowsChecked'
  BY <1>1, <1>2, <1>3, <1>4, <1>6, <1>8, UnusedIsUnknown, EnrollmentAssumption
  DEF EnrolInv, OneMachinePerHost, SnapshotsVouched, RowsChecked, Exists
<1>11. TokensNamed' /\ NamesRegistered'
  <2>1. TokensNamed'
    BY <1>2, <1>3, <1>6, <1>8 DEF EnrolInv, TokensNamed, NameTaken, Exists
  <2>2. NamesRegistered'
    BY <1>1, <1>2, <1>4, <1>6 DEF EnrolInv, NamesRegistered
  <2> QED
    BY <2>1, <2>2
<1>12. FilesIssued'
  BY <1>3, <1>4, <1>6, <1>8, UnusedIsUnknown DEF EnrolInv, FilesIssued
<1>13. AnswersIssued'
  <2>1. \A d \in Enrolments \ {e} : enrol[d].host # h
    BY <1>8, UnusedIsUnknown
  <2>2. \A d \in Enrolments : enrol[d].host \in HostIds \cup {None}
    BY DEF EnrolInv, TypeOK, EnrolRun
  <2> QED
    BY <1>2, <1>3, <1>5, <1>6, <1>7, <2>1, <2>2 DEF EnrolInv, AnswersIssued
<1>14. EnrolChecked'
  BY <1>1, <1>5, <1>7, EnrollmentAssumption DEF EnrolInv, EnrolChecked, RegisterCommit
<1>15. SyncChecked'
  BY <1>3, <1>4, <1>6, <1>8, UnusedIsUnknown DEF EnrolInv, SyncChecked, Exists
<1> QED
  BY <1>9, <1>10, <1>11, <1>12, <1>13, <1>14, <1>15 DEF EnrolInv

\* What an administrator may make of a row that is there: its mode, machine and status stay,
\* or it becomes approved and vouched for.
LEMMA RowEdited ==
    ASSUME EnrolInv, NEW h \in HostIds, Exists(h), NEW r \in Row,
           hosts' = [hosts EXCEPT ![h] = r],
           r.mode = hosts[h].mode, r.machine = hosts[h].machine,
           r.status = hosts[h].status \/ (r.status = "approved" /\ h \in vouched'),
           \/ r.name = hosts[h].name
           \/ ~NameTaken(r.name, h) /\ (h \in renamed' \/ r.mode # "agent"),
           vouched \subseteq vouched', vouched' \subseteq HostIds,
           renamed \subseteq renamed', renamed' \subseteq HostIds,
           UNCHANGED <<regTokens, auto, access, snaps, file, enrol, sync, lost>>
    PROVE  EnrolInv'
<1>1. hosts'[h] = r /\ \A g \in HostIds \ {h} : hosts'[g] = hosts[g]
  BY DEF EnrolInv, TypeOK
<1>2. TypeOK'
  BY DEF EnrolInv, TypeOK
<1>3. \A g \in HostIds : Exists(g)' <=> Exists(g)
  BY <1>1 DEF Exists
<1>4. \A g \in HostIds : hosts'[g].mode = hosts[g].mode /\ hosts'[g].machine = hosts[g].machine
  BY <1>1
<1>5. \A g \in HostIds : hosts'[g].status = "deleted" <=> hosts[g].status = "deleted"
  BY <1>1 DEF Exists
<1>6. OneMachinePerHost' /\ SnapshotsVouched'
  BY <1>4 DEF EnrolInv, OneMachinePerHost, SnapshotsVouched
<1>7. RowsChecked'
  BY <1>1, <1>3, <1>4 DEF EnrolInv, RowsChecked
<1>8. TokensNamed' /\ NamesRegistered'
  <2>1. TokensNamed'
    BY <1>1, <1>3, <1>4, EnrollmentAssumption DEF EnrolInv, TypeOK, TokensNamed, NameTaken
  <2>2. NamesRegistered'
    BY <1>1, <1>4 DEF EnrolInv, NamesRegistered
  <2> QED
    BY <2>1, <2>2
<1>9. FilesIssued'
  BY <1>5 DEF EnrolInv, FilesIssued
<1>10. AnswersIssued'
  <2>1. \A e \in Enrolments : enrol[e].host \in HostIds \cup {None}
    BY DEF EnrolInv, TypeOK, EnrolRun
  <2> QED
    BY <1>4, <1>5, <2>1 DEF EnrolInv, AnswersIssued
<1>11. SyncChecked'
  BY <1>1, <1>3, <1>4, <1>5 DEF EnrolInv, SyncChecked
<1>12. EnrolChecked'
  BY DEF EnrolInv, EnrolChecked
<1> QED
  BY <1>2, <1>6, <1>7, <1>8, <1>9, <1>10, <1>11, <1>12 DEF EnrolInv

LEMMA ApproveHostInv ==
    ASSUME EnrolInv, NEW h \in HostIds, ApproveHost(h)
    PROVE  EnrolInv'
<1>1. hosts[h] \in Row
  BY DEF EnrolInv, TypeOK
<1>2. ApproveHostByID(h) \in Row
  BY <1>1 DEF ApproveHostByID, Row
<1>3. vouched' = vouched \cup {h} /\ vouched \subseteq HostIds /\ renamed' = renamed /\ renamed \subseteq HostIds
  BY DEF ApproveHost, EnrolInv, TypeOK
<1> QED
  BY <1>1, <1>2, <1>3, RowEdited DEF ApproveHost, ApproveHostByID, Row

LEMMA RenameHostInv ==
    ASSUME EnrolInv, NEW h \in HostIds, NEW n \in Names, RenameHost(h, n)
    PROVE  EnrolInv'
<1>1. hosts[h] \in Row
  BY DEF EnrolInv, TypeOK
<1>2. UpdateHostDisplayName(h, n) \in Row
  BY <1>1 DEF UpdateHostDisplayName, Row
<1>3. vouched' = vouched /\ vouched \subseteq HostIds /\ renamed \subseteq renamed' /\ renamed' \subseteq HostIds
  BY DEF RenameHost, EnrolInv, TypeOK
<1>4. n = hosts[h].name \/ h \in renamed' \/ hosts[h].mode # "agent"
  BY DEF RenameHost
<1> QED
  BY <1>1, <1>2, <1>3, <1>4, RowEdited DEF RenameHost, UpdateHostDisplayName, Row

\* A deleted row stays deleted: everything that names it is void.
LEMMA DeleteHostInv ==
    ASSUME EnrolInv, NEW h \in HostIds, DeleteHost(h)
    PROVE  EnrolInv'
<1>1. DeleteHostByID \in Row /\ DeleteHostByID.status = "deleted" /\ DeleteHostByID.mode = "none"
  BY DEF DeleteHostByID, Row, NoRow
<1>2. hosts'[h] = DeleteHostByID /\ \A g \in HostIds \ {h} : hosts'[g] = hosts[g]
  BY DEF DeleteHost, EnrolInv, TypeOK
<1>3. access' = access \ {h} /\ vouched' = vouched \ {h} /\ renamed' = renamed \ {h}
  BY DEF DeleteHost, DeleteHostAccessTokensByHostID
<1>4. snaps'[h] = {} /\ \A g \in HostIds \ {h} : snaps'[g] = snaps[g]
  BY DEF DeleteHost, EnrolInv, TypeOK
<1>5. UNCHANGED <<regTokens, auto, file, enrol, sync, lost>>
  BY DEF DeleteHost
<1>6. TypeOK'
  BY <1>1, <1>3, <1>5 DEF DeleteHost, EnrolInv, TypeOK
<1>7. OneMachinePerHost' /\ SnapshotsVouched' /\ RowsChecked'
  BY <1>1, <1>2, <1>3, <1>4
  DEF EnrolInv, OneMachinePerHost, SnapshotsVouched, RowsChecked, Exists
<1>8. TokensNamed' /\ NamesRegistered'
  BY <1>1, <1>2, <1>3 DEF EnrolInv, TypeOK, TokensNamed, NamesRegistered, Exists
<1>9. FilesIssued'
  BY <1>1, <1>2, <1>3, <1>5 DEF EnrolInv, FilesIssued
<1>10. AnswersIssued'
  <2>1. \A e \in Enrolments : enrol[e].host \in HostIds \cup {None}
    BY DEF EnrolInv, TypeOK, EnrolRun
  <2> QED
    BY <1>1, <1>2, <1>3, <1>5, <2>1 DEF EnrolInv, AnswersIssued
<1>11. SyncChecked' /\ EnrolChecked'
  BY <1>1, <1>2, <1>3, <1>5 DEF EnrolInv, SyncChecked, EnrolChecked, Exists
<1> QED
  BY <1>6, <1>7, <1>8, <1>9, <1>10, <1>11 DEF EnrolInv

LEMMA CreateManualHostInv ==
    ASSUME EnrolInv, NEW h \in HostIds, NEW n \in Names \cup {None}, CreateManualHost(h, n)
    PROVE  EnrolInv'
<1> DEFINE r == InsertManualHost(n)
<1>1. r \in Row /\ r.mode = "manual" /\ r.name = n /\ r.status = "approved"
  BY DEF InsertManualHost, Row
<1> HIDE DEF r
<1>2. hosts'[h] = r /\ \A g \in HostIds \ {h} : hosts'[g] = hosts[g]
  BY DEF r, CreateManualHost, EnrolInv, TypeOK
<1>3. hosts[h].status = "unused" /\ ~NameTaken(n, h)
  BY DEF CreateManualHost
<1>4. UNCHANGED <<regTokens, auto, access, snaps, vouched, renamed, file, enrol, sync, lost>>
  BY DEF CreateManualHost
<1>5. TypeOK'
  BY <1>1, <1>4 DEF r, CreateManualHost, EnrolInv, TypeOK
<1>6. OneMachinePerHost' /\ SnapshotsVouched' /\ RowsChecked'
  BY <1>1, <1>2, <1>3, <1>4, UnusedIsUnknown
  DEF EnrolInv, OneMachinePerHost, SnapshotsVouched, RowsChecked, Exists
<1>7. TokensNamed' /\ NamesRegistered'
  BY <1>1, <1>2, <1>3, <1>4, UnusedIsUnknown
  DEF EnrolInv, TypeOK, TokensNamed, NamesRegistered, NameTaken, Exists
<1>8. FilesIssued'
  BY <1>2, <1>3, <1>4, UnusedIsUnknown DEF EnrolInv, FilesIssued
<1>9. AnswersIssued'
  <2>1. \A e \in Enrolments : enrol[e].host \in HostIds \cup {None}
    BY DEF EnrolInv, TypeOK, EnrolRun
  <2> QED
    BY <1>2, <1>3, <1>4, <2>1, UnusedIsUnknown DEF EnrolInv, AnswersIssued
<1>10. SyncChecked' /\ EnrolChecked'
  BY <1>2, <1>3, <1>4, UnusedIsUnknown DEF EnrolInv, SyncChecked, EnrolChecked, Exists
<1> QED
  BY <1>5, <1>6, <1>7, <1>8, <1>9, <1>10 DEF EnrolInv

\* A manual row is nobody's token.
LEMMA IngestManualReportInv ==
    ASSUME EnrolInv, NEW h \in HostIds, NEW id \in ReportIds, IngestManualReport(h, id)
    PROVE  EnrolInv'
<1> DEFINE r == UpdateHostFromSnapshot(h, id)
<1>1. hosts[h] \in Row /\ id \in MachineIds \cup {None}
  BY EnrollmentAssumption DEF EnrolInv, TypeOK
<1>2. r \in Row /\ r.mode = "manual" /\ r.name = hosts[h].name /\ r.status = hosts[h].status
  BY <1>1 DEF UpdateHostFromSnapshot, Row, IngestManualReport
<1> HIDE DEF r
<1>3. hosts'[h] = r /\ \A g \in HostIds \ {h} : hosts'[g] = hosts[g]
  BY DEF r, IngestManualReport, EnrolInv, TypeOK
<1>4. Exists(h) /\ hosts[h].mode = "manual" /\ h \notin access
  BY DEF IngestManualReport, EnrolInv, TokensNamed
<1>5. UNCHANGED <<regTokens, auto, access, snaps, vouched, renamed, file, enrol, sync, lost>>
  BY DEF IngestManualReport
<1>6. TypeOK'
  BY <1>2, <1>5 DEF r, IngestManualReport, EnrolInv, TypeOK
<1>7. OneMachinePerHost' /\ SnapshotsVouched' /\ RowsChecked'
  BY <1>2, <1>3, <1>4, <1>5 DEF EnrolInv, OneMachinePerHost, SnapshotsVouched, RowsChecked, Exists
<1>8. TokensNamed' /\ NamesRegistered'
  BY <1>2, <1>3, <1>4, <1>5 DEF EnrolInv, TypeOK, TokensNamed, NamesRegistered, Exists
<1>9. FilesIssued'
  BY <1>2, <1>3, <1>5 DEF EnrolInv, FilesIssued
<1>10. AnswersIssued'
  <2>1. \A e \in Enrolments : enrol[e].host \in HostIds \cup {None}
    BY DEF EnrolInv, TypeOK, EnrolRun
  <2> QED
    BY <1>2, <1>3, <1>4, <1>5, <2>1 DEF EnrolInv, AnswersIssued
<1>11. SyncChecked' /\ EnrolChecked'
  BY <1>2, <1>3, <1>4, <1>5 DEF EnrolInv, SyncChecked, EnrolChecked, Exists
<1> QED
  BY <1>6, <1>7, <1>8, <1>9, <1>10, <1>11 DEF EnrolInv

\* Registration tokens are looked at by RegisterCheckToken only.
LEMMA RegistrationTokenInv ==
    ASSUME EnrolInv, NEW t \in RegTokens,
           RevokeRegistrationToken(t) \/ \E a \in BOOLEAN : CreateRegistrationToken(t, a)
    PROVE  EnrolInv'
<1>1. UNCHANGED <<hosts, access, snaps, vouched, renamed, file, enrol, sync, lost>>
  BY DEF RevokeRegistrationToken, CreateRegistrationToken
<1>2. TypeOK'
  BY <1>1 DEF RevokeRegistrationToken, CreateRegistrationToken, EnrolInv, TypeOK
<1> QED
  BY <1>1, <1>2 DEF EnrolInv, OneMachinePerHost, SnapshotsVouched, TokensNamed, NamesRegistered, RowsChecked,
     FilesIssued, AnswersIssued, EnrolChecked, SyncChecked, Exists

-----------------------------------------------------------------------------
(* The sync *)

\* What a sync may become while everything else stays.
SyncAllowed(m, q) ==
    /\ q \in SyncRun
    /\ q.pc # "idle" => /\ q.host \in HostIds
                        /\ MachineId[m] # None
                        /\ hosts[q.host].status = "deleted" \/ q.host \in access
    /\ q.pc = "verified" /\ Exists(q.host) =>
           hosts[q.host].status = "approved" /\ hosts[q.host].machine = MachineId[m]

LEMMA SyncFrame ==
    ASSUME EnrolInv, NEW m \in Machines, NEW q, SyncAllowed(m, q),
           sync' = [sync EXCEPT ![m] = q], lost' \in 0..MaxLost,
           UNCHANGED <<serverVars, file, enrol>>
    PROVE  EnrolInv'
<1>1. TypeOK'
  BY DEF EnrolInv, TypeOK, SyncAllowed, serverVars
<1>2. sync'[m] = q /\ \A n \in Machines \ {m} : sync'[n] = sync[n]
  BY DEF EnrolInv, TypeOK
<1>3. SyncChecked'
  BY <1>2 DEF EnrolInv, SyncChecked, SyncAllowed, Exists, serverVars
<1> QED
  BY <1>1, <1>3 DEF EnrolInv, OneMachinePerHost, SnapshotsVouched, TokensNamed, NamesRegistered, RowsChecked,
     FilesIssued, AnswersIssued, EnrolChecked, Exists, serverVars

LEMMA SyncEnds == ASSUME NEW m PROVE SyncAllowed(m, NoSyncRun)
BY RecordTypes DEF SyncAllowed, NoSyncRun

LEMMA SyncInv ==
    ASSUME EnrolInv, NEW m \in Machines, Sync(m)
    PROVE  EnrolInv'
<1> DEFINE q == [pc |-> "posted", host |-> file[m]]
<1>1. SyncAllowed(m, q)
  BY DEF SyncAllowed, SyncRun, Sync, Load, EnrolInv, FilesIssued
<1>2. sync' = [sync EXCEPT ![m] = q] /\ UNCHANGED <<serverVars, file, enrol, lost>>
  BY DEF Sync
<1>3. lost' \in 0..MaxLost
  BY <1>2 DEF EnrolInv, TypeOK
<1> HIDE DEF q
<1> QED
  BY <1>1, <1>2, <1>3, SyncFrame

\* The row is an agent's, so it names a machine, and the comparison decides.
LEMMA IngestCheckInv ==
    ASSUME EnrolInv, NEW m \in Machines, IngestCheck(m)
    PROVE  EnrolInv'
<1> DEFINE h == sync[m].host
           q == [sync[m] EXCEPT !.pc = "verified"]
<1>1. UNCHANGED <<serverVars, file, enrol, lost>> /\ lost' \in 0..MaxLost
  BY DEF IngestCheck, EnrolInv, TypeOK
<1>2. CASE h \in access /\ AcceptsSnapshot(h, MachineId[m])
  <2>1. sync' = [sync EXCEPT ![m] = q]
    BY <1>2 DEF IngestCheck, GetActiveHostAccessTokenByHash
  <2>2. sync[m] \in SyncRun /\ h \in HostIds /\ MachineId[m] # None
    BY DEF EnrolInv, TypeOK, SyncChecked, IngestCheck
  <2>3. q \in SyncRun /\ q.host = h
    BY <2>2 DEF SyncRun
  <2>4. hosts[h].machine # None
    BY <1>2 DEF EnrolInv, TokensNamed, RowsChecked, TypeOK
  <2>5. SyncAllowed(m, q)
    BY <1>2, <2>2, <2>3, <2>4 DEF SyncAllowed, AcceptsSnapshot
  <2> HIDE DEF q
  <2> QED
    BY <1>1, <2>1, <2>5, SyncFrame
<1>3. CASE ~(h \in access /\ AcceptsSnapshot(h, MachineId[m]))
  <2>1. sync' = [sync EXCEPT ![m] = NoSyncRun]
    BY <1>3 DEF IngestCheck, GetActiveHostAccessTokenByHash
  <2> QED
    BY <1>1, <2>1, SyncEnds, SyncFrame
<1> QED
  BY <1>2, <1>3

LEMMA IngestLostInv ==
    ASSUME EnrolInv, NEW m \in Machines, IngestLost(m)
    PROVE  EnrolInv'
BY SyncEnds, SyncFrame, LosingType DEF IngestLost

\* The update overwrites the machine id with itself.
LEMMA IngestCommitInv ==
    ASSUME EnrolInv, NEW m \in Machines, IngestCommit(m)
    PROVE  EnrolInv'
<1> DEFINE h == sync[m].host
<1>1. h \in HostIds /\ MachineId[m] \in MachineIds
  BY EnrollmentAssumption DEF IngestCommit, EnrolInv, SyncChecked
<1>2. sync' = [sync EXCEPT ![m] = NoSyncRun]
  BY DEF IngestCommit
<1>3. UNCHANGED <<regTokens, auto, access, vouched, renamed, file, enrol, lost>>
  BY DEF IngestCommit
<1>4. CASE ~Exists(h)
  <2>1. UNCHANGED <<hosts, snaps>>
    BY <1>4 DEF IngestCommit
  <2>2. UNCHANGED <<serverVars, file, enrol>> /\ lost' \in 0..MaxLost
    BY <1>3, <2>1 DEF serverVars, EnrolInv, TypeOK
  <2> QED
    BY <1>2, <2>2, SyncEnds, SyncFrame
<1>5. CASE Exists(h)
  <2>1. hosts[h].machine = MachineId[m] /\ hosts[h].status = "approved" /\ h \in access
    BY <1>1, <1>5 DEF IngestCommit, EnrolInv, SyncChecked, Exists
  <2>2. hosts[h].mode = "agent" /\ h \in vouched
    BY <2>1 DEF EnrolInv, TokensNamed, RowsChecked, TypeOK
  <2>3. hosts[h] \in Row
    BY <1>1 DEF EnrolInv, TypeOK
  <2>4. UpdateHostFromSnapshot(h, MachineId[m]) = hosts[h]
    BY <2>1, <2>3 DEF UpdateHostFromSnapshot, Row
  <2>5. hosts' = hosts
    BY <1>1, <1>5, <2>4 DEF IngestCommit, EnrolInv, TypeOK
  <2>6. snaps' = [snaps EXCEPT ![h] = @ \cup {MachineId[m]}]
    BY <1>5 DEF IngestCommit
  <2>7. /\ snaps'[h] = snaps[h] \cup {MachineId[m]}
        /\ \A g \in HostIds \ {h} : snaps'[g] = snaps[g]
        /\ snaps' \in [HostIds -> SUBSET MachineIds]
    BY <1>1, <2>6 DEF EnrolInv, TypeOK
  <2>8. TypeOK'
    BY <1>2, <1>3, <2>5, <2>7, RecordTypes DEF EnrolInv, TypeOK
  <2>9. OneMachinePerHost' /\ SnapshotsVouched' /\ RowsChecked'
    BY <1>1, <1>3, <2>1, <2>2, <2>5, <2>7
    DEF EnrolInv, OneMachinePerHost, SnapshotsVouched, RowsChecked, Exists
  <2>10. sync'[m] = NoSyncRun /\ \A n \in Machines \ {m} : sync'[n] = sync[n]
    BY <1>2 DEF EnrolInv, TypeOK
  <2>11. SyncChecked'
    BY <1>3, <2>5, <2>10 DEF EnrolInv, SyncChecked, Exists, NoSyncRun
  <2> QED
    BY <1>3, <2>5, <2>8, <2>9, <2>11
    DEF EnrolInv, TokensNamed, NamesRegistered, FilesIssued, AnswersIssued, EnrolChecked, Exists
<1> QED
  BY <1>4, <1>5

-----------------------------------------------------------------------------
(* The theorems *)

LEMMA StepInv == EnrolInv /\ [Next]_vars => EnrolInv'
<1> SUFFICES ASSUME EnrolInv, [Next]_vars PROVE EnrolInv'
  OBVIOUS
<1>1. ASSUME NEW e \in Enrolments, EnrolNext(e) PROVE EnrolInv'
  BY <1>1, EnrollInv, RegisterCheckTokenInv, RegisterCommitInv, EnrolEndInv, HangUpInv,
     ReceiveTokenInv, SaveInv DEF EnrolNext
<1>2. ASSUME NEW m \in Machines, SyncNext(m) PROVE EnrolInv'
  BY <1>2, SyncInv, IngestCheckInv, IngestCommitInv, IngestLostInv DEF SyncNext
<1>3. ASSUME NEW a \in Machines, NEW b \in Machines, CloneMachine(a, b) PROVE EnrolInv'
  BY <1>3, CloneMachineInv
<1>4. CASE AdminNext
  BY <1>4, RegistrationTokenInv, ApproveHostInv, RenameHostInv, DeleteHostInv, CreateManualHostInv,
     IngestManualReportInv DEF AdminNext
<1>5. CASE UNCHANGED vars
  BY <1>5 DEF vars, EnrolInv, TypeOK, OneMachinePerHost, SnapshotsVouched, TokensNamed, NamesRegistered, RowsChecked,
     FilesIssued, AnswersIssued, EnrolChecked, SyncChecked, Exists
<1> QED
  BY <1>1, <1>2, <1>3, <1>4, <1>5 DEF Next

\* The inductive invariant of enrolment holds for any machines, hosts, tokens and losses.
THEOREM EnrolInvariant == Spec => []EnrolInv
BY InitInv, StepInv, PTL DEF Spec

\* Type correctness.
THEOREM TypeCorrect == Spec => []TypeOK
<1>1. EnrolInv => TypeOK
  BY DEF EnrolInv
<1> QED
  BY <1>1, EnrolInvariant, PTL

\* IngestAgentSnapshot accepts the snapshots of one machine for a host: nothing that happens
\* between the check of the machine id and the update makes another machine's pass.
THEOREM MachinesKeptApart == Spec => []OneMachinePerHost
<1>1. EnrolInv => OneMachinePerHost
  BY DEF EnrolInv
<1> QED
  BY <1>1, EnrolInvariant, PTL

\* No snapshot is stored for an agent's host that nobody approved.
THEOREM OnlyVouchedReport == Spec => []SnapshotsVouched
<1>1. EnrolInv => SnapshotsVouched
  BY DEF EnrolInv
<1> QED
  BY <1>1, EnrolInvariant, PTL

\* Registrations that are lost and tried again leave one host of a machine: the row that was not
\* renamed has the name that the next attempt sends, and the unique index refuses it.
THEOREM RetriesLeaveOneHost == Spec => []OneHostPerMachine
<1>1. EnrolInv => OneHostPerMachine
  <2> SUFFICES ASSUME EnrolInv, NEW g \in HostIds \ renamed, NEW h \in HostIds \ renamed,
                      hosts[g].mode = "agent", hosts[h].mode = "agent",
                      hosts[g].machine = hosts[h].machine, OneName(hosts[g].machine)
               PROVE  g = h
    BY DEF OneHostPerMachine
  <2>1. PICK a \in Machines : hosts[g].machine = MachineId[a] /\ hosts[g].name = Hostname[a]
    BY DEF EnrolInv, NamesRegistered
  <2>2. PICK b \in Machines : hosts[h].machine = MachineId[b] /\ hosts[h].name = Hostname[b]
    BY DEF EnrolInv, NamesRegistered
  <2>3. hosts[g].name = hosts[h].name /\ hosts[g].name # None
    <3>1. Hostname[a] = Hostname[b]
      BY <2>1, <2>2, Zenon DEF OneName
    <3>2. Hostname[a] \in Names /\ None \notin Names
      BY EnrollmentAssumption
    <3> QED
      BY <2>1, <2>2, <3>1, <3>2
  <2>4. Exists(g) /\ Exists(h)
    BY DEF EnrolInv, RowsChecked
  <2> QED
    BY <2>3, <2>4 DEF EnrolInv, TokensNamed
<1> QED
  BY <1>1, EnrolInvariant, PTL

\* A token that nobody holds stays with nobody: files are copies of files, requests carry the
\* token of a file, and an answer carries a token that was issued for it.
LEMMA NobodyFindsAToken ==
    ASSUME EnrolInv, Next, NEW h \in access, ~Held(h)
    PROVE  ~Held(h)' /\ snaps'[h] \subseteq snaps[h]
<1>1. h \in HostIds /\ h # NoFile /\ h # Broken /\ h # None /\ hosts[h].status # "unused"
  BY FileAssumption, EnrollmentAssumption DEF EnrolInv, TypeOK, TokensNamed, Exists
<1>2. /\ \A m \in Machines : file[m] # h /\ (sync[m].pc # "idle" => sync[m].host # h)
      /\ \A e \in Enrolments : enrol[e].host # h
  BY DEF Held
<1>3. /\ file \in [Machines -> HostIds \cup {NoFile, Broken}]
      /\ enrol \in [Enrolments -> EnrolRun] /\ sync \in [Machines -> SyncRun]
      /\ snaps \in [HostIds -> SUBSET MachineIds]
  BY DEF EnrolInv, TypeOK
<1> SUFFICES /\ \A m \in Machines : file'[m] # h /\ (sync'[m].pc # "idle" => sync'[m].host # h)
             /\ \A e \in Enrolments : enrol'[e].host # h
             /\ snaps'[h] \subseteq snaps[h]
  BY DEF Held
<1>4. ASSUME NEW e \in Enrolments, EnrolNext(e)
      PROVE  /\ \A m \in Machines : file'[m] # h /\ (sync'[m].pc # "idle" => sync'[m].host # h)
             /\ \A d \in Enrolments : enrol'[d].host # h
             /\ snaps'[h] \subseteq snaps[h]
  <2>1. sync' = sync /\ snaps' = snaps
    BY <1>4 DEF EnrolNext, Enroll, RegisterCheckToken, RegisterCommit, RegisterDuplicate, HangUp,
       RegisterRollback, ReceiveToken, LoseAnswer, SaveTruncate, SaveWrite, SaveFail, serverVars
  <2>2. \A m \in Machines : file'[m] # h
    <3>1. file' = file \/ SaveTruncate(e) \/ SaveWrite(e)
      BY <1>4 DEF EnrolNext, Enroll, RegisterCheckToken, RegisterCommit, RegisterDuplicate, HangUp,
         RegisterRollback, ReceiveToken, LoseAnswer, SaveFail
    <3> QED
      BY <3>1, <1>1, <1>2, <1>3 DEF SaveTruncate, SaveWrite
  <2>3. \A d \in Enrolments : enrol'[d].host # h
    <3>1. enrol[e] \in EnrolRun
      BY <1>3
    <3>2. enrol'[e].host # h /\ \A d \in Enrolments \ {e} : enrol'[d] = enrol[d]
      <4>1. CASE \E m \in Machines, t \in RegTokens : Enroll(e, m, t)
        BY <4>1, <1>1, <1>3 DEF Enroll
      <4>2. CASE \E g \in HostIds : RegisterCommit(e, g)
        BY <4>2, <3>1, <1>1, <1>3 DEF RegisterCommit, EnrolRun
      <4>3. CASE RegisterCheckToken(e) \/ RegisterDuplicate(e) \/ RegisterRollback(e) \/ LoseAnswer(e)
                 \/ SaveWrite(e) \/ SaveFail(e)
        BY <4>3, <3>1, <1>1, <1>2, <1>3 DEF RegisterCheckToken, RegisterDuplicate, RegisterRollback,
           LoseAnswer, SaveWrite, SaveFail, NoEnrolRun, EnrolRun
      <4>4. CASE HangUp(e)
        BY <4>4, <3>1, <1>2, <1>3 DEF HangUp, EnrolRun
      <4>5. CASE ReceiveToken(e)
        BY <4>5, <3>1, <1>2, <1>3 DEF ReceiveToken, EnrolRun
      <4>6. CASE SaveTruncate(e)
        BY <4>6, <3>1, <1>2, <1>3 DEF SaveTruncate, EnrolRun
      <4> QED
        BY <1>4, <4>1, <4>2, <4>3, <4>4, <4>5, <4>6 DEF EnrolNext
    <3> QED
      BY <3>2, <1>2, <1>3
  <2> QED
    BY <2>1, <2>2, <2>3, <1>2
<1>5. ASSUME NEW m \in Machines, SyncNext(m)
      PROVE  /\ \A n \in Machines : file'[n] # h /\ (sync'[n].pc # "idle" => sync'[n].host # h)
             /\ \A d \in Enrolments : enrol'[d].host # h
             /\ snaps'[h] \subseteq snaps[h]
  <2>1. file' = file /\ enrol' = enrol
    BY <1>5 DEF SyncNext, Sync, IngestCheck, IngestCommit, IngestLost
  <2>2. snaps'[h] \subseteq snaps[h]
    <3>1. snaps' = snaps \/ IngestCommit(m)
      BY <1>5 DEF SyncNext, Sync, IngestCheck, IngestLost, serverVars
    <3> QED
      BY <3>1, <1>1, <1>2, <1>3 DEF IngestCommit
  <2>3. sync[m] \in SyncRun
    BY <1>3
  <2>4. /\ sync'[m].pc # "idle" => sync'[m].host # h
      /\ \A n \in Machines \ {m} : sync'[n] = sync[n]
    <3>1. CASE Sync(m)
      BY <3>1, <1>2, <1>3 DEF Sync
    <3>2. CASE IngestCheck(m)
      BY <3>2, <2>3, <1>2, <1>3 DEF IngestCheck, SyncRun, NoSyncRun
    <3>3. CASE IngestCommit(m) \/ IngestLost(m)
      BY <3>3, <1>3 DEF IngestCommit, IngestLost, NoSyncRun
    <3> QED
      BY <1>5, <3>1, <3>2, <3>3 DEF SyncNext
  <2> QED
    BY <2>1, <2>2, <2>4, <1>2, <1>3
<1>6. ASSUME NEW a \in Machines, NEW b \in Machines, CloneMachine(a, b)
      PROVE  /\ \A m \in Machines : file'[m] # h /\ (sync'[m].pc # "idle" => sync'[m].host # h)
             /\ \A d \in Enrolments : enrol'[d].host # h
             /\ snaps'[h] \subseteq snaps[h]
  BY <1>6, <1>2, <1>3 DEF CloneMachine, serverVars
<1>7. CASE AdminNext
  <2>1. UNCHANGED <<file, enrol, sync>>
    BY <1>7 DEF AdminNext, CreateRegistrationToken, RevokeRegistrationToken, ApproveHost,
       RenameHost, DeleteHost, CreateManualHost, IngestManualReport
  <2>2. snaps' = snaps \/ \E g \in HostIds : snaps' = [snaps EXCEPT ![g] = {}]
    BY <1>7 DEF AdminNext, CreateRegistrationToken, RevokeRegistrationToken, ApproveHost,
       RenameHost, DeleteHost, CreateManualHost, IngestManualReport
  <2>3. snaps'[h] \subseteq snaps[h]
    BY <2>2, <1>1, <1>3
  <2> QED
    BY <2>1, <2>3, <1>2
<1> QED
  BY <1>4, <1>5, <1>6, <1>7 DEF Next

\* What a lost registration leaves behind is never used: the host stays without reports until an
\* administrator removes it.
THEOREM StrandedForGood == Spec => StrandedStaysSilent
<1>1. EnrolInv /\ [Next]_vars =>
        [\A h \in access : ~Held(h) => ~Held(h)' /\ snaps'[h] \subseteq snaps[h]]_vars
  BY NobodyFindsAToken
<1> QED
  BY <1>1, EnrolInvariant, PTL DEF Spec, StrandedStaysSilent

\* A deleted host never comes back and its id is not given again: whoever still holds its token,
\* in a file that was cloned or in a request on its way, is refused for ever and stores nothing.
DeletedForGood ==
    [][\A h \in HostIds : hosts[h].status = "deleted" =>
          hosts'[h].status = "deleted" /\ h \notin access' /\ snaps'[h] = {}]_vars

\* Rows are written where they exist, or under an id that was not used.
LEMMA RowsWritten ==
    ASSUME EnrolInv, Next, NEW h \in HostIds, hosts[h].status = "deleted"
    PROVE  hosts'[h] = hosts[h]
<1>1. hosts \in [HostIds -> Row]
  BY DEF EnrolInv, TypeOK
<1>2. ASSUME NEW e \in Enrolments, EnrolNext(e) PROVE hosts'[h] = hosts[h]
  <2>1. hosts' = hosts \/ \E g \in HostIds : RegisterCommit(e, g)
    BY <1>2 DEF EnrolNext, Enroll, RegisterCheckToken, RegisterDuplicate, HangUp, RegisterRollback,
       ReceiveToken, LoseAnswer, SaveTruncate, SaveWrite, SaveFail, serverVars
  <2> QED
    BY <1>1, <2>1 DEF RegisterCommit
<1>3. ASSUME NEW m \in Machines, SyncNext(m) PROVE hosts'[h] = hosts[h]
  BY <1>1, <1>3 DEF SyncNext, Sync, IngestCheck, IngestCommit, IngestLost, serverVars, Exists
<1>4. ASSUME NEW a \in Machines, NEW b \in Machines, CloneMachine(a, b) PROVE hosts'[h] = hosts[h]
  BY <1>4 DEF CloneMachine, serverVars
<1>5. CASE AdminNext
  BY <1>1, <1>5 DEF AdminNext, CreateRegistrationToken, RevokeRegistrationToken, ApproveHost,
     RenameHost, DeleteHost, CreateManualHost, IngestManualReport, Exists
<1> QED
  BY <1>2, <1>3, <1>4, <1>5 DEF Next

\* IngestAgentSnapshot and RegisterAgentHost never revive what DeleteHost removed.
THEOREM DeletedStaysDeleted == Spec => DeletedForGood
<1>1. EnrolInv /\ EnrolInv' /\ [Next]_vars =>
        [\A h \in HostIds : hosts[h].status = "deleted" =>
            hosts'[h].status = "deleted" /\ h \notin access' /\ snaps'[h] = {}]_vars
  <2> SUFFICES ASSUME EnrolInv, EnrolInv', Next, NEW h \in HostIds, hosts[h].status = "deleted"
               PROVE  hosts'[h].status = "deleted" /\ h \notin access' /\ snaps'[h] = {}
    BY DEF vars
  <2>1. hosts'[h].status = "deleted"
    BY RowsWritten
  <2>2. h \notin access' /\ snaps'[h] = {}
    BY <2>1 DEF EnrolInv, TokensNamed, RowsChecked, Exists
  <2> QED
    BY <2>1, <2>2
<1> QED
  BY <1>1, EnrolInvariant, PTL DEF Spec, DeletedForGood
=============================================================================
