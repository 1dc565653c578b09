----------------------------- MODULE Enrollment -----------------------------
(***************************************************************************)
(* Registration tokens, the registration of an agent (`patchbase-agent      *)
(* enroll` and RegisterAgentHost), the approval of hosts, and the sync of an *)
(* enrolled machine (`patchbase-agent sync` and the checks of               *)
(* IngestAgentSnapshot).                                                   *)
(*                                                                         *)
(* A machine keeps one configuration file; the access token in it is named  *)
(* by the host it was issued for.  Calls are lost, agents crash and files   *)
(* are copied to cloned machines.  What an ingestion stores is HostMatch's. *)
(***************************************************************************)
EXTENDS Naturals, FiniteSets

CONSTANTS
    Enrolments,     \* enrolments that may be in progress at the same time
    Machines,
    HostIds,        \* ids the server may give; an id is never used again
    RegTokens,      \* registration tokens that may be created
    Names,          \* host names and display names
    MachineIds,     \* contents of /etc/machine-id
    ReportIds,      \* machine ids that the reports of manual hosts name
    None,           \* NULL, or the empty string
    Hostname,       \* [Machines -> Names]
    MachineId,      \* [Machines -> MachineIds \cup {None}]
    MaxLost         \* bound: calls lost and agents killed

ASSUME EnrollmentAssumption ==
    /\ None \notin Names \cup MachineIds \cup HostIds
    /\ Hostname \in [Machines -> Names]
    /\ MachineId \in [Machines -> MachineIds \cup {None}]
    /\ ReportIds \subseteq MachineIds \cup {None}
    /\ MaxLost \in Nat

NoFile == "no file"
Broken == "broken"      \* a file whose write was cut short; Load cannot parse it

ASSUME FileAssumption == {NoFile, Broken} \cap HostIds = {}

VARIABLES
    regTokens,  \* registration_tokens: absent, active or revoked
    auto,       \* registration tokens created with auto_approve
    hosts,      \* hosts: the rows, with the ids not yet used and those deleted
    access,     \* host_access_tokens: the hosts that have an active token
    snaps,      \* host_snapshots: the machine ids in the snapshots agents sent for a host
    vouched,    \* history: the rows an administrator approved, or a token with auto_approve
    renamed,    \* history: the agent hosts an administrator gave another name
    file,       \* the configuration file of each machine
    enrol,      \* enrolments in progress: the agent's process and its request
    sync,       \* the sync of each machine: the agent's process and its request
    lost        \* losses so far

serverVars == <<regTokens, auto, hosts, access, snaps, vouched, renamed>>
vars == <<regTokens, auto, hosts, access, snaps, vouched, renamed, file, enrol, sync, lost>>

Row == [status : {"unused", "waiting_approval", "approved", "deleted"},
        mode : {"none", "agent", "manual"},
        name : Names \cup {None}, machine : MachineIds \cup {None}]
NoRow == [status |-> "unused", mode |-> "none", name |-> None, machine |-> None]

EnrolRun == [pc : {"idle", "sent", "checked", "answered", "received", "writing"},
             machine : Machines \cup {None}, token : RegTokens \cup {None},
             host : HostIds \cup {None}, heard : BOOLEAN]
NoEnrolRun == [pc |-> "idle", machine |-> None, token |-> None, host |-> None, heard |-> FALSE]

SyncRun == [pc : {"idle", "posted", "verified"}, host : HostIds \cup {None}]
NoSyncRun == [pc |-> "idle", host |-> None]

TypeOK ==
    /\ regTokens \in [RegTokens -> {"absent", "active", "revoked"}]
    /\ auto \subseteq RegTokens
    /\ hosts \in [HostIds -> Row]
    /\ access \subseteq HostIds
    /\ snaps \in [HostIds -> SUBSET MachineIds]
    /\ vouched \subseteq HostIds
    /\ renamed \subseteq HostIds
    /\ file \in [Machines -> HostIds \cup {NoFile, Broken}]
    /\ enrol \in [Enrolments -> EnrolRun]
    /\ sync \in [Machines -> SyncRun]
    /\ lost \in 0..MaxLost

Init ==
    /\ regTokens = [t \in RegTokens |-> "absent"]
    /\ auto = {}
    /\ hosts = [h \in HostIds |-> NoRow]
    /\ access = {}
    /\ snaps = [h \in HostIds |-> {}]
    /\ vouched = {}
    /\ renamed = {}
    /\ file = [m \in Machines |-> NoFile]
    /\ enrol = [e \in Enrolments |-> NoEnrolRun]
    /\ sync = [m \in Machines |-> NoSyncRun]
    /\ lost = 0

Losing == lost < MaxLost /\ lost' = lost + 1

-----------------------------------------------------------------------------
(* Queries *)

GetActiveRegistrationTokenByHash(t) == regTokens[t] = "active"
GetActiveHostAccessTokenByHash(h) == h \in access

\* GetHostByID: the row is there.
Exists(h) == hosts[h].status \in {"waiting_approval", "approved"}

\* hosts_display_name_unique_idx, in which NULLs are not equal.
NameTakenMutant(n, h) == FALSE
NameTaken(n, h) == n # None /\ \E g \in HostIds \ {h} : Exists(g) /\ hosts[g].name = n

\* InsertAgentHost and InsertAgentHostApproved: the columns they set.
InsertAgentHost(m) ==
    [status |-> "waiting_approval", mode |-> "agent", name |-> Hostname[m],
     machine |-> MachineId[m]]
InsertAgentHostApproved(m) ==
    [status |-> "approved", mode |-> "agent", name |-> Hostname[m],
     machine |-> MachineId[m]]
InsertManualHost(n) ==
    [status |-> "approved", mode |-> "manual", name |-> n, machine |-> None]

InsertHostAccessToken(h) == access \cup {h}
DeleteHostAccessTokensByHostID(h) == access \ {h}
DeleteHostByID == [NoRow EXCEPT !.status = "deleted"]

\* ApproveHostByID has no condition on the status.
ApproveHostByID(h) == [hosts[h] EXCEPT !.status = "approved"]
UpdateHostDisplayName(h, n) == [hosts[h] EXCEPT !.name = n]

\* UpdateHostFromSnapshot overwrites the machine id, with NULL too.
UpdateHostFromSnapshot(h, id) == [hosts[h] EXCEPT !.machine = id]

-----------------------------------------------------------------------------
(* Registration tokens, approval and manual hosts *)

CreateRegistrationToken(t, autoApprove) ==
    /\ regTokens[t] = "absent"
    /\ regTokens' = [regTokens EXCEPT ![t] = "active"]
    /\ auto' = IF autoApprove THEN auto \cup {t} ELSE auto
    /\ UNCHANGED <<hosts, access, snaps, vouched, renamed, file, enrol, sync, lost>>

\* A token that is already revoked is refused (ErrTokenAlreadyRevoked).
RevokeRegistrationToken(t) ==
    /\ regTokens[t] = "active"
    /\ regTokens' = [regTokens EXCEPT ![t] = "revoked"]
    /\ UNCHANGED <<auto, hosts, access, snaps, vouched, renamed, file, enrol, sync, lost>>

ApproveHost(h) ==
    /\ Exists(h)
    /\ hosts' = [hosts EXCEPT ![h] = ApproveHostByID(h)]
    /\ vouched' = vouched \cup {h}
    /\ UNCHANGED <<regTokens, auto, access, snaps, renamed, file, enrol, sync, lost>>

\* The display name part of UpdateHost; the schedule part is SSHPull's.
RenameHost(h, n) ==
    /\ Exists(h)
    /\ ~NameTaken(n, h)
    /\ hosts' = [hosts EXCEPT ![h] = UpdateHostDisplayName(h, n)]
    /\ renamed' = IF hosts[h].mode = "agent" /\ n # hosts[h].name THEN renamed \cup {h} ELSE renamed
    /\ UNCHANGED <<regTokens, auto, access, snaps, vouched, file, enrol, sync, lost>>

DeleteHost(h) ==
    /\ Exists(h)
    /\ hosts' = [hosts EXCEPT ![h] = DeleteHostByID]
    /\ access' = DeleteHostAccessTokensByHostID(h)
    /\ snaps' = [snaps EXCEPT ![h] = {}]
    /\ vouched' = vouched \ {h}
    /\ renamed' = renamed \ {h}
    /\ UNCHANGED <<regTokens, auto, file, enrol, sync, lost>>

\* A manual host is approved from the start and has no access token.
CreateManualHost(h, n) ==
    /\ hosts[h].status = "unused"
    /\ ~NameTaken(n, h)
    /\ hosts' = [hosts EXCEPT ![h] = InsertManualHost(n)]
    /\ UNCHANGED <<regTokens, auto, access, snaps, vouched, renamed, file, enrol, sync, lost>>

\* The report of a manual host may name any machine; nothing compares it.
IngestManualReport(h, id) ==
    /\ Exists(h)
    /\ hosts[h].mode = "manual"
    /\ hosts' = [hosts EXCEPT ![h] = UpdateHostFromSnapshot(h, id)]
    /\ UNCHANGED <<regTokens, auto, access, snaps, vouched, renamed, file, enrol, sync, lost>>

-----------------------------------------------------------------------------
(* patchbase-agent enroll and RegisterAgentHost *)

\* RegisterHostRequest.validate: the machine id has at least one character.
ValidRegistration(m) == MachineId[m] # None

\* The agent sends the request with the token its operator was given.
Enroll(e, m, t) ==
    /\ enrol[e].pc = "idle"
    /\ regTokens[t] # "absent"
    /\ ValidRegistration(m)
    /\ enrol' = [enrol EXCEPT ![e] = [pc |-> "sent", machine |-> m, token |-> t,
                                      host |-> None, heard |-> TRUE]]
    /\ UNCHANGED <<serverVars, file, sync, lost>>

\* The transaction starts with the token; the row is not locked.
RegisterCheckToken(e) ==
    /\ enrol[e].pc = "sent"
    /\ enrol' = [enrol EXCEPT ![e] = IF GetActiveRegistrationTokenByHash(enrol[e].token)
                                     THEN [enrol[e] EXCEPT !.pc = "checked"]
                                     ELSE NoEnrolRun]
    /\ UNCHANGED <<serverVars, file, sync, lost>>

\* It inserts the host and its access token under a new id and commits, ...
RegisterCommit(e, h) ==
    /\ enrol[e].pc = "checked"
    /\ hosts[h].status = "unused"
    /\ ~NameTaken(Hostname[enrol[e].machine], h)
    /\ hosts' = [hosts EXCEPT ![h] = IF enrol[e].token \in auto
                                     THEN InsertAgentHostApproved(enrol[e].machine)
                                     ELSE InsertAgentHost(enrol[e].machine)]
    /\ access' = InsertHostAccessToken(h)
    /\ vouched' = IF enrol[e].token \in auto THEN vouched \cup {h} ELSE vouched
    /\ enrol' = [enrol EXCEPT ![e] = [@ EXCEPT !.pc = "answered", !.host = h]]
    /\ UNCHANGED <<regTokens, auto, snaps, renamed, file, sync, lost>>

RegisterDuplicateMutant(e) ==
    /\ enrol[e].pc = "checked"
    /\ \E h \in access :
           /\ hosts[h].name = Hostname[enrol[e].machine]
           /\ enrol' = [enrol EXCEPT ![e] = [@ EXCEPT !.pc = "answered", !.host = h]]
    /\ UNCHANGED <<serverVars, file, sync, lost>>
\* ... or the display name is in use (ErrDuplicateHostDisplayName): also when it is the
\* name of the host that an earlier enrolment of this machine left behind.
RegisterDuplicate(e) ==
    /\ enrol[e].pc = "checked"
    /\ NameTaken(Hostname[enrol[e].machine], None)
    /\ enrol' = [enrol EXCEPT ![e] = NoEnrolRun]
    /\ UNCHANGED <<serverVars, file, sync, lost>>

\* The client gives up (its 60 seconds are over, or it is killed); the request goes on.
HangUp(e) ==
    /\ enrol[e].pc \in {"sent", "checked"}
    /\ enrol[e].heard
    /\ Losing
    /\ enrol' = [enrol EXCEPT ![e].heard = FALSE]
    /\ UNCHANGED <<serverVars, file, sync>>

\* The request is never received, or its context ends and the transaction is rolled back.
RegisterRollback(e) ==
    /\ enrol[e].pc \in {"sent", "checked"}
    /\ Losing
    /\ enrol' = [enrol EXCEPT ![e] = NoEnrolRun]
    /\ UNCHANGED <<serverVars, file, sync>>

\* The answer reaches the agent, ...
ReceiveToken(e) ==
    /\ enrol[e].pc = "answered"
    /\ enrol[e].heard
    /\ enrol' = [enrol EXCEPT ![e].pc = "received"]
    /\ UNCHANGED <<serverVars, file, sync, lost>>

\* ... or nobody: the host stays behind with a token that no machine knows.
LoseAnswer(e) ==
    /\ enrol[e].pc = "answered"
    /\ (~enrol[e].heard /\ lost' = lost) \/ Losing
    /\ enrol' = [enrol EXCEPT ![e] = NoEnrolRun]
    /\ UNCHANGED <<serverVars, file, sync>>

\* Save truncates the file and then writes it.
SaveTruncate(e) ==
    /\ enrol[e].pc = "received"
    /\ file' = [file EXCEPT ![enrol[e].machine] = Broken]
    /\ enrol' = [enrol EXCEPT ![e].pc = "writing"]
    /\ UNCHANGED <<serverVars, sync, lost>>

SaveWrite(e) ==
    /\ enrol[e].pc = "writing"
    /\ file' = [file EXCEPT ![enrol[e].machine] = enrol[e].host]
    /\ enrol' = [enrol EXCEPT ![e] = NoEnrolRun]
    /\ UNCHANGED <<serverVars, sync, lost>>

\* The agent is killed, or an error ends it, before the file is complete.
SaveFail(e) ==
    /\ enrol[e].pc \in {"received", "writing"}
    /\ Losing
    /\ enrol' = [enrol EXCEPT ![e] = NoEnrolRun]
    /\ UNCHANGED <<serverVars, file, sync>>

\* Environment: machine b is set up from an image of machine a.
CloneMachine(a, b) ==
    /\ file[a] \in HostIds
    /\ file' = [file EXCEPT ![b] = file[a]]
    /\ UNCHANGED <<serverVars, enrol, sync, lost>>

-----------------------------------------------------------------------------
(* patchbase-agent sync and IngestAgentSnapshot *)

\* Load parses the file.
Load(m) == file[m] \in HostIds

\* loadSyncConfig needs a file that can be parsed; CollectSnapshot needs a machine id.
Sync(m) ==
    /\ sync[m].pc = "idle"
    /\ Load(m)
    /\ MachineId[m] # None
    /\ sync' = [sync EXCEPT ![m] = [pc |-> "posted", host |-> file[m]]]
    /\ UNCHANGED <<serverVars, file, enrol, lost>>

\* What IngestAgentSnapshot asks of the row: approved, and the same machine when the row
\* and the snapshot name one.
AcceptsSnapshotUnmatched(h, id) == hosts[h].status = "approved"
AcceptsSnapshotUnapproved(h, id) ==
    hosts[h].machine = None \/ id = None \/ hosts[h].machine = id
AcceptsSnapshotUnnamed(h, id) ==
    /\ hosts[h].status = "approved"
    /\ hosts[h].machine = None \/ id = None
AcceptsSnapshot(h, id) ==
    /\ hosts[h].status = "approved"
    /\ hosts[h].machine = None \/ id = None \/ hosts[h].machine = id

IngestCheck(m) ==
    /\ sync[m].pc = "posted"
    /\ LET h == sync[m].host
       IN  sync' = [sync EXCEPT ![m] =
                       IF GetActiveHostAccessTokenByHash(h) /\ AcceptsSnapshot(h, MachineId[m])
                       THEN [@ EXCEPT !.pc = "verified"]
                       ELSE NoSyncRun]
    /\ UNCHANGED <<serverVars, file, enrol, lost>>

\* The snapshot needs its host (host_snapshots_host_fk): a host deleted since the check
\* makes the transaction fail.
IngestCommit(m) ==
    /\ sync[m].pc = "verified"
    /\ LET h == sync[m].host
       IN  IF Exists(h)
           THEN /\ hosts' = [hosts EXCEPT ![h] = UpdateHostFromSnapshot(h, MachineId[m])]
                /\ snaps' = [snaps EXCEPT ![h] = @ \cup {MachineId[m]}]
           ELSE UNCHANGED <<hosts, snaps>>
    /\ sync' = [sync EXCEPT ![m] = NoSyncRun]
    /\ UNCHANGED <<regTokens, auto, access, vouched, renamed, file, enrol, lost>>

\* The request or its transaction is lost; the agent reports the error and ends.
IngestLost(m) ==
    /\ sync[m].pc # "idle"
    /\ Losing
    /\ sync' = [sync EXCEPT ![m] = NoSyncRun]
    /\ UNCHANGED <<serverVars, file, enrol>>

-----------------------------------------------------------------------------
EnrolNext(e) ==
    \/ \E m \in Machines, t \in RegTokens : Enroll(e, m, t)
    \/ RegisterCheckToken(e)
    \/ \E h \in HostIds : RegisterCommit(e, h)
    \/ RegisterDuplicate(e)
    \/ HangUp(e)
    \/ RegisterRollback(e)
    \/ ReceiveToken(e)
    \/ LoseAnswer(e)
    \/ SaveTruncate(e)
    \/ SaveWrite(e)
    \/ SaveFail(e)

SyncNext(m) ==
    \/ Sync(m)
    \/ IngestCheck(m)
    \/ IngestCommit(m)
    \/ IngestLost(m)

AdminNext ==
    \/ \E t \in RegTokens, a \in BOOLEAN : CreateRegistrationToken(t, a)
    \/ \E t \in RegTokens : RevokeRegistrationToken(t)
    \/ \E h \in HostIds : ApproveHost(h)
    \/ \E h \in HostIds, n \in Names : RenameHost(h, n)
    \/ \E h \in HostIds : DeleteHost(h)
    \/ \E h \in HostIds, n \in Names \cup {None} : CreateManualHost(h, n)
    \/ \E h \in HostIds, id \in ReportIds : IngestManualReport(h, id)

Next ==
    \/ \E e \in Enrolments : EnrolNext(e)
    \/ \E m \in Machines : SyncNext(m)
    \/ \E a, b \in Machines : CloneMachine(a, b)
    \/ AdminNext

Spec == Init /\ [][Next]_vars

\* systemd's timer starts a sync every ten minutes, and a request that is not lost ends.
FairSpec ==
    /\ Spec
    /\ \A m \in Machines : WF_vars(Sync(m)) /\ WF_vars(IngestCheck(m)) /\ WF_vars(IngestCommit(m))

-----------------------------------------------------------------------------
(* Properties *)

\* All the snapshots IngestAgentSnapshot accepted for an agent host come from the machine
\* that registered it, whatever configuration files were copied and however ingestions,
\* deletions and losses interleave between the check of the machine id and the update
\* that overwrites it.
OneMachinePerHost ==
    \A h \in HostIds : hosts[h].mode = "agent" => snaps[h] \subseteq {hosts[h].machine}

\* Only a host that an administrator approved, or that was registered with a token created
\* with auto_approve, has snapshots: approval is checked when the snapshot is sent, the host
\* may have been deleted and the token revoked meanwhile.
SnapshotsVouched ==
    \A h \in HostIds : hosts[h].mode = "agent" /\ snaps[h] # {} => h \in vouched

\* The machine id and the host name that a registration sends belong together.
OneName(id) ==
    \A a, b \in Machines : MachineId[a] = id /\ MachineId[b] = id => Hostname[a] = Hostname[b]

\* However often the answer of RegisterAgentHost is lost and the enrolment is tried again, a
\* machine leaves at most one host behind: nothing in the code compares machine ids there, only
\* the unique display name stops the second attempt.  The exceptions are in the condition: a
\* host that an administrator renamed no longer stands in the way, and neither does one that
\* was registered under another host name.
OneHostPerMachine ==
    \A g, h \in HostIds \ renamed :
        /\ hosts[g].mode = "agent" /\ hosts[h].mode = "agent"
        /\ hosts[g].machine = hosts[h].machine
        /\ OneName(hosts[g].machine)
        => g = h

\* Somebody can present the access token of h, or will be able to.
Held(h) ==
    \/ \E m \in Machines : file[m] = h \/ (sync[m].pc # "idle" /\ sync[m].host = h)
    \/ \E e \in Enrolments : enrol[e].host = h

\* A host whose token nobody holds any more (the answer of the registration was lost, the file
\* was cut short or replaced) stays silent: no later enrolment, by the same machine or by one
\* of its name, is given its token, and no snapshot is stored for it.  It ends when an
\* administrator deletes it.
StrandedStaysSilent ==
    [][\A h \in access : ~Held(h) => ~Held(h)' /\ snaps'[h] \subseteq snaps[h]]_vars

\* Names are unique; a token in use belongs to a host that exists ...
TokensNamed ==
    /\ \A g, h \in HostIds : Exists(g) /\ Exists(h) /\ hosts[g].name = hosts[h].name
                             /\ hosts[g].name # None => g = h
    /\ \A h \in access : Exists(h) /\ hosts[h].mode = "agent"

\* ... and a host that was not renamed has the name its machine registered.
NamesRegistered ==
    \A h \in HostIds \ renamed : hosts[h].mode = "agent" =>
        \E m \in Machines : hosts[h].machine = MachineId[m] /\ hosts[h].name = Hostname[m]

\* A token in a file was issued for a host that is there or was deleted ...
FilesIssued ==
    \A m \in Machines : file[m] \in HostIds =>
        hosts[file[m]].status = "deleted" \/ file[m] \in access

\* ... and so was one in an answer, to the machine that asked; two answers never have the same.
AnswersIssued ==
    \A e \in Enrolments : enrol[e].host # None =>
        /\ \/ hosts[enrol[e].host].status = "deleted"
           \/ /\ enrol[e].host \in access
              /\ hosts[enrol[e].host].machine = MachineId[enrol[e].machine]
        /\ \A d \in Enrolments \ {e} : enrol[d].host # enrol[e].host

\* What a registration knows at its step.
EnrolChecked ==
    \A e \in Enrolments :
        /\ enrol[e].pc # "idle" => /\ enrol[e].machine \in Machines
                                   /\ enrol[e].token \in RegTokens
                                   /\ MachineId[enrol[e].machine] # None
        /\ enrol[e].host # None <=> enrol[e].pc \in {"answered", "received", "writing"}

\* What a sync knows at its step: the checks of IngestAgentSnapshot still hold at the commit.
SyncChecked ==
    \A m \in Machines :
        /\ sync[m].pc # "idle" =>
               /\ sync[m].host \in HostIds
               /\ MachineId[m] # None
               /\ hosts[sync[m].host].status = "deleted" \/ sync[m].host \in access
        /\ sync[m].pc = "verified" /\ Exists(sync[m].host) =>
               /\ hosts[sync[m].host].status = "approved"
               /\ hosts[sync[m].host].machine = MachineId[m]

\* An agent's row names its machine and was approved by someone; only agents send snapshots.
RowsChecked ==
    \A h \in HostIds :
        /\ hosts[h].mode = "agent" => Exists(h) /\ hosts[h].machine # None
        /\ hosts[h].mode = "agent" /\ hosts[h].status = "approved" => h \in vouched
        /\ hosts[h].mode # "agent" => snaps[h] = {}
        /\ Exists(h) => hosts[h].mode \in {"agent", "manual"}

\* The inductive invariant.
EnrolInv ==
    /\ TypeOK
    /\ OneMachinePerHost
    /\ SnapshotsVouched
    /\ TokensNamed
    /\ NamesRegistered
    /\ FilesIssued
    /\ AnswersIssued
    /\ EnrolChecked
    /\ SyncChecked
    /\ RowsChecked

\* The machine that registered h holds its token, and h is approved.
Reporting(m, h) ==
    /\ file[m] = h
    /\ hosts[h].status = "approved"
    /\ hosts[h].machine = MachineId[m]

\* An enrolled and approved machine is heard of: its timer's syncs reach the server, unless
\* the host is deleted or the file is replaced.
EnrolledReports ==
    \A m \in Machines, h \in HostIds :
        Reporting(m, h) ~> (MachineId[m] \in snaps[h] \/ ~Reporting(m, h))

=============================================================================
