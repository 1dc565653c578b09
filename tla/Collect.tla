------------------------------- MODULE Collect -------------------------------
(* The two ways in which a machine's packages reach the server: the agent's      *)
(* collectors (agent/internal/collector) and the script that the server runs     *)
(* over SSH, or that an operator runs for a manual report, whose output          *)
(* ParseSSHPullReport reads (internal/services/ssh_pull.go).  Each has its own   *)
(* copy of the parsers.                                                          *)
(*                                                                               *)
(* A text is a model of what the code looks at: a name or a version is the       *)
(* sequence of the words between its dots, or its dashes; what a stream searches *)
(* for its repository family (matcher_streams.go) is the set of the texts in it. *)
EXTENDS Integers, Sequences, FiniteSets, SequencesExt

CONSTANTS
    Numerals,       \* the texts that are numbers, and which ones
    Leading         \* the texts that begin with a number, and with which one

ASSUME CollectAssumption ==
    \A text \in DOMAIN Numerals : text \in DOMAIN Leading /\ Leading[text] = Numerals[text]

NoText == ""
Failed == "failed"      \* a report that is not made

Number(text) == Numerals[text]
IsNumeral(text) == text \in DOMAIN Numerals

OptionalStr(text) == IF text = "(none)" THEN NoText ELSE text

\* Of an epoch: none is zero.
EpochReads(text) == OptionalStr(text) = NoText \/ IsNumeral(text)
ParseEpoch(text) == IF OptionalStr(text) = NoText THEN 0 ELSE Number(text)

\* A repository that is enabled, in the fields that streams search.
Repo(id, label, baseurl) == [id |-> id, label |-> label, baseurl |-> baseurl]

Package(name, epoch, version, release, arch, source) ==
    [name |-> name, epoch |-> epoch, version |-> version, release |-> release, arch |-> arch,
     source |-> source]

\* [epoch:]upstream[-release]: the release is what follows the last dash.
DebianReads(v) == v.words # <<>> /\ v.words # <<NoText>> /\ EpochReads(v.epoch)
ParseDebianVersion(v) ==
    [epoch |-> ParseEpoch(v.epoch),
     version |-> IF Len(v.words) > 1 THEN Front(v.words) ELSE v.words,
     release |-> IF Len(v.words) > 1 THEN Last(v.words) ELSE NoText]

-----------------------------------------------------------------------------
(* The agent.                                                                    *)

\* A line that cannot be read is left out.
ParsePackageLine(l) ==
    IF l.fields # 7 \/ ~EpochReads(l.version.epoch) THEN {}
    ELSE {Package(l.name, ParseEpoch(l.version.epoch), Front(l.version.words), Last(l.version.words),
                  l.arch, OptionalStr(l.source))}

ParseAptPackageLine(l) ==
    IF l.fields # 5 \/ l.name = <<>> \/ ~DebianReads(l.version) THEN {}
    ELSE LET v == ParseDebianVersion(l.version)
         IN  {Package(l.name, v.epoch, v.version, v.release, l.arch, OptionalStr(l.source))}

\* A failing query ends the report; the sorting of the packages is left out.
CollectInstalledPackages(m, family) ==
    IF "packages" \in m.failing THEN Failed
    ELSE UNION {IF family = "rpm" THEN ParsePackageLine(m.packages[i])
                ELSE ParseAptPackageLine(m.packages[i]) : i \in DOMAIN m.packages}

Header(l) == l.kind = "header"      \* Listing..., Last metadata..., Obsoleting Packages

\* The architecture follows the last dot.
AgentRpmUpgradable(l) ==
    IF \/ Header(l) \/ l.fields < 3 \/ Len(l.nameArch) < 2 \/ ~EpochReads(l.version.epoch) THEN {}
    ELSE {[name |-> Front(l.nameArch), arch |-> Last(l.nameArch), epoch |-> ParseEpoch(l.version.epoch)]}

AgentAptUpgradable(l) ==
    IF Header(l) \/ ~l.from \/ l.fields < 3 \/ ~l.slash \/ l.name = <<>> \/ ~DebianReads(l.version) THEN {}
    ELSE {[name |-> l.name, arch |-> l.arch, epoch |-> ParseDebianVersion(l.version).epoch]}

\* The exit status of dnf is not looked at, and a failing apt is no update.
CollectUpgradablePackages(m, family) ==
    LET lines == IF "updates" \in m.failing THEN <<>> ELSE m.updates
        read(l) == IF family = "rpm" THEN AgentRpmUpgradable(l) ELSE AgentAptUpgradable(l)
    IN  [count |-> Cardinality({i \in DOMAIN lines : read(lines[i]) # {}}),
         items |-> UNION {read(lines[i]) : i \in DOMAIN lines}]

\* A section that does not say enabled is left out, and one with an id that the file has already.
\* The base URL is kept when no variable is in it.
ParseRepoFile(sections) ==
    LET enabled(i) == sections[i].enabled \in {"1", "true", "yes"} /\ sections[i].id # {}
        first == {i \in DOMAIN sections :
                     enabled(i) /\ ~\E j \in 1..(i - 1) : enabled(j) /\ sections[j].id = sections[i].id}
    IN  {Repo(sections[i].id, sections[i].name, IF sections[i].literal THEN sections[i].baseurl ELSE {}) :
             i \in first}

\* The agent reads sources.list, and of sources.list.d what ends in .list or .sources.  The id is the
\* path and the line.  An option list has to be closed, and an address and a suite have to follow.
ParseAptListFile(lines) ==
    {Repo(lines[i].path, lines[i].suite \cup lines[i].components, lines[i].uri) :
        i \in {j \in DOMAIN lines : /\ lines[j].file \in {"sources.list", "list"}
                                    /\ lines[j].type \in {"deb", "indented deb"}
                                    /\ lines[j].options # "open"
                                    /\ lines[j].fields >= 2}}

IsAptSourcesBlockEnabled(b) == b.enabled \in {"unset", "1", "yes", "true"}

ParseAptSourcesFile(blocks) ==
    UNION {IF IsAptSourcesBlockEnabled(blocks[i]) /\ "deb" \in blocks[i].types
           THEN {Repo(blocks[i].path, suite \cup blocks[i].components, uri) :
                    uri \in blocks[i].uris, suite \in blocks[i].suites}
           ELSE {} : i \in DOMAIN blocks}

CollectEnabledRepos(m, family) ==
    IF family = "rpm" THEN ParseRepoFile(m.repos.sections)
    ELSE ParseAptListFile(m.repos.lines) \cup ParseAptSourcesFile(m.repos.blocks)

NormalizeOsFamily(id) ==
    CASE id \in {"rhel", "rocky", "almalinux", "centos", "ol"}            -> "rpm"
      [] id \in {"debian", "ubuntu", "linuxmint", "pop", "raspbian"}      -> "apt"
      [] OTHER                                                            -> Failed

\* ID, NAME and VERSION_ID have to be there.
ReadOsRelease(m) == m.id # NoText /\ m.version # <<>>

\* Sscanf takes the number that the first word begins with.
ParseMajorVersion(version) == IF version[1] \in DOMAIN Leading THEN Leading[version[1]] ELSE -1

\* A file that is missing or empty is passed over; one that cannot be read ends the report.
ReadMachineID(m) == IF m.etcID # NoText THEN m.etcID ELSE m.dbusID

DetectArchitecture(uname) ==
    IF uname \in {"x86_64", "aarch64", "riscv64"} THEN uname ELSE Failed

\* On RPM hosts rpm is asked which package provides the running release, uname's when it fails.
RunningKernelNEVRA(m, family) ==
    IF family = "rpm" /\ "kernel" \notin m.failing
    THEN [m.kernel EXCEPT !.epoch = IF @ = "0" THEN NoText ELSE @]
    ELSE [m.kernel EXCEPT !.epoch = NoText]

\* ParseMajorVersion and DetectArchitecture fail for what they do not know.
CollectSnapshot(m) ==
    LET family == NormalizeOsFamily(m.id)
        packages == CollectInstalledPackages(m, family)
        upgradable == CollectUpgradablePackages(m, family)
    IN  IF \/ ~ReadOsRelease(m) \/ family = Failed
           \/ ParseMajorVersion(m.version) < 0
           \/ "machine-id" \in m.failing \/ ReadMachineID(m) = NoText
           \/ DetectArchitecture(m.uname) = Failed \/ "packages" \in m.failing
        THEN [made |-> FALSE]
        ELSE [made |-> TRUE, family |-> family, major |-> ParseMajorVersion(m.version), arch |-> m.uname,
              machineID |-> ReadMachineID(m), running |-> RunningKernelNEVRA(m, family),
              packages |-> packages, repos |-> CollectEnabledRepos(m, family),
              updates |-> upgradable.count, upgradable |-> upgradable.items]

-----------------------------------------------------------------------------
(* The script on the machine (external tools: dnf lists a section as enabled     *)
(* unless it says no), and what the server reads from its output.                *)

EnabledSections(sections) == {i \in DOMAIN sections : sections[i].enabled \notin {"0", "no", "false"}}
DnfRepolist(sections) ==
    {[kind |-> "header", id |-> {"repo id"}, name |-> {}]}
      \cup {[kind |-> "repo", id |-> sections[i].id, name |-> sections[i].shown] :
                i \in EnabledSections(sections)}

\* GNU grep's -d skip overrides the -r before it, so that only sources.list is read.
GrepPrints(l) == l.file = "sources.list" /\ l.type = "deb"

\* And a line for each suite of a block, whatever else the block says.
SuiteLine(suite) ==
    [type |-> "deb", options |-> "none", uri |-> {"deb822.local"}, suite |-> suite, components |-> {},
     fields |-> 2]
AptRepoLines(repos) ==
    {repos.lines[i] : i \in {j \in DOMAIN repos.lines : GrepPrints(repos.lines[j])}}
      \cup UNION {{SuiteLine(suite) : suite \in repos.blocks[i].suites} : i \in DOMAIN repos.blocks}

\* Every failing tool leaves an empty section behind.
Script(m, family) ==
    [id |-> IF m.id = NoText THEN "unknown" ELSE m.id, idLike |-> m.idLike, version |-> m.version,
     arch |-> m.uname, kernel |-> [m.kernel EXCEPT !.epoch = NoText],
     machineID |-> IF "machine-id" \in m.failing THEN NoText ELSE m.etcID,
     updates |-> IF "updates" \in m.failing THEN <<>> ELSE m.updates,
     packages |-> IF "packages" \in m.failing THEN <<>> ELSE m.packages,
     repos |-> IF "repos" \in m.failing THEN {}
               ELSE IF family = "rpm" THEN DnfRepolist(m.repos.sections) ELSE AptRepoLines(m.repos)]

NormalizeOSFamilyString(id) ==
    CASE id \in {"apt", "debian", "ubuntu", "linuxmint"}                        -> "apt"
      [] id \in {"rpm", "rocky", "rhel", "almalinux", "centos", "fedora"}       -> "rpm"
      [] OTHER                                                                  -> NoText

\* The family of the ID, or of the first of ID_LIKE that is known.
DetectOSFamilyFromReleaseOutput(id, idLike) ==
    LET family(i) == NormalizeOSFamilyString(IF i = 0 THEN id ELSE idLike[i])
        known == {i \in {0} \cup DOMAIN idLike : family(i) # NoText}
    IN  IF known = {} THEN NoText ELSE family(Min(known))

ParseRPMPackageLine(l) ==
    IF l.fields # 7 \/ ~EpochReads(l.version.epoch) THEN {}
    ELSE {Package(l.name, ParseEpoch(l.version.epoch), Front(l.version.words), Last(l.version.words),
                  l.arch, OptionalStr(l.source))}

\* Fault: the epoch is not cut off.
ParseAPTPackageLineMutant(l) ==
    IF l.fields # 5 \/ l.name = <<>> THEN {}
    ELSE {Package(l.name, 0, l.version.words, NoText, l.arch, OptionalStr(l.source))}

ParseAPTPackageLine(l) ==
    IF l.fields # 5 \/ l.name = <<>> \/ ~DebianReads(l.version) THEN {}
    ELSE LET v == ParseDebianVersion(l.version)
         IN  {Package(l.name, v.epoch, v.version, v.release, l.arch, OptionalStr(l.source))}

CountAptPackageUpdates(lines) ==
    Cardinality({i \in DOMAIN lines : ~Header(lines[i]) /\ lines[i].slash /\ lines[i].from})

CountRpmPackageUpdates(lines) ==
    Cardinality({i \in DOMAIN lines : /\ ~Header(lines[i]) /\ lines[i].fields >= 3
                                      /\ Len(lines[i].nameArch) >= 2 /\ lines[i].digit})

\* The whole version of an APT update is its version.
ParseAptUpgradableLine(l) ==
    IF Header(l) \/ ~l.from \/ l.fields < 3 \/ ~l.slash \/ l.name = <<>> THEN {}
    ELSE {[name |-> l.name, arch |-> l.arch, epoch |-> 0]}

\* The architecture follows the first dot.
ParseRpmUpgradableLine(l) ==
    IF Header(l) \/ l.fields < 3 \/ Len(l.nameArch) < 2 THEN {}
    ELSE {[name |-> <<l.nameArch[1]>>,
           arch |-> IF Len(l.nameArch) = 2 THEN l.nameArch[2] ELSE "dotted",
           epoch |-> IF IsNumeral(l.version.epoch) THEN Number(l.version.epoch) ELSE 0]}

ParseUpgradablePackages(family, lines) ==
    UNION {CASE family = "apt" -> ParseAptUpgradableLine(lines[i])
             [] family = "rpm" -> ParseRpmUpgradableLine(lines[i])
             [] OTHER          -> {} : i \in DOMAIN lines}

\* The base URL is not fetched.
ParseRPMRepoLine(l) == IF Header(l) THEN {} ELSE {Repo(l.id, l.name, {})}

\* An option list that is not closed is taken for the address, and the address for the suite.
ParseAPTRepoLine(l) ==
    CASE l.type # "deb"                          -> {}
      [] l.options = "open" /\ l.fields >= 1     ->
             {Repo({"ssh_pull"}, l.uri \cup l.suite \cup l.components, {})}
      [] l.options # "open" /\ l.fields >= 2     ->
             {Repo({"ssh_pull"}, l.suite \cup l.components, l.uri)}
      [] OTHER                                   -> {}

ParsePackages(family, lines) ==
    UNION {CASE family = "rpm" -> ParseRPMPackageLine(lines[i])
             [] family = "apt" -> ParseAPTPackageLine(lines[i])
             [] OTHER          -> {} : i \in DOMAIN lines}

ParseRepos(family, lines) ==
    UNION {CASE family = "rpm" -> ParseRPMRepoLine(l)
             [] family = "apt" -> ParseAPTRepoLine(l)
             [] OTHER          -> {} : l \in lines}

\* A section that is not there has no lines: a manual report may be cut short.
ParseSSHPullReport(out) ==
    LET family == DetectOSFamilyFromReleaseOutput(out.id, out.idLike)
        count == CASE family = "apt" -> CountAptPackageUpdates(out.updates)
                   [] family = "rpm" -> CountRpmPackageUpdates(out.updates)
                   [] OTHER          -> 0
    IN  [made |-> TRUE, family |-> family,
         major |-> IF out.version # <<>> /\ IsNumeral(out.version[1]) THEN Number(out.version[1]) ELSE 0,
         arch |-> IF out.arch = NoText THEN "unknown" ELSE out.arch,
         machineID |-> out.machineID, running |-> out.kernel,
         packages |-> ParsePackages(family, out.packages), repos |-> ParseRepos(family, out.repos),
         updates |-> count, upgradable |-> ParseUpgradablePackages(family, out.updates),
         overall |-> IF count > 0 THEN "update_package" ELSE "none"]

\* The server asks for the family first and picks the script by it.
CollectOverSSH(m) ==
    LET family == DetectOSFamilyFromReleaseOutput(m.id, m.idLike)
    IN  IF family = NoText THEN [made |-> FALSE] ELSE ParseSSHPullReport(Script(m, family))

\* A machine as it can be.  Its lines have a number of words, a section that says enabled says yes
\* or no, and the distributions that os-release says it is like are of its own family.
WellFormed(m) ==
    LET family == NormalizeOsFamily(m.id)
    IN  /\ m.idLike \in Seq(STRING)
        /\ \A i \in DOMAIN m.idLike : family = Failed \/ NormalizeOSFamilyString(m.idLike[i]) \in {NoText, family}
        /\ \A i \in DOMAIN m.updates : \/ Header(m.updates[i])
                                       \/ /\ m.updates[i].fields \in Nat
                                          /\ family = "rpm" => m.updates[i].nameArch \in Seq(STRING)
        /\ DOMAIN m.repos.sections = 1..Len(m.repos.sections) /\ Len(m.repos.sections) \in Nat
        /\ \A i \in DOMAIN m.repos.sections :
             m.repos.sections[i].enabled \in {"unset", "1", "true", "yes", "0", "false", "no"}
        /\ \A i \in DOMAIN m.repos.lines : m.repos.lines[i].fields \in Nat
=============================================================================
