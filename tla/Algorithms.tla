------------------------------ MODULE Algorithms ------------------------------
(* The pure algorithms of modules Versions, Backoff, Collect and ScopeMapping,   *)
(* each run once on an input and compared with what it should compute.  The      *)
(* names of the specification are its own, so that proofs can extend it together *)
(* with another one.                                                             *)
EXTENDS Versions, Backoff, ScopeMapping

CONSTANTS
    Texts,          \* the texts whose pairs are compared
    NamedBuilds,    \* [name, evr, arch]: builds whose names are written and read
    Attempts,       \* the attempts of a job
    Machines,       \* the machines that report
    Configured,     \* lists of scope mappings, the empty one for the default
    Systems,        \* the operating systems that are mapped
    ProductStreams, \* the streams in the server's database: id, vendor and major version
    Databases       \* the sets of streams that an imported database may have

ASSUME AlgorithmsAssumption ==
    /\ Attempts \subseteq Nat \ {0}
    /\ \A m \in Machines : WellFormed(m)

VARIABLES
    input,          \* what to run, with its arguments
    output          \* what it gave

ioVars == <<input, output>>

Pending == [done |-> FALSE]
Done(result) == [done |-> TRUE, result |-> result]

Inputs ==
    [alg : {"compare"}, left : Texts, right : Texts]
      \cup [alg : {"read"}, build : NamedBuilds]
      \cup [alg : {"retry"}, attempt : Attempts]
      \cup [alg : {"report"}, machine : Machines]
      \cup [alg : {"scope"}, configured : Configured, os : Systems, other : Systems, database : Databases]

Start == input \in Inputs /\ output = Pending

Answer(alg, result) ==
    /\ input.alg = alg
    /\ output = Pending
    /\ output' = Done(result)
    /\ UNCHANGED input

Compare ==
    Answer("compare", [rpm |-> CompareRPMVersion(input.left, input.right),
                       debian |-> CompareDebianVersionStrings(input.left, input.right),
                       kernel |-> CompareVersionSegments(input.left, input.right)])

\* A build is written by a collector or the advisory database and read for the collapse of
\* decisions; the running kernel is written in three ways; a rule has the version alone.
Read ==
    LET b == input.build
        nevra == FormatPackageIdentifier(b.name, b.evr, b.arch)
        evr == From(nevra, Len(b.name) + 2)
        plain == From(evr, 3)       \* without the epoch, when it is zero
        rule == Upto(evr, Len(evr) - Len(b.arch) - 1)
    IN  Answer("read", [rpm |-> ParseDecisionFixedEVR(nevra, "rpm"),
                        apt |-> ParseDecisionFixedEVR(nevra, "apt"),
                        running |-> ParseRunningKernelEVR(IF b.evr.epoch = 0 THEN plain ELSE evr),
                        named |-> ParseRunningKernelEVR(nevra),
                        rpmRule |-> [op \in {"<=", ">", "="} |-> EvaluateEVRRule(b.evr, op, rule)],
                        aptRule |-> [op \in {"<", ">=", "="} |-> EvaluateDebianEVRRule(b.evr, op, rule)]])

Retry == Answer("retry", NextRetry(input.attempt))

Report == Answer("report", [agent |-> CollectSnapshot(input.machine), ssh |-> CollectOverSSH(input.machine)])

\* A host is mapped, its scope's database imported, and another host matched before and after.
Matcher == INSTANCE Decisions WITH Parts <- Numerals
Shown(os, streams) ==
    {s \in streams : Matcher!MatchesHostDistro([family |-> os.family, major |-> os.major, osName |-> os.name], s)}
Scope ==
    LET key == ResolveScopeKey(input.configured, input.os)
    IN  Answer("scope", [key |-> key, before |-> Shown(input.other, ProductStreams),
                         after |-> Shown(input.other,
                                         IF key = NoScope THEN ProductStreams
                                         ELSE ImportStreams(key, input.configured, ProductStreams, input.database))])

Step == Compare \/ Read \/ Retry \/ Report \/ Scope \/ (output.done /\ UNCHANGED ioVars)

AlgSpec == Start /\ [][Step]_ioVars

Ran(alg) == input.alg = alg /\ output.done

-----------------------------------------------------------------------------
(* Properties.                                                                   *)

\* Digits and dots, without empty words and leading zeros: the texts of kernel releases.
PlainRelease(s) ==
    /\ \A i \in DOMAIN s : IsDigit(s[i]) \/ s[i] = Dot
    /\ \A k \in DOMAIN Tokens(s) : Tokens(s)[k][1] # 48 \/ Len(Tokens(s)[k]) = 1

\* The comparisons are the orders of their keys, so they are total and transitive: RPM's runs of
\* letters and numbers by value, dpkg's character weights with the tilde before the end.  The kernel
\* page's own comparison agrees with them on releases of plain numbers.
VersionOrder ==
    Ran("compare") =>
        /\ output.result.rpm = CompareKeys(RPMKey(input.left), RPMKey(input.right), -1)
        /\ output.result.debian = CompareKeys(DebianKey(input.left), DebianKey(input.right), 0)
        /\ PlainRelease(input.left) /\ PlainRelease(input.right)
             => output.result.kernel = output.result.rpm

\* What is written is read back: a build's version comes out of its name whatever dashes, digits and
\* dots the name, the version and the architecture have, a running kernel's out of each of its forms,
\* and a rule about a build's own version compares as equal.
ReadsBack ==
    Ran("read") =>
        LET b == input.build
            r == output.result
        IN  /\ b.evr.release # <<>> /\ b.arch # <<>> => r.rpm = b.evr /\ r.running = b.evr /\ r.named = b.evr
            /\ r.apt = b.evr
            /\ b.evr.release # <<>> /\ b.arch # <<>> =>
                 /\ r.rpmRule = [op \in {"<=", ">", "="} |-> IF op = ">" THEN "differs" ELSE "matches"]
                 /\ r.aptRule = [op \in {"<", ">=", "="} |-> IF op = "<" THEN "differs" ELSE "matches"]

\* A failed job waits from ten seconds to ten minutes, and never less than the time before, for every
\* attempt: the overflow of the shift is caught.
BackoffBounded ==
    Ran("retry") =>
        /\ output.result \in TenSeconds..TenMinutes
        /\ input.attempt > 1 => NextRetry(input.attempt - 1) <= output.result

\* A machine whose reports can be alike: its tools work, what its package manager prints are headings
\* and packages without dots in their names, and its repositories have one id and one name each and
\* say whether they are enabled.
PlainLine(l, family) ==
    \/ Header(l)
    \/ family = "rpm" /\ l.fields >= 3 /\ Len(l.nameArch) = 2 /\ l.digit /\ EpochReads(l.version.epoch)
    \/ family = "apt" /\ l.fields >= 3 /\ l.slash /\ l.from /\ l.name # <<>> /\ DebianReads(l.version)

PlainRepos(repos) ==
    LET sections == repos.sections
    IN  /\ \A i \in DOMAIN sections :
             /\ sections[i].enabled # "unset" /\ sections[i].id # {}
             /\ sections[i].shown = sections[i].name
             /\ \A j \in DOMAIN sections : sections[j].id = sections[i].id => i = j
        /\ \A i \in DOMAIN repos.lines : repos.lines[i].options # "open"
        /\ \A i \in DOMAIN repos.blocks : LET b == repos.blocks[i]
                                          IN  IsAptSourcesBlockEnabled(b) /\ "deb" \in b.types /\ b.uris # {}

Plain(m, family) ==
    /\ m.failing = {}
    /\ m.kernel.epoch = "0"
    /\ \A i \in DOMAIN m.updates : PlainLine(m.updates[i], family)
    /\ PlainRepos(m.repos)

\* The texts in which a stream finds its repository family.
RepoTexts(repos) == UNION {r.id \cup r.label \cup r.baseurl : r \in repos}

\* What the script does not tell of the repositories: base URLs and, on APT machines, the paths, the
\* lines that grep passes over and the addresses and components of blocks.
Untold(repos, family) ==
    IF family = "rpm" THEN UNION {repos.sections[i].baseurl : i \in DOMAIN repos.sections}
    ELSE (UNION {LET l == repos.lines[i]
                 IN  l.path \cup IF GrepPrints(l) THEN {} ELSE l.uri \cup l.suite \cup l.components :
                     i \in DOMAIN repos.lines})
           \cup (UNION {LET b == repos.blocks[i] IN b.path \cup b.components \cup (UNION b.uris) :
                           i \in DOMAIN repos.blocks})

\* What the server makes up: the ids and the address of what the script tells of APT repositories.
MadeUp == {"ssh_pull", "deb822.local"}

\* The agent and the SSH script tell the same of a machine, up to what is named here.  When both report
\* and the package query works, family, architecture and installed packages are the same; the machine
\* id is unless only D-Bus has it, and the major version unless letters follow its number.  On a plain
\* machine the running kernel and the updates are the same too, and a stream finds its repository
\* family in both reports or in none, unless it is a text that the script leaves out or makes up.
ReportsAlike ==
    LET m == input.machine
        a == output.result.agent
        s == output.result.ssh
        names(items) == {<<u.name, u.arch>> : u \in items}
    IN  Ran("report") /\ a.made /\ s.made /\ "packages" \notin m.failing =>
            /\ a.family = s.family /\ a.arch = s.arch
            /\ s.machineID = a.machineID \/ (m.etcID = NoText /\ s.machineID = NoText)
            /\ s.major = a.major \/ (~IsNumeral(m.version[1]) /\ s.major = 0)
            /\ a.packages = s.packages
            /\ Plain(m, a.family) =>
                 /\ a.running = s.running
                 /\ RepoTexts(s.repos) \subseteq RepoTexts(a.repos) \cup MadeUp
                 /\ RepoTexts(a.repos) \subseteq RepoTexts(s.repos) \cup Untold(m.repos, a.family)
                 /\ a.updates = s.updates
                 /\ names(a.upgradable) = names(s.upgradable)

\* The release that a mapping is for is the host's: the vendor by the key, the major version by the
\* mapping's, by the first word of its version or by the key.
NamesRelease(mapping, os) ==
    /\ mapping.scope.pair
    /\ mapping.scope.vendor = os.vendor \/ (mapping.scope.vendor = "rhel" /\ os.vendor = "redhat")
    /\ LET told == IF mapping.version # <<>> THEN mapping.version[1] ELSE mapping.scope.rest
       IN  mapping.major = os.major \/ (mapping.major = 0 /\ IsNumeral(told) /\ Number(told) = os.major)

SameRelease(a, b) == a.vendor = b.vendor /\ a.major = b.major

\* Whose mappings are in order: all of its scope name its release, and the database has streams of
\* that release under ids of their own.
InOrder(configured, os, database) ==
    LET key == ResolveScopeKey(configured, os)
        ms == Mappings(configured)
    IN  /\ key # NoScope
        /\ \A i \in DOMAIN ms : ms[i].scope = key => NamesRelease(ms[i], os)
        /\ \A d \in database : /\ SameRelease(d, os)
                               /\ \A s \in ProductStreams : s.id = d.id => SameRelease(s, os)

\* An import replaces what is shown to the hosts of its release and touches no other's, when the
\* mappings of its scope are in order.  Every host of the same vendor and major version, mapped to this
\* scope, to another one or to none, is shown the streams of the database and no withdrawn one: so two
\* scopes of one release take each other's place.  Every other host is shown what it was.  A host
\* without a scope imports nothing.  ResolveScopeKey, the clean-up of ImportAdvisoryDB and
\* matchesHostDistro each name the distribution in their own way.
ScopesApart ==
    LET r == output.result
    IN  Ran("scope") =>
            /\ r.key = NoScope => r.after = r.before
            /\ InOrder(input.configured, input.os, input.database) =>
                 r.after = IF SameRelease(input.os, input.other) THEN input.database ELSE r.before

\* A tilde sorts before the end of the text in RPM's order, so a release candidate such as 1~a is older
\* than its release 1.  Letters and digits stand on both sides of the tilde.
TildeSortsFirst ==
    Ran("compare") =>
        \A i \in 2..(Len(input.left) - 1) :
            /\ input.left[i] = Tilde /\ Upto(input.left, i - 1) = input.right
            /\ \A j \in DOMAIN input.left \ {i} : IsAlnum(input.left[j])
            => output.result.rpm < 0
=============================================================================
