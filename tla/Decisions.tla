------------------------------ MODULE Decisions ------------------------------
(* What the matcher decides: which product streams a host has, which of the    *)
(* installed packages an advisory is about, what has to be done for each, and  *)
(* which decision is kept when several advisories speak of one package         *)
(* (internal/services/matchers/matcher.go and matcher_streams.go).             *)
(*                                                                             *)
(* Versions are natural numbers here: module Versions shows that the           *)
(* comparisons of the code are orders.  An APT kernel build of ABI a is a      *)
(* number above AbiEVR(a) and below AbiEVR(a + 1).  The pieces of a package    *)
(* name that the code takes apart (the prefix that the code looks for, or else *)
(* the whole name, and the ABI and the flavour of linux-image-<abi>-<flavour>) *)
(* are given by Parts.                                                         *)
EXTENDS Integers, Sequences, FiniteSets, FiniteSetsExt, SequencesExt

CONSTANT Parts      \* Parts[name] = [base, abi, flavor]; abi 0 when there is none

\* A NEVRA, a version or a text that is not there.
NoEVR == 0
NoText == ""

\* The order of the flavours' letters, for ABIs that differ in nothing else.
Flavors == {NoText, "amd64", "aws", "common", "generic"}
FlavorRank(f) ==
    CASE f = NoText -> 0 [] f = "amd64" -> 1 [] f = "aws" -> 2 [] f = "common" -> 3 [] f = "generic" -> 4

AbiEVR(abi) == 10 * abi

-----------------------------------------------------------------------------
(* Product streams.                                                            *)

\* An OS name is the set of the distribution names it contains.
MatchesHostDistro(host, stream) ==
    /\ host.major = stream.major
    /\ CASE stream.vendor = "redhat" ->
              /\ {"rocky", "alma"} \cap host.osName = {}
              /\ \/ {"red hat", "rhel"} \cap host.osName # {}
                 \/ host.osName = {} /\ host.family = "rhel"
         [] stream.vendor \in {"rocky", "alma", "ubuntu", "debian"} ->
              stream.vendor \in host.osName \cup {host.family}
         [] OTHER -> FALSE

MatchesStreamArchitecture(family, arch, streamArch) ==
    \/ streamArch = NoText
    \/ family = "apt" /\ streamArch \in {"source", "binary"}
    \/ streamArch = arch

EnabledRepoMatchFields(repos) == UNION {r.words : r \in {q \in repos : q.enabled}}

MatchesRepoFamily(fields, repoFamily) == repoFamily \in fields

ResolveProductStreams(host, repos, streams) ==
    {s \in streams :
        /\ MatchesHostDistro(host, s)
        /\ MatchesStreamArchitecture(host.family, host.arch, s.arch)
        /\ \/ s.repo \in {NoText, "all"}
           \/ MatchesRepoFamily(EnabledRepoMatchFields(repos), s.repo)}

-----------------------------------------------------------------------------
(* Which rules and fixes are about a package.                                  *)

\* The source package an APT kernel binary is built from.
DerivedAPTSourceKeys(name) ==
    LET p == Parts[name]
    IN  IF p.base = "linux-libc-dev" THEN {"linux"}
        ELSE IF p.base \notin {"linux-image-unsigned-", "linux-image-", "linux-headers-", "linux-modules-",
                               "linux-modules-extra-", "linux-tools-"} THEN {}
        ELSE CASE p.flavor \in {"generic", "amd64"} -> {"linux"}
               [] p.flavor = "aws"                  -> {"linux-aws"}
               [] OTHER                             -> {}

KeysForPackageMatch(name, source) == {name, source} \ {NoText}

PackageMatchKeys(pkg) ==
    KeysForPackageMatch(pkg.name, pkg.source) \cup DerivedAPTSourceKeys(pkg.name)

\* The rules or fixes of an advisory that are about a package: of a resolved stream and filed
\* under one of the package's names.
ForPackage(entries, pkg, streams) ==
    {x \in entries : /\ x.stream \in streams
                     /\ KeysForPackageMatch(x.name, x.source) \cap PackageMatchKeys(pkg) # {}}

MatchesPackageArch(pkgArch, ruleArch, family) ==
    \/ ruleArch = NoText
    \/ family = "apt" /\ ruleArch \in {"binary", "source", "all", "any"}
    \/ ruleArch = pkgArch

OfArch(entries, pkg, family) == {x \in entries : MatchesPackageArch(pkg.arch, x.arch, family)}

CandidatePackages(adv, packages, streams) ==
    {p \in packages : ForPackage(adv.rules \cup adv.fixes, p, streams) # {}}

AppliesToResolvedStream(adv, streams) == adv.streams \cap streams # {}

\* A rule whose operator or version cannot be read is an error of the whole match.
Malformed(rule) == rule.op = "malformed"

MatchesRule(pkg, rule) ==
    CASE rule.op = NoText -> TRUE
      [] rule.op = "<"    -> pkg.evr < rule.evr
      [] rule.op = "<="   -> pkg.evr <= rule.evr
      [] rule.op = "="    -> pkg.evr = rule.evr
      [] rule.op = ">="   -> pkg.evr >= rule.evr
      [] rule.op = ">"    -> pkg.evr > rule.evr
      [] OTHER            -> FALSE

\* On APT hosts one rule per stream is kept: the binary's before the source's, and of two
\* rules for the same architecture the one with the higher version.  Of others the first is
\* kept, but what follows only looks at the streams.
Supersedes(new, old) ==
    \/ old.arch = "source" /\ new.arch = "binary"
    \/ old.arch = new.arch /\ old.evr # NoEVR /\ new.evr > old.evr

OnePerStream(rules) ==
    {CHOOSE r \in {q \in rules : q.stream = s} :
        \A q \in rules : q.stream = s => ~Supersedes(q, r) : s \in {q.stream : q \in rules}}

MatchedRules(rules, pkg, family) ==
    LET matched == {r \in rules : MatchesRule(pkg, r)}
    IN  IF family = "apt" THEN OnePerStream(matched) ELSE matched

\* The build to ask for.  Of several fixes with it the code keeps the first it meets; their streams,
\* NEVRAs and evidence tiers, which a record copies, are not in the records here.
SelectBestFix(fixes) == Max({f.evr : f \in fixes})

-----------------------------------------------------------------------------
(* Kernels.  A snapshot has the installed packages and the running kernel:     *)
(* [abi, flavor, evr], abi for APT and evr for RPM, 0 when it was not captured. *)

IsKernelPackageAPT(name) ==
    Parts[name].base \in {"linux-image-unsigned-", "linux-image-", "linux-modules-extra-", "linux-modules-",
                          "linux-headers-", "linux-tools-", "linux-cloud-tools-", "linux-buildinfo-"}

\* An RPM kernel package is called kernel or kernel-<anything>.
IsKernelPackage(name, family) ==
    IF family = "apt" THEN IsKernelPackageAPT(name) ELSE Parts[name].base \in {"kernel", "kernel-"}

IsVersionedKernelPackageAPT(name) == IsKernelPackageAPT(name) /\ Parts[name].abi > 0

\* The flavour of a versioned name is what follows its last dash: the ABI's number itself when
\* nothing follows the ABI.
SameFlavor(m, n) ==
    /\ Parts[m].flavor = Parts[n].flavor
    /\ Parts[m].flavor = NoText => Parts[m].abi = Parts[n].abi

\* The installed packages that a versioned kernel package is compared with: those of its
\* flavour on APT hosts, those of its name on RPM hosts.
InstalledKernelsAPT(packages, name) ==
    {p \in packages : IsVersionedKernelPackageAPT(p.name) /\ SameFlavor(p.name, name)}
InstalledKernelsRPM(packages, name) == {p \in packages : p.name = name}

LatestEVR(packages) == IF packages = {} THEN NoEVR ELSE Max({p.evr : p \in packages})

\* The package of the running APT kernel.
RunningKernelPackages(snap) ==
    {p \in snap.packages : Parts[p.name] = [base |-> "linux-image-", abi |-> snap.running.abi,
                                            flavor |-> snap.running.flavor]}

AbiLess(a, b) ==
    a.abi < b.abi \/ (a.abi = b.abi /\ FlavorRank(a.flavor) < FlavorRank(b.flavor))

\* Fault: the running build has to be newer than the fix.
KernelRunningSatisfiesFixedBuildMutant(snap, name, fixed) ==
    /\ IsKernelPackage(name, snap.family)
    /\ IF snap.family = "apt" THEN \E p \in RunningKernelPackages(snap) : p.evr > fixed
       ELSE snap.running.evr > fixed

KernelRunningSatisfiesFixedBuild(snap, name, fixed) ==
    /\ IsKernelPackage(name, snap.family)
    /\ IF snap.family = "apt"
       THEN LET own == Parts[name]
                run == snap.running
                build == RunningKernelPackages(snap)
            IN  IF own.abi > 0 /\ run.abi > 0
                THEN \/ AbiLess(own, run)
                     \/ /\ ~AbiLess(run, own)
                        /\ \E p \in build : p.evr >= fixed
                ELSE IF build # {} THEN \E p \in build : p.evr >= fixed
                ELSE run.abi > 0 /\ AbiEVR(run.abi) >= fixed
       ELSE snap.running.evr > 0 /\ snap.running.evr >= fixed

\* Old kernels that are neither running nor the latest are left out of the decisions.
IsRelevantKernelPackage(pkg, snap) ==
    \/ ~IsKernelPackage(pkg.name, snap.family)
    \/ /\ snap.family = "apt"
       /\ \/ /\ snap.running.abi > 0
             /\ Parts[pkg.name].abi = snap.running.abi
             /\ Parts[pkg.name].flavor = snap.running.flavor
          \/ ~IsVersionedKernelPackageAPT(pkg.name)
          \/ pkg.evr >= LatestEVR(InstalledKernelsAPT(snap.packages, pkg.name))
    \/ /\ snap.family # "apt"
       /\ \/ snap.running.evr > 0 /\ pkg.evr = snap.running.evr
          \/ pkg.evr >= LatestEVR(InstalledKernelsRPM(snap.packages, pkg.name))

\* A kernel at or above the fix is installed beside this one.
FixedKernelInstalled(snap, name, fixed) ==
    /\ IsKernelPackage(name, snap.family)
    /\ IF snap.family = "apt"
       THEN /\ IsVersionedKernelPackageAPT(name)
            /\ LatestEVR(InstalledKernelsAPT(snap.packages, name)) >= fixed
       ELSE LatestEVR(InstalledKernelsRPM(snap.packages, name)) >= fixed

-----------------------------------------------------------------------------
(* Severities.                                                                 *)

NormalizeSeverity(s) ==
    CASE s = "high" -> "important" [] s = "medium" -> "moderate" [] OTHER -> s

SeverityPriority(s) ==
    CASE NormalizeSeverity(s) = "critical"  -> 4
      [] NormalizeSeverity(s) = "important" -> 3
      [] NormalizeSeverity(s) = "moderate"  -> 2
      [] NormalizeSeverity(s) = "low"       -> 1
      [] OTHER                              -> 0

\* The severity of the advisory, or else the highest of its CVEs', normalised as every reader of a
\* record does.  Of two texts of one priority the code keeps the first it meets: "high" and
\* "important" are one here, and so are all the texts of no known severity.
EffectiveSeverity(adv) ==
    LET texts == IF adv.severity # NoText THEN {adv.severity} ELSE adv.refs
        known == {NormalizeSeverity(s) : s \in texts} \cap {"critical", "important", "moderate", "low"}
    IN  IF known = {} THEN NoText
        ELSE CHOOSE s \in known : \A t \in known : SeverityPriority(s) >= SeverityPriority(t)

-----------------------------------------------------------------------------
(* Decisions.                                                                  *)

NewDecisionRecord(adv, pkg, status, action, fixed) ==
    [adv |-> adv.id, pkg |-> pkg, status |-> status, action |-> action, fixed |-> fixed,
     severity |-> EffectiveSeverity(adv), security |-> adv.security]

\* Fault: a package at the fixed build is taken for an older one.
FixDecisionMutant(snap, adv, pkg, fixed) ==
    IF KernelRunningSatisfiesFixedBuild(snap, pkg.name, fixed) THEN {}
    ELSE IF pkg.evr <= fixed
    THEN {NewDecisionRecord(adv, pkg, "affected_fix_available", "update_package", fixed)}
    ELSE {NewDecisionRecord(adv, pkg, "resolved", "none", fixed)}

\* The decision about a package with a fixed build: none when the running kernel has it.
FixDecision(snap, adv, pkg, fixed) ==
    LET pending == NewDecisionRecord(adv, pkg, "fixed_package_installed_pending_activation",
                                     "reboot_host", fixed)
    IN  IF KernelRunningSatisfiesFixedBuild(snap, pkg.name, fixed) THEN {}
        ELSE IF pkg.evr < fixed
        THEN IF FixedKernelInstalled(snap, pkg.name, fixed) THEN {pending}
             ELSE {NewDecisionRecord(adv, pkg, "affected_fix_available", "update_package", fixed)}
        ELSE IF IsKernelPackage(pkg.name, snap.family) THEN {pending}
        ELSE {NewDecisionRecord(adv, pkg, "resolved", "none", fixed)}

PackageDecision(snap, adv, pkg, streams) ==
    LET fixesForPackage == ForPackage(adv.fixes, pkg, streams)
        relevantFixes == OfArch(fixesForPackage, pkg, snap.family)
        rules == OfArch(ForPackage(adv.rules, pkg, streams), pkg, snap.family)
        matched == MatchedRules(rules, pkg, snap.family)
    IN  IF ~IsRelevantKernelPackage(pkg, snap) THEN {}
        ELSE IF matched = {}
        THEN IF relevantFixes = {} THEN {}
             ELSE FixDecision(snap, adv, pkg, SelectBestFix(relevantFixes))
        ELSE IF Cardinality(matched) > 1
        THEN {NewDecisionRecord(adv, pkg, "unknown", "investigate", NoEVR)}
        ELSE LET stream == (CHOOSE r \in matched : TRUE).stream
                 fixedPackages == {f \in relevantFixes : f.stream = stream}
             IN  IF fixedPackages = {}
                 THEN {NewDecisionRecord(adv, pkg, "affected_no_fix", "investigate", NoEVR)}
                 ELSE FixDecision(snap, adv, pkg, SelectBestFix(fixedPackages))

\* A malformed rule about any relevant package fails the match.
MatchFails(snap, advisories, streams) ==
    \E adv \in advisories, pkg \in snap.packages :
        /\ AppliesToResolvedStream(adv, streams)
        /\ IsRelevantKernelPackage(pkg, snap)
        /\ \E r \in OfArch(ForPackage(adv.rules, pkg, streams), pkg, snap.family) : Malformed(r)

AdvisoryDecisions(snap, adv, streams) ==
    IF ~AppliesToResolvedStream(adv, streams) THEN {}
    ELSE UNION {PackageDecision(snap, adv, pkg, streams) :
                   pkg \in CandidatePackages(adv, snap.packages, streams)}

DecisionPriority(d) ==
    CASE d.action = "reboot_host"     -> 5
      [] d.action = "restart_service" -> 4
      [] d.action = "update_package"  -> 3
      [] d.action = "investigate"     -> 2
      [] d.action = "none"            -> 1
      [] OTHER                        -> 0

\* Fault: the severity is looked at before the action.
PreferDecisionMutant(candidate, current) ==
    LET s == SeverityPriority(candidate.severity)
        t == SeverityPriority(current.severity)
    IN  IF s # t THEN s > t ELSE DecisionPriority(candidate) > DecisionPriority(current)

\* Fault: the last decision wins.
PreferDecisionLast(candidate, current) == TRUE

PreferDecision(candidate, current) ==
    LET p == DecisionPriority(candidate)
        q == DecisionPriority(current)
        s == SeverityPriority(candidate.severity)
        t == SeverityPriority(current.severity)
    IN  IF p # q THEN p > q
        ELSE IF candidate.fixed # current.fixed THEN candidate.fixed > current.fixed
        ELSE IF s # t THEN s > t
        ELSE candidate.adv > current.adv

\* The decisions of one more advisory, at most one about a package, meet those kept so far: of
\* two about one package the newcomer stays if it is preferred.
KeepPreferred(kept, new) ==
    {k \in kept : \A d \in new : d.pkg = k.pkg => ~PreferDecision(d, k)}
    \cup {d \in new : \A k \in kept : k.pkg = d.pkg => PreferDecision(d, k)}

\* One pass over the decisions, in the order in which the advisories gave them.
CollapseSupersededDecisions(decisions) ==
    LET kept[i \in 0..Len(decisions)] ==
            IF i = 0 THEN {} ELSE KeepPreferred(kept[i - 1], decisions[i])
    IN  kept[Len(decisions)]

\* The decisions for every order in which the advisories may come: the queries have no ORDER
\* BY.  The order of the packages, the values of a map, cannot matter: a decision only meets
\* those about the same package.
BuildDecisions(snap, advisories, streams) ==
    LET of == [a \in advisories |-> AdvisoryDecisions(snap, a, streams)]
    IN  {CollapseSupersededDecisions([i \in DOMAIN order |-> of[order[i]]]) :
            order \in SetToSeqs({a \in advisories : of[a] # {}})}

ActionPriority(a) ==
    CASE a = "none"            -> 0
      [] a = "investigate"     -> 1
      [] a = "update_package"  -> 2
      [] a = "restart_service" -> 3
      [] a = "reboot_host"     -> 4

OverallAction(decisions) ==
    LET actions == {"none"} \cup {d.action : d \in decisions}
    IN  CHOOSE a \in actions : \A b \in actions : ActionPriority(a) >= ActionPriority(b)
=============================================================================
