-------------------------------- MODULE Views --------------------------------
(* The pages of one host that the API makes from its decision records: the     *)
(* vulnerable packages, the upgradable packages and the kernel posture         *)
(* (internal/api/v1/entities and internal/api/v1/hosts).  Tones, icons and     *)
(* texts are left out.                                                         *)
EXTENDS Decisions

\* The number that stands for the advisory of what only the package manager reports.
HostPackageManager == 0

ActionLabel(action) ==
    CASE action = "reboot_host"     -> "Reboot required"
      [] action = "restart_service" -> "Service restart"
      [] action = "update_package"  -> "Update available"
      [] action = "investigate"     -> "Investigate"
      [] action = "none"            -> "Clear"

ActionPriorityLabel(label) ==
    CASE label = "Reboot required"  -> 4
      [] label = "Service restart"  -> 3
      [] label = "Update available" -> 2
      [] label = "Investigate"      -> 1
      [] OTHER                      -> 0

SeverityLabel(severity) ==
    CASE NormalizeSeverity(severity) = "critical"  -> "Critical"
      [] NormalizeSeverity(severity) = "important" -> "Important"
      [] NormalizeSeverity(severity) = "moderate"  -> "Moderate"
      [] NormalizeSeverity(severity) = "low"       -> "Low"
      [] OTHER                                     -> "Unknown"

SeverityPriorityLabel(label) ==
    CASE label = "Critical" -> 4 [] label = "Important" -> 3
      [] label = "Moderate" -> 2 [] label = "Low"       -> 1 [] OTHER -> 0

IsKernelPackageName(name) ==
    /\ name \in DOMAIN Parts
    /\ \/ IsKernelPackageAPT(name)
       \/ Parts[name].base \in {"kernel", "kernel-", "linux-", "linux-libc-dev"}

\* The family of a package: the kernel, the source package, or what the name starts with.
PackageFamilyLabel(name, source) ==
    IF IsKernelPackageName(name) \/ IsKernelPackageName(source) THEN "kernel"
    ELSE IF source # NoText THEN source
    ELSE Parts[name].base

\* The records of a snapshot joined with their advisories.
ListDecisionPageRows(decisions, advisories) ==
    {row \in [d : decisions, adv : advisories] : row.d.adv = row.adv.id}

MapDecisionRow(row) ==
    [adv |-> row.adv.id, pkg |-> row.d.pkg, status |-> row.d.status, cves |-> row.adv.cves,
     family |-> PackageFamilyLabel(row.d.pkg.name, row.d.pkg.source),
     action |-> ActionLabel(row.d.action), severity |-> SeverityLabel(row.d.severity)]

\* What the package manager can upgrade and no row of the page is about.
MapObservedUpgradablePackages(upgradable, backed) ==
    {[adv |-> HostPackageManager, pkg |-> p, status |-> "observed_upgradable", cves |-> {},
      family |-> PackageFamilyLabel(p.name, NoText), action |-> "Update available",
      severity |-> "Unknown"] : p \in {q \in upgradable : q.name \notin backed}}

HighestAction(labels) ==
    CHOOSE l \in labels : \A k \in labels : ActionPriorityLabel(l) >= ActionPriorityLabel(k)
HighestSeverity(labels) ==
    CHOOSE l \in labels : \A k \in labels : SeverityPriorityLabel(l) >= SeverityPriorityLabel(k)

AdvisoryGroup(adv, items) ==
    [adv |-> adv, packages |-> Cardinality(items), cves |-> UNION {i.cves : i \in items},
     action |-> HighestAction({i.action : i \in items}),
     severity |-> HighestSeverity({i.severity : i \in items})]

RemediationGroup(family, items) ==
    [family |-> family, packages |-> Cardinality(items),
     action |-> HighestAction({i.action : i \in items}),
     severity |-> HighestSeverity({i.severity : i \in items}),
     advisories |-> {AdvisoryGroup(a, {i \in items : i.adv = a}) : a \in {i.adv : i \in items}}]

GroupDecisionsByRemediation(items) ==
    {RemediationGroup(f, {i \in items : i.family = f}) : f \in {i.family : i \in items}}

GetVulnerablePackages(rows) ==
    GroupDecisionsByRemediation(
        {MapDecisionRow(r) : r \in {q \in rows : q.adv.security /\ q.d.action # "none"}})

\* Fault: the advisory's kind is not looked at.
GetUpgradablePackagesMutant(rows, upgradable) ==
    LET backed == {q \in rows : q.d.action # "none"}
    IN  GroupDecisionsByRemediation(
            {MapDecisionRow(r) : r \in backed}
              \cup MapObservedUpgradablePackages(upgradable, {r.d.pkg.name : r \in backed}))

GetUpgradablePackages(rows, upgradable) ==
    LET backed == {q \in rows : ~q.adv.security /\ q.d.action # "none"}
    IN  GroupDecisionsByRemediation(
            {MapDecisionRow(r) : r \in backed}
              \cup MapObservedUpgradablePackages(upgradable, {r.d.pkg.name : r \in backed}))

-----------------------------------------------------------------------------
(* The kernel's page.                                                          *)

BuildKernelRiskView(items) ==
    LET advisories == UNION {g.advisories : g \in GroupDecisionsByRemediation(items)}
    IN  [advisoryCount |-> Cardinality(advisories),
         packageCount |-> MapThenSumSet(LAMBDA a : a.packages, advisories),
         cves |-> UNION {a.cves : a \in advisories}]

\* The name of the package decides before its version.
RpmKernelNameRank(name) ==
    CASE name = "kernel"         -> 3
      [] name = "kernel-core"    -> 2
      [] name = "kernel-modules" -> 1
      [] OTHER                   -> 0

LatestInstalledKernelRPM(packages) ==
    LET kernels == {p \in packages : IsKernelPackage(p.name, "rpm")}
    IN  {p \in kernels : \A q \in kernels :
            \/ RpmKernelNameRank(p.name) > RpmKernelNameRank(q.name)
            \/ RpmKernelNameRank(p.name) = RpmKernelNameRank(q.name) /\ p.evr >= q.evr}

\* Of the images of the running flavour, or of all when there is none, the highest ABI.
LatestInstalledKernelAPT(flavor, packages) ==
    LET images == {p \in packages : Parts[p.name].base = "linux-image-" /\ Parts[p.name].abi > 0}
        own == {p \in images : flavor = NoText \/ Parts[p.name].flavor = flavor}
        from == IF own = {} THEN images ELSE own
    IN  {p \in from : \A q \in from : Parts[p.name].abi >= Parts[q.name].abi}

DetectLatestInstalledKernel(snap) ==
    IF snap.family = "apt" THEN LatestInstalledKernelAPT(snap.running.flavor, snap.packages)
    ELSE LatestInstalledKernelRPM(snap.packages)

GetKernelPosture(rows, snap) ==
    LET kernel == {r \in rows : /\ r.adv.security
                                /\ r.d.action # "none"
                                /\ MapDecisionRow(r).family = "kernel"}
        left == {r \in kernel : r.d.status # "fixed_package_installed_pending_activation"}
        active == BuildKernelRiskView({MapDecisionRow(r) : r \in kernel})
        latest == BuildKernelRiskView({MapDecisionRow(r) : r \in left})
    IN  [latestInstalledKernel |-> DetectLatestInstalledKernel(snap),
         rebootWouldReduceCVECount |-> Cardinality(active.cves) > Cardinality(latest.cves),
         activeKernel |-> active, latestInstalled |-> latest]
=============================================================================
