------------------------------ MODULE PatchCycle ------------------------------
(* A host and the advice it gets: it reports what it has installed, the server  *)
(* matches the report with the advisories, its administrator installs what is   *)
(* asked for and reboots, and reports again, while advisories keep coming.      *)
(* A match is one step here; module HostMatch has their interleavings.          *)
EXTENDS Views

CONSTANTS
    Hosts,          \* the hosts to start from: OS, repositories, packages, running kernel
    Streams,        \* the product streams of the advisory databases
    Advisories,     \* what may be published
    MaxBroken       \* bound: reports with a package query that failed

-----------------------------------------------------------------------------
(* What is known of the constants.                                              *)

Package == [name : DOMAIN Parts, source : STRING, evr : Nat \ {NoEVR}, arch : STRING]
Running == [abi : Nat, flavor : Flavors, evr : Nat]
Repo == [enabled : BOOLEAN, words : SUBSET STRING]
Host == [family : {"rpm", "apt"}, osName : SUBSET STRING, major : Nat, arch : STRING,
         repos : SUBSET Repo, running : Running, packages : SUBSET Package]

\* The kernels a host can boot.
Images(packages) ==
    {p \in packages : Parts[p.name].base = "kernel"
                      \/ (Parts[p.name].base = "linux-image-" /\ Parts[p.name].abi > 0)}

APTImages(packages) == {p \in Images(packages) : Parts[p.name].base = "linux-image-"}

\* A kernel of an APT host is installed once (dpkg) and its build has the number of its ABI; the
\* kernels of an RPM host are others.
KernelsOK(family, packages) ==
    /\ IsFiniteSet(packages)
    /\ \A p \in Images(packages) : Parts[p.name].base = "linux-image-" <=> family = "apt"
    /\ \A p, q \in APTImages(packages) :
          /\ p.name = q.name => p = q
          /\ Parts[p.name].abi = p.evr \div 10

\* The pieces of a name; an image of one ABI and flavour has one name.
ASSUME PartsAssumption ==
    /\ \A n \in DOMAIN Parts : Parts[n] \in [base : STRING, abi : Nat, flavor : Flavors]
    /\ \A m, n \in DOMAIN Parts :
          Parts[m] = Parts[n] /\ Parts[m].base = "linux-image-" /\ Parts[m].abi > 0 => m = n

ASSUME HostsAssumption == \A h \in Hosts : h \in Host /\ KernelsOK(h.family, h.packages)

FixedBuilds(advisories) == UNION {{f.evr : f \in a.fixes} : a \in advisories}

\* Advisories have ids of their own, finitely many CVEs, rules and fixes with versions, and an APT
\* kernel has a name for each build that fixes something.
ASSUME AdvisoriesAssumption ==
    /\ \A a, b \in Advisories : a.id = b.id => a = b
    /\ \A a \in Advisories :
          /\ a.id \in Nat
          /\ IsFiniteSet(a.rules) /\ IsFiniteSet(a.fixes) /\ IsFiniteSet(a.cves)
          /\ \A r \in a.rules : r.evr \in Nat
          /\ \A f \in a.fixes : f.evr \in Nat \ {NoEVR}
    /\ \A n \in DOMAIN Parts, evr \in FixedBuilds(Advisories) :
          IsVersionedKernelPackageAPT(n) =>
              \E m \in DOMAIN Parts : Parts[m] = [Parts[n] EXCEPT !.abi = evr \div 10]

VARIABLES
    host,           \* the host itself
    published,      \* the advisories in the database
    snap,           \* the last snapshot that the server stored
    rows,           \* the decision records
    overall,        \* host_current_states.overall_action
    due,            \* a match of the snapshot is to come
    broken          \* reports so far with a failed package query

vars == <<host, published, snap, rows, overall, due, broken>>

NoSnap == [family |-> NoText, packages |-> {}, running |-> [abi |-> 0, flavor |-> NoText, evr |-> NoEVR],
           whole |-> FALSE]

Reported == snap.family # NoText

Resolved == {s.id : s \in ResolveProductStreams(host, host.repos, Streams)}

\* What the package manager of the host would upgrade (external): what an advisory fixes.
Upgradable ==
    {p \in snap.packages : \E a \in published : \E f \in a.fixes :
        /\ f.stream \in Resolved
        /\ KeysForPackageMatch(f.name, f.source) \cap PackageMatchKeys(p) # {}
        /\ p.evr < f.evr}

Init ==
    /\ host \in Hosts
    /\ published = {}
    /\ snap = NoSnap
    /\ rows = {}
    /\ overall = "none"
    /\ due = FALSE
    /\ broken = 0

-----------------------------------------------------------------------------
(* The server.                                                                  *)

\* MatchSnapshot replaces the records and the state; a match that meets a malformed rule is
\* rolled back, and one that finds no stream asks for an investigation.
MatchSnapshot ==
    /\ due
    /\ due' = FALSE
    /\ UNCHANGED <<host, published, snap, broken>>
    /\ IF Resolved = {} THEN rows' = {} /\ overall' = "investigate"
       ELSE IF MatchFails(snap, published, Resolved) THEN UNCHANGED <<rows, overall>>
       ELSE \E decisions \in BuildDecisions(snap, published, Resolved) :
               /\ rows' = decisions
               /\ overall' = OverallAction(decisions)

\* An import brings an advisory; a rematch of the host follows.
Publish(adv) ==
    /\ adv \notin published
    /\ published' = published \cup {adv}
    /\ due' = Reported
    /\ UNCHANGED <<host, snap, rows, overall, broken>>

\* The host reports and its snapshot is stored.  The script of an SSH pull hides a failing package
\* query: such a report has no packages.  The agent stops instead, which is no step.
Report(via, fails) ==
    /\ fails => via = "ssh" /\ broken < MaxBroken
    /\ LET packages == IF fails THEN {} ELSE host.packages
       IN  snap' = [family |-> host.family, packages |-> packages, running |-> host.running,
                    whole |-> ~fails]
    /\ due' = TRUE
    /\ broken' = IF fails THEN broken + 1 ELSE broken
    /\ UNCHANGED <<host, published, rows, overall>>

-----------------------------------------------------------------------------
(* The administrator and the package manager (external).                        *)

\* A build of an APT kernel package has the name of its ABI.
BuildOf(pkg, evr) ==
    [pkg EXCEPT !.evr = evr,
                !.name = CHOOSE n \in DOMAIN Parts : Parts[n] = [Parts[pkg.name] EXCEPT !.abi = evr \div 10]]

\* A new RPM kernel is installed beside the old one.  A new APT kernel comes with the other packages
\* of its ABI and flavour, under names of their own (a newer build of a name that is there replaces
\* it).  Every other package is replaced.
Installed(packages, pkg, evr) ==
    LET kernel == {q \in packages : /\ IsVersionedKernelPackageAPT(q.name)
                                    /\ Parts[q.name].abi = Parts[pkg.name].abi
                                    /\ Parts[q.name].flavor = Parts[pkg.name].flavor}
        new == {BuildOf(q, evr) : q \in kernel}
    IN  IF Parts[pkg.name].base = "kernel" THEN packages \cup {[pkg EXCEPT !.evr = evr]}
        ELSE IF IsVersionedKernelPackageAPT(pkg.name)
        THEN {q \in packages : \A r \in new : q.name # r.name} \cup new
        ELSE (packages \ {pkg}) \cup {[pkg EXCEPT !.evr = evr]}

Update(row) ==
    /\ row.action = "update_package"
    /\ row.pkg \in host.packages
    /\ host' = [host EXCEPT !.packages = Installed(@, row.pkg, row.fixed)]
    /\ UNCHANGED <<published, snap, rows, overall, due, broken>>

RunningAfterBoot(packages) ==
    LET p == CHOOSE q \in Images(packages) : \A r \in Images(packages) : q.evr >= r.evr
    IN  [abi |-> Parts[p.name].abi, flavor |-> Parts[p.name].flavor,
         evr |-> IF host.family = "rpm" THEN p.evr ELSE NoEVR]

Reboot ==
    /\ Images(host.packages) # {}
    /\ host' = [host EXCEPT !.running = RunningAfterBoot(host.packages)]
    /\ UNCHANGED <<published, snap, rows, overall, due, broken>>

Next ==
    \/ MatchSnapshot
    \/ \E adv \in Advisories : Publish(adv)
    \/ \E via \in {"agent", "ssh"}, fails \in BOOLEAN : Report(via, fails)
    \/ \E row \in rows : Update(row)
    \/ Reboot

Spec == Init /\ [][Next]_vars

\* A step of MatchSnapshot, told by the flag that no other action clears.
Rematched == due /\ due' = FALSE

\* Hosts report again and again, and the administrator does what the rows ask for.
FairSpec ==
    /\ Spec
    /\ WF_due(Rematched)
    /\ WF_vars(Report("agent", FALSE))
    /\ WF_vars(\E row \in rows : Update(row))
    /\ WF_vars((\E row \in rows : row.action = "reboot_host") /\ Reboot)

-----------------------------------------------------------------------------
(* Properties.                                                                  *)

Matched == Reported /\ ~due /\ Resolved # {} /\ ~MatchFails(snap, published, Resolved)

\* The inductive invariant.
HostOK == host \in Host /\ KernelsOK(host.family, host.packages)

\* A snapshot is none or the report of a host.
SnapOK ==
    /\ snap \in [family : {NoText, "rpm", "apt"}, packages : SUBSET Package, running : Running,
                  whole : BOOLEAN]
    /\ KernelsOK(snap.family, snap.packages)

PublishedOK == published \subseteq Advisories /\ IsFiniteSet(published)

\* A record asks for a build that fixes something.
RowsOK == \A d \in rows : d.action = "update_package" => d.fixed \in FixedBuilds(Advisories)

\* The records after a match are those of one order of the advisories, none from before the last
\* advisory or report, and the overall action is theirs.
RowsFresh ==
    Matched => rows \in BuildDecisions(snap, published, Resolved) /\ overall = OverallAction(rows)

PatchInv == HostOK /\ SnapOK /\ PublishedOK /\ RowsOK /\ RowsFresh /\ due \in BOOLEAN

\* A package that an advisory of the host's streams wants newer: no rule of the advisory about it
\* matches and it is older than a fix, or it is older than a fix in the stream of a rule that matches.
Exposed(p, a) ==
    LET about(entries) == {x \in entries :
                             /\ x.stream \in Resolved
                             /\ {x.name, x.source} \cap PackageMatchKeys(p) # {}
                             /\ MatchesPackageArch(p.arch, x.arch, snap.family)}
        hits == {r \in about(a.rules) : MatchesRule(p, r)}
    IN  /\ a.streams \cap Resolved # {}
        /\ \E f \in about(a.fixes) : /\ p.evr < f.evr
                                     /\ hits # {} => \E r \in hits : r.stream = f.stream

\* The kernel that runs, or a package that is no kernel.
Judged(p) ==
    \/ ~IsKernelPackage(p.name, snap.family)
    \/ p \in Images(snap.packages) /\ (IF snap.family = "rpm" THEN p.evr = snap.running.evr
                                       ELSE p \in RunningKernelPackages(snap))

\* A package that is older than the fix of a published advisory has a record that asks for
\* something, whatever other advisories, rules, architectures and kernels there are: neither the
\* filters of buildDecisions nor the collapse of superseded decisions drops an exposure, in a
\* report whose package query worked.
NoExposureDropped ==
    Matched /\ snap.whole =>
        \A p \in snap.packages, a \in published :
            Judged(p) /\ Exposed(p, a) => \E d \in rows : d.pkg = p /\ d.action # "none"

\* The records do not depend on the order in which the database and the maps return advisories and
\* packages: preferDecision leaves one winner per package.
OrderIndependent ==
    Matched => BuildDecisions(snap, published, Resolved) = {rows}

\* What the pages are made of, and what only the package manager knows of.
Joined == ListDecisionPageRows(rows, published)
VulnerablePage == GetVulnerablePackages(Joined)
UpgradablePage == GetUpgradablePackages(Joined, Upgradable)
Observed == {p \in Upgradable : \A d \in rows : d.pkg.name = p.name => d.security \/ d.action = "none"}

\* The highest action on the pages is the overall action, or an update that only the package manager
\* knows of.
TopAgrees ==
    Max({0} \cup {ActionPriorityLabel(g.action) : g \in VulnerablePage \cup UpgradablePage})
      = Max({ActionPriority(overall)} \cup {2 : p \in Observed})

\* Every record that asks for something is on one page, once.
CountsAgree ==
    MapThenSumSet(LAMBDA g : g.packages, VulnerablePage)
      + MapThenSumSet(LAMBDA g : g.packages, UpgradablePage)
      = Cardinality({d \in rows : d.status # "resolved"}) + Cardinality(Observed)

\* The kernel page promises that a reboot removes CVEs only when the host list asks for a reboot.
PromiseKept == GetKernelPosture(Joined, snap).rebootWouldReduceCVECount => overall = "reboot_host"

\* The pages of a host and the host list tell the same.
PagesAgree == Matched => TopAgrees /\ CountsAgree /\ PromiseKept

\* What a report of the host as it is would say about reboots.
RebootAdvice ==
    {d \in UNION BuildDecisions([snap EXCEPT !.family = host.family, !.packages = host.packages,
                                             !.running = host.running], published, Resolved) :
        d.action = "reboot_host"}

\* A kernel package that the code takes for newer than every kernel that the host can boot: its
\* version is above all of theirs, or its ABI and flavour sort after the running kernel's.  Ubuntu's
\* metapackages (6.8.0.45.45 beside 6.8.0-45.45), headers that are updated before the image, headers
\* of a container without any image, Debian's linux-headers-<abi>-common beside -amd64, and the second
\* flavour of an ABI are of this kind.
Overtakes(r) ==
    /\ IsKernelPackage(r.name, host.family)
    /\ \/ \A image \in Images(host.packages) : r.evr > image.evr
       \/ IsVersionedKernelPackageAPT(r.name) /\ AbiLess(host.running, Parts[r.name])

\* The packages that a kernel package's builds are compared with, itself among them.
ComparedWith(pkg) ==
    IF IsVersionedKernelPackageAPT(pkg.name) THEN InstalledKernelsAPT(host.packages, pkg.name)
    ELSE InstalledKernelsRPM(host.packages, pkg.name)

\* A reboot settles what a reboot was asked for: on a host that runs its newest installed kernel, the
\* next report asks for another reboot only over a kernel package that overtakes it, itself or one
\* that the code compares with it.  Every other kernel package, of any name and ABI, is content.
RebootCures ==
    Images(host.packages) # {} /\ host.running = RunningAfterBoot(host.packages) =>
        \A d \in RebootAdvice : \E r \in ComparedWith(d.pkg) : Overtakes(r)

\* The advice comes to an end: when the advisories stop, a host that does what its rows ask for and
\* reports ends with nothing to install, and with no reboot to make unless a kernel package overtakes
\* the one that it boots.  Malformed rules and databases without the host's streams are the other
\* exceptions.
AdviceConverges ==
    <>[](\/ Resolved = {}
         \/ Reported /\ MatchFails(snap, published, Resolved)
         \/ \A d \in rows : \/ d.action \in {"none", "investigate"}
                            \/ d.action = "reboot_host" /\ \E r \in host.packages : Overtakes(r))
=============================================================================
