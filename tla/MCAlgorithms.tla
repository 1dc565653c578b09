---------------------------- MODULE MCAlgorithms ----------------------------
(* The inputs of Algorithms: all texts of up to three of six characters, builds  *)
(* with awkward names, seventy attempts, and machines that differ from a usual   *)
(* one in a part or two.                                                         *)
EXTENDS Algorithms

Zero == 48
One == 49
LetterA == 97
Alphabet == {Zero, One, LetterA, Dot, Plus, Tilde}

MCTexts == {<<>>} \cup [1..1 -> Alphabet] \cup [1..2 -> Alphabet] \cup [1..3 -> Alphabet]

LetterM == 109
MCDebianArches == {<<LetterA, LetterM>>}

\* Names with digits after a dash and dots, versions with dashes and letters, no release, no arch.
Names == {<<LetterA>>, <<LetterA, Dash, One>>, <<LetterA, Dot, One>>, <<LetterA, Dash, LetterM>>}
Versions1 == {<<One>>, <<One, Dot, Zero>>, <<Zero, Tilde, One>>}
Releases == {<<>>, <<One>>, <<One, Dot, LetterA, One>>}
MCBuilds == [name : Names, evr : [epoch : {0, 2}, version : Versions1, release : Releases],
             arch : {<<>>, <<LetterA, LetterM>>}]

MCAttempts == 1..70

-----------------------------------------------------------------------------
MCNumerals == [t \in {"0", "1", "9", "10", "22", "24", "26"} |->
                  CASE t = "0" -> 0 [] t = "1" -> 1 [] t = "9" -> 9 [] t = "10" -> 10
                    [] t = "22" -> 22 [] t = "24" -> 24 [] t = "26" -> 26]

MCLeading == [t \in DOMAIN MCNumerals \cup {"9x"} |-> IF t = "9x" THEN 9 ELSE MCNumerals[t]]

Ver(epoch, words) == [epoch |-> epoch, words |-> words]
Line(fields, name, version, arch, source) ==
    [fields |-> fields, name |-> name, version |-> version, arch |-> arch, source |-> source]
Heading == [kind |-> "header"]
RpmUpdate(fields, nameArch, epoch, digit) ==
    [kind |-> "line", fields |-> fields, nameArch |-> nameArch, version |-> Ver(epoch, <<"3", "1">>),
     digit |-> digit]
AptUpdate(fields, name, version, slash, from) ==
    [kind |-> "line", fields |-> fields, name |-> name, version |-> version, slash |-> slash,
     from |-> from, arch |-> "amd64"]
Section(id, enabled, name, shown, literal) ==
    [id |-> {id}, enabled |-> enabled, name |-> name, shown |-> shown, baseurl |-> {"http", "mirror"},
     literal |-> literal]
List(file, type, options, suite, fields) ==
    [file |-> file, path |-> {"/etc/apt", file}, type |-> type, options |-> options, uri |-> {"http", "archive"},
     suite |-> {suite}, components |-> {"main"}, fields |-> fields]
Block(enabled, types, uris, suites) ==
    [path |-> {"/etc/apt", "sources"}, enabled |-> enabled, types |-> types, uris |-> uris, suites |-> suites,
     components |-> {"main", "universe"}]
Archive == {"http", "archive"}
Noble == {"noble"}
NobleSecurity == {"noble", "security", "noble-security"}
Repos(sections, lines, blocks) == [sections |-> sections, lines |-> lines, blocks |-> blocks]

RpmMachine ==
    [id |-> "rocky", idLike |-> <<"rhel", "fedora">>, version |-> <<"9", "3">>, uname |-> "x86_64",
     etcID |-> "m", dbusID |-> "d", kernel |-> [epoch |-> "0", release |-> "5.14"], failing |-> {},
     packages |-> <<Line(7, <<"openssl">>, Ver("1", <<"3.0", "7">>), "x86_64", "openssl"),
                    Line(7, <<"python3", "11">>, Ver("(none)", <<"3.11", "2">>), "x86_64", "(none)")>>,
     updates |-> <<Heading, RpmUpdate(3, <<"openssl", "x86_64">>, "1", TRUE)>>,
     repos |-> Repos(<<Section("baseos", "1", {"BaseOS"}, {"BaseOS"}, TRUE),
                       Section("crb", "0", {"CRB"}, {"CRB"}, TRUE),
                       Section("extras", "yes", {"Extras"}, {"Extras"}, FALSE)>>, <<>>, <<>>)]

AptMachine ==
    [id |-> "ubuntu", idLike |-> <<"debian">>, version |-> <<"22", "04">>, uname |-> "x86_64",
     etcID |-> "m", dbusID |-> "d", kernel |-> [epoch |-> "0", release |-> "5.15"], failing |-> {},
     packages |-> <<Line(5, <<"libssl3">>, Ver("", <<"3.0.2", "0ubuntu1", "15">>), "amd64", "openssl"),
                    Line(5, <<"tzdata">>, Ver("1", <<"2024a">>), "amd64", "(none)")>>,
     updates |-> <<Heading, AptUpdate(6, <<"libssl3">>, Ver("", <<"3.0.2", "16">>), TRUE, TRUE)>>,
     repos |-> Repos(<<>>, <<List("sources.list", "deb", "none", "jammy", 3),
                             List("sources.list", "deb-src", "none", "jammy-src", 3)>>,
                     <<Block("unset", {"deb"}, {Archive}, {Noble, NobleSecurity})>>)]

\* What a machine may have instead, for each of its parts.
Distros == {<<"rocky", <<"rhel">>>>, <<"ol", <<"fedora">>>>, <<"ol", <<>>>>, <<"fedora", <<>>>>, <<"amzn", <<"x", "fedora">>>>,
            <<"arch", <<>>>>, <<"", <<>>>>, <<"raspbian", <<"debian">>>>, <<"pop", <<"ubuntu", "debian">>>>,
            <<"linuxmint", <<"ubuntu">>>>, <<"debian", <<>>>>}
RpmDistros == {d \in Distros : d[1] \notin {"raspbian", "pop", "linuxmint", "debian"}}
AptDistros == Distros \ {<<"rocky", <<"rhel">>>>, <<"ol", <<"fedora">>>>, <<"ol", <<>>>>, <<"fedora", <<>>>>, <<"amzn", <<"x", "fedora">>>>}

Failing == (SUBSET {"packages", "updates", "repos", "kernel"}) \cup {{"machine-id"}, {"machine-id", "repos"}}

RpmPackages == {<<>>, <<Line(6, <<"a">>, Ver("0", <<"1", "1">>), "noarch", "a")>>,
                <<Line(7, <<"a">>, Ver("x", <<"1", "1">>), "noarch", "a"), Line(7, <<"b">>, Ver("", <<"1", "1">>), "noarch", "")>>}
AptPackages == {<<>>, <<Line(4, <<"a">>, Ver("", <<"1">>), "all", "a")>>, <<Line(5, <<>>, Ver("", <<"1">>), "all", "a")>>,
                <<Line(5, <<"a">>, Ver("x", <<"1">>), "all", "a"), Line(5, <<"b">>, Ver("9", <<"1", "2">>), "all", "b")>>,
                <<Line(5, <<"a">>, Ver("1", <<NoText>>), "all", "a")>>}

RpmUpdates == {<<>>, <<RpmUpdate(3, <<"python3", "11", "x86_64">>, "", TRUE)>>,
               <<RpmUpdate(2, <<"a", "noarch">>, "", TRUE), RpmUpdate(3, <<"b">>, "", TRUE)>>,
               <<RpmUpdate(3, <<"a", "noarch">>, "", FALSE)>>, <<RpmUpdate(3, <<"a", "noarch">>, "x", TRUE)>>}
AptUpdates == {<<>>, <<AptUpdate(2, <<"a">>, Ver("", <<"1">>), TRUE, TRUE)>>,
               <<AptUpdate(6, <<"a">>, Ver("", <<"1">>), FALSE, FALSE), AptUpdate(6, <<>>, Ver("", <<"1">>), TRUE, TRUE)>>,
               <<AptUpdate(6, <<"a">>, Ver("x", <<"1">>), TRUE, TRUE), AptUpdate(6, <<"b">>, Ver("1", <<"1", "2">>), TRUE, TRUE)>>}

\* Sections that do not say enabled, with an id that was there, a name with a variable.
RpmRepos == {Repos(<<>>, <<>>, <<>>), Repos(<<Section("baseos", "unset", {"BaseOS"}, {"BaseOS"}, TRUE)>>, <<>>, <<>>),
             Repos(<<Section("a", "yes", {"A"}, {"A"}, TRUE), Section("a", "true", {"A2"}, {"A2"}, TRUE),
                     Section("b", "false", {"B"}, {"B"}, TRUE)>>, <<>>, <<>>),
             Repos(<<Section("a", "yes", {"A", "$releasever"}, {"A", "9"}, TRUE)>>, <<>>, <<>>)}

\* Lines with bad options or too short, in files of sources.list.d, indented; blocks that are off.
AptRepos == {Repos(<<>>, <<>>, <<>>),
             Repos(<<>>, <<List("sources.list", "deb", "open", "jammy", 3), List("sources.list", "deb", "closed", "noble", 1)>>, <<>>),
             Repos(<<>>, <<List("sources.list", "deb", "open", "jammy", 0)>>, <<>>),
             Repos(<<>>, <<List("sources.list", "deb", "closed", "jammy", 2)>>, <<Block("no", {"deb"}, {Archive}, {Noble})>>),
             Repos(<<>>, <<List("list", "deb", "none", "docker", 3), List("other", "deb", "none", "old", 3),
                           List("sources.list", "indented deb", "none", "side", 2)>>, <<>>),
             Repos(<<>>, <<>>, <<Block("yes", {"deb-src"}, {Archive}, {Noble}), Block("true", {"deb"}, {}, {Noble})>>)}

\* The machines that differ from a usual one in one of two groups of parts.
Vary(m, distros, packages, updates, repos) ==
    {[m EXCEPT !.id = d[1], !.idLike = d[2], !.failing = f, !.packages = p] :
        d \in distros, f \in Failing, p \in packages \cup {m.packages}}
      \cup {[m EXCEPT !.updates = u, !.repos = r, !.failing = f] :
        u \in updates \cup {m.updates}, r \in repos \cup {m.repos}, f \in Failing}
      \cup {[m EXCEPT !.version = v, !.uname = n, !.etcID = i[1], !.dbusID = i[2], !.kernel.epoch = e] :
        v \in {<<>>, <<"sid">>, <<"9x">>, <<"9">>, <<"22", "04">>}, n \in {"x86_64", "riscv64", "armv7l", ""},
        i \in {<<"m", NoText>>, <<NoText, "d">>, <<NoText, NoText>>}, e \in {"0", "1"}}

MCMachines == Vary(RpmMachine, RpmDistros, RpmPackages, RpmUpdates, RpmRepos)
                \cup Vary(AptMachine, AptDistros, AptPackages, AptUpdates, AptRepos)

-----------------------------------------------------------------------------
\* The default; a list that names families and architectures and leaves the version to the key; two
\* scopes of one release, and a vendor of one's own as in the guide; a version that is not the major one
\* and one scope for two releases.
MCConfigured ==
    {<<>>,
     <<Mapping("rpm", "Rocky Linux", <<"9", "3">>, 0, "x86_64", Key("rocky", "9")),
       Mapping(NoText, "AlmaLinux", <<>>, 9, "aarch64", Key("alma", "9")),
       Mapping(NoText, "Red Hat Enterprise Linux", <<>>, 0, NoText, Key("rhel", "9")),
       OfVersion("Ubuntu", <<"24">>, Key("ubuntu", "noble"))>>,
     <<Mapping(NoText, "Ubuntu", <<>>, 24, "aarch64", Key("ubuntu", "noble-arm")),
       OfMajor("Ubuntu", 24, Key("ubuntu", "noble")), OfMajor("Rocky Linux", 9, Key("myorg", "rocky-9-staging"))>>,
     <<OfVersion("Ubuntu", <<"04">>, Key("ubuntu", "lts")), OfMajor("Debian GNU/Linux", 12, Key("debian", "all")),
       OfMajor("Debian GNU/Linux", 13, Key("debian", "all"))>>}

\* Names as the matchers see them, with the releases of each distribution and two that have no scope.
OSNames == [Ubuntu |-> {"Ubuntu", "ubuntu"}, Debian |-> {"Debian GNU/Linux", "debian"},
            Rocky |-> {"Rocky Linux", "rocky"}, Alma |-> {"AlmaLinux", "alma"},
            RedHat |-> {"Red Hat Enterprise Linux", "red hat"}, Fedora |-> {"Fedora Linux"}]
Vendors == [Ubuntu |-> "ubuntu", Debian |-> "debian", Rocky |-> "rocky", Alma |-> "alma", RedHat |-> "redhat",
            Fedora |-> "fedora"]
System(distro, family, version, major) ==
    {[family |-> family, name |-> OSNames[distro], vendor |-> Vendors[distro], version |-> version, major |-> major,
      arch |-> a] : a \in {"x86_64", "aarch64"}}
MCSystems ==
    UNION {System("Ubuntu", "apt", <<"22", "04">>, 22), System("Ubuntu", "apt", <<"24", "04">>, 24),
           System("Ubuntu", "apt", <<"24", "10">>, 24), System("Debian", "apt", <<"12">>, 12),
           System("Debian", "apt", <<"13">>, 13), System("Rocky", "rpm", <<"9", "3">>, 9),
           System("Rocky", "rpm", <<"10", "1">>, 10), System("Alma", "rpm", <<"9", "3">>, 9),
           System("RedHat", "rpm", <<"9", "4">>, 9), System("RedHat", "rpm", <<"10", "0">>, 10),
           System("Fedora", "rpm", <<"40">>, 40)}

\* A stream of each release, and a second one that its vendor has withdrawn.
Stream(n, vendor, major) == [id |-> <<n, vendor, major>>, vendor |-> vendor, major |-> major]
MCProductStreams ==
    {Stream(n, vendor, major) : n \in {1, 2}, vendor \in {"ubuntu", "debian", "rocky", "alma", "redhat"},
                                major \in {9, 10, 12, 13, 22, 24}}

\* The streams of a release with a new one, those of another vendor, and an id of another release.
MCDatabases ==
    {{Stream(1, vendor, major), Stream(3, vendor, major)} : vendor \in {"ubuntu", "rocky", "redhat"}, major \in {9, 24}}
      \cup {{}, {Stream(1, "debian", 13)}, {[id |-> <<1, "ubuntu", 22>>, vendor |-> "ubuntu", major |-> 24]}}
=============================================================================
