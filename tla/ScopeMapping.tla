---------------------------- MODULE ScopeMapping ----------------------------
(* How a host finds its advisories (internal/services/advisory_sync.go): its     *)
(* operating system is mapped to a scope, the import of a scope's database       *)
(* replaces the product streams of the vendor and the major version that the     *)
(* scope's key and mapping name, with those that have the ids of its own, and    *)
(* the matcher takes the streams of the host's distribution.                     *)
(*                                                                               *)
(* An OS name is the set of the texts it contains, a version the sequence of the *)
(* words between its dots.  A scope key vendor:rest has the two texts; pair says *)
(* whether there is one colon.                                                   *)
EXTENDS Collect

Key(vendor, rest) == [vendor |-> vendor, rest |-> rest, pair |-> TRUE]
Mapping(family, name, version, major, arch, scope) ==
    [family |-> family, name |-> name, version |-> version, major |-> major, arch |-> arch, scope |-> scope]
OfVersion(name, version, scope) == Mapping(NoText, name, version, 0, NoText, scope)
OfMajor(name, major, scope) == Mapping(NoText, name, <<>>, major, NoText, scope)

DefaultScopeMappings ==
    <<OfVersion("Ubuntu", <<"22", "04">>, Key("ubuntu", "jammy")),
      OfVersion("Ubuntu", <<"24", "04">>, Key("ubuntu", "noble")),
      OfVersion("Ubuntu", <<"26", "04">>, Key("ubuntu", "resolute")),
      OfMajor("Debian GNU/Linux", 12, Key("debian", "bookworm-dsa")),
      OfMajor("Debian GNU/Linux", 13, Key("debian", "trixie-dsa")),
      OfMajor("Rocky Linux", 9, Key("rocky", "9")), OfMajor("Rocky Linux", 10, Key("rocky", "10")),
      OfMajor("AlmaLinux", 9, Key("alma", "9")), OfMajor("AlmaLinux", 10, Key("alma", "10")),
      OfMajor("Red Hat Enterprise Linux", 9, Key("rhel", "9")),
      OfMajor("Red Hat Enterprise Linux", 10, Key("rhel", "10"))>>

NoScope == [vendor |-> NoText, rest |-> NoText, pair |-> FALSE]

\* The mappings of the configuration replace the default ones.
Mappings(configured) == IF configured = <<>> THEN DefaultScopeMappings ELSE configured

\* A field that is not given matches anything.
Applies(match, os) ==
    /\ match.family \in {NoText, os.family}
    /\ match.name = NoText \/ match.name \in os.name
    /\ match.version \in SubSeqs(os.version)
    /\ match.major \in {0, os.major}
    /\ match.arch \in {NoText, os.arch}

ResolveScopeKey(configured, os) ==
    LET ms == Mappings(configured)
        i == SelectInSeq(ms, LAMBDA m : Applies(m, os))
    IN  IF i = 0 THEN NoScope ELSE ms[i].scope

\* Fault: the version of a mapping is not looked at.
GetMajorVersionFromScopeKeyMutant(key, configured) ==
    LET ms == Mappings(configured)
        i == SelectInSeq(ms, LAMBDA m : m.scope = key /\ m.major # 0)
    IN  IF i # 0 THEN ms[i].major
        ELSE IF key.pair /\ IsNumeral(key.rest) THEN Number(key.rest) ELSE 0

\* The first mapping to the scope that tells, or the key.
GetMajorVersionFromScopeKey(key, configured) ==
    LET ms == Mappings(configured)
        versioned(m) == m.version # <<>> /\ IsNumeral(m.version[1])
        i == SelectInSeq(ms, LAMBDA m : m.scope = key /\ (m.major # 0 \/ versioned(m)))
    IN  IF i # 0 THEN IF ms[i].major # 0 THEN ms[i].major ELSE Number(ms[i].version[1])
        ELSE IF key.pair /\ IsNumeral(key.rest) THEN Number(key.rest) ELSE 0

\* The streams that an import removes: those of the vendor and the major version, and those whose ids
\* the database has.
CleanUpStreams(key, configured, streams, database) ==
    {s \in streams :
        \/ /\ key.pair
           /\ s.vendor = IF key.vendor = "rhel" THEN "redhat" ELSE key.vendor
           /\ s.major = GetMajorVersionFromScopeKey(key, configured)
        \/ \E d \in database : d.id = s.id}

\* The streams after an import of the scope's database.
ImportStreams(key, configured, streams, database) ==
    (streams \ CleanUpStreams(key, configured, streams, database)) \cup database
=============================================================================
