---------------------------- MODULE MCPatchCycle ----------------------------
(* Instances of PatchCycle: RPM and APT hosts with two or three kernels to go    *)
(* through, with and without other kernel packages.                              *)
EXTENDS PatchCycle

Name(base, abi, flavor) == [base |-> base, abi |-> abi, flavor |-> flavor]

\* The kernel packages of an APT host, built as 11, 21 and 31 of the ABIs 1, 2 and 3, and the
\* metapackages without an ABI.
AbiNames == <<
    {"linux-image-1-generic", "linux-modules-1-generic", "linux-image-1-amd64", "linux-headers-1-common", "linux-image-1-aws"},
    {"linux-image-2-generic", "linux-modules-2-generic", "linux-image-2-amd64", "linux-headers-2-common", "linux-image-2-aws"},
    {"linux-image-3-generic", "linux-modules-3-generic", "linux-image-3-amd64", "linux-headers-3-common", "linux-image-3-aws"} >>
Modules == {"linux-modules-1-generic", "linux-modules-2-generic", "linux-modules-3-generic", "linux-modules-generic"}
Headers == {"linux-headers-1-common", "linux-headers-2-common", "linux-headers-3-common", "linux-headers-common"}
Amd64 == {"linux-image-1-amd64", "linux-image-2-amd64", "linux-image-3-amd64", "linux-image-amd64"}
Aws == {"linux-image-1-aws", "linux-image-2-aws", "linux-image-3-aws", "linux-image-aws"}
Generic == {"linux-image-1-generic", "linux-image-2-generic", "linux-image-3-generic", "linux-image-generic"}

MCParts ==
    [n \in {"openssl", "nss", "libssl", "kernel", "kernel-headers", "linux-aws"}
          \cup Modules \cup Headers \cup Amd64 \cup Aws \cup Generic |->
        LET abi == IF n \in AbiNames[1] THEN 1 ELSE IF n \in AbiNames[2] THEN 2 ELSE IF n \in AbiNames[3] THEN 3 ELSE 0
        IN  CASE n \in Generic         -> Name("linux-image-", abi, "generic")
              [] n \in Amd64           -> Name("linux-image-", abi, "amd64")
              [] n \in Aws             -> Name("linux-image-", abi, "aws")
              [] n \in Modules         -> Name("linux-modules-", abi, "generic")
              [] n \in Headers         -> Name("linux-headers-", abi, "common")
              [] n = "kernel-headers"  -> Name("kernel-", 0, "")
              [] n = "linux-aws"       -> Name("linux-", 0, "")
              [] OTHER                 -> Name(n, 0, "")]

Pkg(name, source, evr, arch) == [name |-> name, source |-> source, evr |-> evr, arch |-> arch]

BaseOS == [enabled |-> TRUE, words |-> {"baseos"}]
Off == [enabled |-> FALSE, words |-> {"crb"}]

RpmHost ==
    [family |-> "rpm", osName |-> {"rocky"}, major |-> 9, arch |-> "x86_64", repos |-> {BaseOS, Off},
     running |-> [abi |-> 0, flavor |-> "", evr |-> 11],
     packages |-> {Pkg("openssl", "", 1, "x86_64"), Pkg("kernel", "", 11, "x86_64")}]

\* The headers have the kernel's versions and are replaced by an update.
RpmHeaders == [RpmHost EXCEPT !.packages = {Pkg("kernel", "", 11, "x86_64"),
                                            Pkg("kernel-headers", "kernel", 11, "x86_64")}]

AptKernels ==
    [family |-> "apt", osName |-> {"debian"}, major |-> 12, arch |-> "amd64", repos |-> {},
     running |-> [abi |-> 1, flavor |-> "generic", evr |-> 0],
     packages |-> {Pkg("linux-image-1-generic", "linux", 11, "amd64")}]

\* Ubuntu's package that depends on the newest kernel has a version of its own, above those of the
\* kernels, and the modules are apart.
Ubuntu == [AptKernels EXCEPT !.packages = @ \cup {Pkg("linux-modules-1-generic", "linux", 11, "amd64"),
                                                  Pkg("linux-image-generic", "linux-meta", 91, "amd64")}]

\* Debian's headers: -common sorts after the -amd64 of the same ABI.
Debian ==
    [AptKernels EXCEPT !.running = [@ EXCEPT !.flavor = "amd64"],
                       !.packages = {Pkg("linux-image-1-amd64", "linux", 11, "amd64"),
                                     Pkg("linux-headers-1-common", "linux", 11, "amd64")}]

\* Two flavours of one ABI: the newer build has the name that sorts first.
TwoFlavors ==
    [AptKernels EXCEPT !.running = [@ EXCEPT !.flavor = "aws"],
                       !.packages = @ \cup {Pkg("linux-image-1-aws", "linux-aws", 12, "amd64")}]

AptHost == [AptKernels EXCEPT !.packages = @ \cup {Pkg("libssl", "openssl", 1, "amd64")}]

\* A distribution that no stream is for.
Stranger == [AptHost EXCEPT !.osName = {"devuan"}]

\* A host with a package whose rule cannot be read.
Unreadable == [RpmHost EXCEPT !.packages = {Pkg("nss", "", 1, "x86_64"), Pkg("openssl", "", 1, "x86_64")},
                              !.running = [@ EXCEPT !.evr = 0]]

MCHosts == {RpmHost, RpmHeaders, AptHost, Ubuntu, Debian, TwoFlavors, Stranger, Unreadable}

Stream(id, vendor, major, arch, repo) ==
    [id |-> id, vendor |-> vendor, major |-> major, arch |-> arch, repo |-> repo]
MCStreams ==
    {Stream("r9", "rocky", 9, "x86_64", "baseos"), Stream("r9crb", "rocky", 9, "x86_64", "crb"),
     Stream("r9arm", "rocky", 9, "aarch64", "baseos"), Stream("r8", "rocky", 8, "x86_64", "all"),
     Stream("rhel9", "redhat", 9, "", "all"),
     Stream("d12", "debian", 12, "source", "all"), Stream("d12sec", "debian", 12, "binary", "all")}

Rule(stream, name, source, arch, op, evr) ==
    [stream |-> stream, name |-> name, source |-> source, arch |-> arch, op |-> op, evr |-> evr]
Fix(stream, name, source, arch, evr) ==
    [stream |-> stream, name |-> name, source |-> source, arch |-> arch, evr |-> evr]
Adv(id, streams, rules, fixes, severity, refs, security, cves) ==
    [id |-> id, streams |-> streams, rules |-> rules, fixes |-> fixes, severity |-> severity,
     refs |-> refs, security |-> security, cves |-> cves]

\* OpenSSL: a rule and a fix per architecture and stream, for the source on Debian.
A1 == Adv(1, {"r9", "d12"},
          {Rule("r9", "openssl", "", "x86_64", "<", 3), Rule("r9arm", "openssl", "", "aarch64", "<", 3),
           Rule("d12", "openssl", "", "source", "<", 3), Rule("d12", "libssl", "", "binary", "<=", 2)},
          {Fix("r9", "openssl", "", "x86_64", 3), Fix("r9crb", "openssl", "", "x86_64", 4),
           Fix("d12", "openssl", "", "source", 3)},
          "critical", {}, TRUE, {"c1"})
\* A kernel with rules and fixes, and a fix without a rule for the headers.
A2 == Adv(2, {"r9", "d12"},
          {Rule("r9", "kernel", "", "", "<", 21), Rule("d12", "linux", "", "source", "<", 21)},
          {Fix("r9", "kernel", "", "", 21), Fix("r9", "kernel-headers", "", "x86_64", 21),
           Fix("d12", "linux", "", "source", 21), Fix("d12", "linux-aws", "", "source", 22)},
          "", {"medium", "high"}, TRUE, {"c2", "c3"})
\* The next kernel, with fixes only; no security advisory.
A3 == Adv(3, {"r9", "d12"}, {},
          {Fix("r9", "kernel", "", "x86_64", 31), Fix("d12", "linux", "", "source", 31)},
          "", {}, FALSE, {})
\* OpenSSL again: no fix yet on RPM hosts, two streams with a rule each on Debian; and a rule
\* that cannot be read.
A4 == Adv(4, {"r9", "d12"},
          {Rule("r9", "openssl", "", "", "", 0), Rule("d12", "openssl", "", "source", "<", 5),
           Rule("d12sec", "libssl", "", "binary", "", 0), Rule("r9", "nss", "", "", "malformed", 0)},
          {Fix("d12sec", "openssl", "", "", 5)},
          "low", {}, TRUE, {"c1", "c4"})

MCAdvisories == {A1, A2, A3, A4}
=============================================================================
