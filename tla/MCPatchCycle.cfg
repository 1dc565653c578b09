\* Two RPM hosts, four APT hosts (modules and metapackages, headers, two flavours among them), one
\* that no stream is for and one whose rule cannot be read; four advisories.
CONSTANTS
  Parts <- MCParts
  Hosts <- MCHosts
  Streams <- MCStreams
  Advisories <- MCAdvisories
  MaxBroken = 1
SPECIFICATION FairSpec
INVARIANTS NoExposureDropped OrderIndependent PagesAgree RebootCures
PROPERTY AdviceConverges
