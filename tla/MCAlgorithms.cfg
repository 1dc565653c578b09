\* All pairs of texts of up to three characters, and the builds, attempts and machines of MCAlgorithms.
CONSTANTS
  DebianArches <- MCDebianArches
  Numerals <- MCNumerals
  Leading <- MCLeading
  Texts <- MCTexts
  NamedBuilds <- MCBuilds
  Attempts <- MCAttempts
  Machines <- MCMachines
  Configured <- MCConfigured
  Systems <- MCSystems
  ProductStreams <- MCProductStreams
  Databases <- MCDatabases
SPECIFICATION AlgSpec
INVARIANTS VersionOrder ReadsBack BackoffBounded ReportsAlike ScopesApart
