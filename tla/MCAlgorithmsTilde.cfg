\* The inputs of MCAlgorithms.cfg.
CONSTANTS
  DebianArches <- MCDebianArches
  Numerals <- MCNumerals
  Leading <- MCLeading
  Texts <- MCTexts
  NamedBuilds <- MCBuilds
  Attempts <- MCAttempts
  Machines <- MCMachines
  Configured <- MCConfigured
  Systems <- MCSystems
  ProductStreams <- MCProductStreams
  Databases <- MCDatabases
SPECIFICATION AlgSpec
INVARIANT TildeSortsFirst
