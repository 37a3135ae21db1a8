\* Every way to set up, to serve and to tear down, with one signal.
CONSTANT NULL = NULL
SPECIFICATION FairSpec
CHECK_DEADLOCK FALSE
INVARIANTS
  DefinedElsewhere
  SignalTearsDownAlone
  EglTornDown
PROPERTY SignalEnds
