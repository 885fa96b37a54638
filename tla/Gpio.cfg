\* Two pins, each for one edge or for both; one of them may be an output.
CONSTANTS
  NUMBER_OF_PINS = 2
  Handlers = {{}, {"pos"}, {"pos", "neg"}}
  Outputs = {1}
SPECIFICATION FairSpec
INVARIANT TypeOK
INVARIANT UnregisteredIsSilent
INVARIANT EnabledIsArmed
INVARIANT EnabledEndsSleep
PROPERTY FieldsDisjoint
PROPERTY OutputsHold
PROPERTY SleepMissesNothing
PROPERTY NeverDeaf
