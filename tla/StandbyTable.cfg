\* One pin, P0, waiting to rise: the smallest table that shows both errors.
CONSTANTS
  Pins = {0, 1}
  P0 = 0
  MaxOn = 0
  Configs <- MCButton
SPECIFICATION StandbySpec
INVARIANT TableAsNamed
