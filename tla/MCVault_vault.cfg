\* A creation and two more writes of the vault, two crashes or failures.
SPECIFICATION Spec
CONSTANTS
  MaxWrites = 3
  MaxFaults = 2
INVARIANTS SeedOnDisk OpensWhenTold NothingLeft
CHECK_DEADLOCK FALSE
