\* The embedded node is behind Tor, the user enters a node of his own or the embedded one.
SPECIFICATION LinkFairSpec
CONSTANTS
  home = home n1 = n1 NoNode = NoNode
  Nodes = {n1, home} Default = home Onion = {home}
  MaxCommands = 3
  MaxFaults = 1
INVARIANTS MacaroonFits WedgedForCause
PROPERTIES OverriddenOnlyInARace HealsUnlessHung
CHECK_DEADLOCK FALSE
