SPECIFICATION Spec
CONSTANTS
  Callers = {run, command}
  Callbacks = {one, two}
  Main = main
  Clients = {c1, c2}
  Configured = 1
  MaxTokens = 4
SYMMETRY Symmetry
INVARIANTS RestartTokenUsable ActivationHolds
