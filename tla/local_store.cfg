\* One call of any kind, on this machine or over SSH, among two objects, a
\* derivation and an output, while Nix locks, builds and collects them.
SPECIFICATION Spec
CONSTANTS
  out = out
  drv = drv
  n1 = n1
  n2 = n2
  local = local
  ssh = ssh
  None = None
  Objects <- MCObjects
  Derivations <- MCDerivations
  Nars <- MCNars
  Clients <- MCClients
  Remote <- MCRemote
  Faulty = TRUE
  MaxBuilds = 1
  MaxCalls = 1
INVARIANTS
  AnswersWereTrue
  BatchFindsKept
PROPERTIES
  NARInfoFindsKeptUnlessLocked
\* When all calls and builds have been made, the run is over.
CHECK_DEADLOCK FALSE
