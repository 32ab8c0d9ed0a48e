SPECIFICATION RBSpec
CONSTANTS
  Node <- MCNode
  Key <- MCKey
INVARIANTS SearchTree Balanced LookupsCorrect
