SPECIFICATION Spec
CONSTANT MaxCalls <- MCMaxCalls
INVARIANTS
  NothingKept
  VaultIsTrusted
\* The run of the process ends, or serves.
CHECK_DEADLOCK FALSE
