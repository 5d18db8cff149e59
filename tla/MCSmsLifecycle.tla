--------------------------- MODULE MCSmsLifecycle ---------------------------
EXTENDS SmsLifecycle, TLC

Symmetry == Permutations(Messages) \cup Permutations(Handlers)
=============================================================================
