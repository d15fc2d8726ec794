-------------------------- MODULE MCCodexInstaller --------------------------
EXTENDS CodexInstaller, TLC

CONSTANTS x, y

\* bound: a file has one of two entries, or none
OneEntry == {{}, {x}, {y}}

Symmetry == Permutations(Hooks) \cup Permutations({x, y})
=============================================================================
