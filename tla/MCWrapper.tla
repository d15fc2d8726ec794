------------------------------ MODULE MCWrapper ------------------------------
EXTENDS Wrapper

KeySymmetry == Permutations(Keys \ Keyless)
=============================================================================
