----------------------------- MODULE MCCodeIndex -----------------------------
EXTENDS CodeIndex, TLC
CodeSymmetry == Permutations(Docs) \cup Permutations(Sha) \cup Permutations(CodeBuild) \cup Permutations(CodeCall)
=============================================================================
