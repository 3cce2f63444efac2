--------------------------- MODULE MCAiCredential ---------------------------
EXTENDS AiCredential, TLC

CONSTANTS r1, r2

\* Two requests of the account at once, in either role.
MCRequests == {r1, r2}
\* Enough to save a key over a plan, a plan over a key, and either twice at once.
MCKeys == {[provider |-> "anthropic", serial |-> 1]}
MCNoKeys == {}
Symmetry == Permutations(MCRequests)
=============================================================================
