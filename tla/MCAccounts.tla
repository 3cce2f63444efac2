----------------------------- MODULE MCAccounts -----------------------------
EXTENDS Accounts, TLC

CONSTANTS chief, ann, bob, r1, r2

\* Threads are interchangeable, and so are the addresses not in ADMIN_EMAILS.
Symmetry == Permutations(Requests) \union Permutations(Emails \ Listed)
=============================================================================
