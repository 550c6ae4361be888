---------------------------- MODULE MCWorkspaces ----------------------------
EXTENDS Workspaces, TLC
Sym == Permutations(Users) \cup Permutations(Orgs) \cup Permutations(Requests)
=============================================================================
