------------------------------ MODULE MCContacts ------------------------------
\* Interchangeable requests, addresses and contact ids.
EXTENDS Contacts, TLC
ContactsSymmetry == Permutations(Requests) \cup Permutations(Addresses) \cup Permutations(Ids)
=============================================================================
