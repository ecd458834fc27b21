----------------------------- MODULE MCContacts -----------------------------
EXTENDS Contacts
CONSTANTS me, friend, double
\* Another device, the command-line tool on it, has the friend's name.
Names == [d \in {me, friend, double} |-> IF d = me THEN "Me" ELSE "Friend"]
=============================================================================
