-------------------------- MODULE MCLocalGateSlots --------------------------
\* LocalGateSlots on a small host: three sessions, two slots and two logins, of
\* which one is root with a private umask.
EXTENDS LocalGateSlots, TLC

CONSTANTS s1, s2, s3, alice, bob

OneLogin == {alice}
TwoLogins == {alice, bob}
FirstIsAlice == [s \in Session |-> IF s = s1 THEN alice ELSE bob]
=============================================================================
