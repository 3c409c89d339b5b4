---------------------------- MODULE MCMembership ----------------------------
EXTENDS Membership
=============================================================================
