------------------------------- MODULE MCHeal -------------------------------
EXTENDS Heal
=============================================================================
