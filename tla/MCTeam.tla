------------------------------- MODULE MCTeam -------------------------------
EXTENDS TeamLifecycle

CONSTANTS P1, P2

TwoInOrder == <<P1, P2>>
=============================================================================
