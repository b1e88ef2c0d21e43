---------------------------- MODULE MCHELIXSync ----------------------------
EXTENDS HELIXSync

CONSTANTS p, a, none

PreambleAndOther == {p, a}
=============================================================================
