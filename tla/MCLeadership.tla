---------------------------- MODULE MCLeadership ----------------------------
EXTENDS Leadership, MCController
=============================================================================
