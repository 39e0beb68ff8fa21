----------------------------- MODULE MCAlertFeed -----------------------------
(* A TLC instance of AlertFeed: the viewers are of one organization.       *)
EXTENDS AlertFeed

CONSTANTS o1, o2

MCOrgOfConn == [c \in Conns |-> o1]
=============================================================================
