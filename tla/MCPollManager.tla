---------------------------- MODULE MCPollManager ----------------------------
(* Instances of PollManager: two clusters and a poller for each.             *)
EXTENDS PollManager

CONSTANTS p1, p2, r1, r2

TwoClusters == {1, 2}
TwoPollers == {p1, p2}
TwoRequests == {r1, r2}
AllFaults == {"database", "factory"}
=============================================================================
