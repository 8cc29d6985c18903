------------------------ MODULE NotificationWorkerMC ------------------------
(* Small instances of NotificationWorker for TLC. *)
EXTENDS NotificationWorker

CONSTANTS s1, s2, w1, w2, p1, p2, d1

OneEach == [s \in Submissions |-> IF s = s1 THEN w1 ELSE w2]
=============================================================================
