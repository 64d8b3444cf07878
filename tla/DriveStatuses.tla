---------------------------- MODULE DriveStatuses ----------------------------
(* The statuses of a drive, shared by the modules that move drives and the   *)
(* modules that only need to know how a drive may move under them.           *)

\* DriveStatus, but for DRAFT: to bookings and check-ins a draft is the same
\* as a drive waiting for approval.
Statuses == {"LIVE", "PENDING", "SUSPENDED", "CANCELLED", "EXPIRED"}

\* How the status moves once a drive has been live, other than by expiring:
\* moderation, and submissions and cancellations that were stale when written.
StatusMoves ==
    ({"LIVE", "PENDING"} \X {"SUSPENDED", "CANCELLED"})
    \cup ({"SUSPENDED", "EXPIRED"} \X {"CANCELLED"})
    \cup ({"SUSPENDED", "PENDING"} \X {"LIVE"})
    \cup ({"LIVE", "SUSPENDED", "CANCELLED"} \X {"PENDING"})
=============================================================================
