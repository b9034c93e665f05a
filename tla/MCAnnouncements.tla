-------------------------- MODULE MCAnnouncements --------------------------
(* A small instance of Announcements.                                      *)
EXTENDS Announcements, TLC

CONSTANTS r1, a1, a2, x1

\* One administrator does everything, the other deletes what the first may be
\* changing.
TwoAdmins == (a1 :> {"create", "update", "delete", "refresh"}) @@ (a2 :> {"delete"})
=============================================================================
