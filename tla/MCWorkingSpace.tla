--------------------------- MODULE MCWorkingSpace ---------------------------
(* Constants of the small instances of WorkingSpace.                       *)
EXTENDS WorkingSpace

\* The board shows 09:00 and 09:30 in turn; nothing is booked, so that the
\* gate of controlAPP() is closed on the hour and open at half past.
MCRtcTimes == {[h |-> 9, m |-> 0], [h |-> 9, m |-> 30]}
MCNoBooking == {[h |-> Absent, m |-> Absent]}
=============================================================================
