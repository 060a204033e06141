-------------------------- MODULE MCRoomController --------------------------
(* Constants of the small instances of RoomController.                     *)
EXTENDS RoomController

Time(h, m) == [h |-> h, m |-> m]

\* The board keeps UTC: 17:30 and 18:00 local time.  With MCOneBooking and
\* with MCNoBooking the gate of controlAPP() is open at one of them only.
MCTwoRtcTimes == {Time(9, 30), Time(10, 0)}

\* A booking of which only the minutes are stored: reading it opens the gate
\* at 10:00 and closes it at 09:30.
MCOneBooking  == {[h |-> Absent, m |-> 30]}
\* Two bookings that may replace each other.
MCTwoBookings == {Time(17, 30), [h |-> 18, m |-> Absent]}

\* Nothing is booked: the gate compares with the zeros of a fresh start, so
\* that it is closed on the hour.
MCNoBooking == {[h |-> Absent, m |-> Absent]}
=============================================================================
