------------------------------ MODULE MCWebChat ------------------------------
(***************************************************************************)
(* Small instances of the web chat for TLC.                                *)
(***************************************************************************)
EXTENDS WebChat, TLC

CONSTANTS s1, s2, m1, m2, r1, r2, x1, g1, g2, b1, b2

\* Two sessions, a message and a form each.
TwoBrowsers == m1 :> s1 @@ m2 :> s2 @@ r1 :> s1 @@ r2 :> s2
TwoForms == r1 :> s1 @@ r2 :> s2
\* One session does everything.
OneBrowser == [x \in Messages \cup Requests |-> s1]

\* The bookings of two guests: one in the house, one to arrive.
Booked == b1 :> g1 @@ b2 :> g2
Stays == b1 :> [checkIn |-> 0, checkOut |-> 2] @@ b2 :> [checkIn |-> 3, checkOut |-> 4]
\* One booking only, of a guest in the house.
OneBooking == b1 :> g1
Staying == b1 :> [checkIn |-> 0, checkOut |-> 1]
=============================================================================
