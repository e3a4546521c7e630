------------------------------ MODULE Bookings ------------------------------
(***************************************************************************)
(* What the calendar promises about rooms and resources: a booking that was *)
(* made on a valid check overlaps no other one of its place.  A booking     *)
(* whose check was outdated when it was written is in unchecked.            *)
(***************************************************************************)
EXTENDS Naturals

CONSTANTS Ids, Places, Times

Booking == [place : Places, start : Times, end : Times]

VARIABLES
  bookings,   \* a function from the ids of the bookings that stand
  unchecked   \* ids that were ever written on an outdated check
vars == <<bookings, unchecked>>

\* The condition of validateNoOverlap and hasOverlap.
Overlap(a, b) == a.place = b.place /\ a.start < b.end /\ a.end > b.start

\* The ids of b that are new in it or moved.
Written(b) == {i \in DOMAIN b : ~(i \in DOMAIN bookings /\ bookings[i] = b[i])}

Init == bookings = [i \in {} |-> 0] /\ unchecked = {}

\* Bookings go, come and move in one step as they like, but what comes or moves
\* fits in with the other checked ones.
Change ==
  /\ DOMAIN bookings' \subseteq Ids
  /\ bookings' = [i \in DOMAIN bookings' |-> bookings'[i]]
  /\ \A i \in DOMAIN bookings' : bookings'[i] \in Booking
  /\ unchecked \subseteq unchecked' /\ unchecked' \subseteq Ids
  /\ \A i \in Written(bookings') \ unchecked', j \in DOMAIN bookings' \ unchecked' :
       i # j => ~Overlap(bookings'[i], bookings'[j])

Spec == Init /\ [][Change]_vars

-----------------------------------------------------------------------------
\* No two bookings of a place overlap, unless one was written on an outdated check.
Disjoint ==
  \A i, j \in DOMAIN bookings \ unchecked :
    i # j => ~Overlap(bookings[i], bookings[j])
=============================================================================
