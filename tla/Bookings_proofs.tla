--------------------------- MODULE Bookings_proofs ---------------------------
(* The promise of the calendar keeps checked bookings apart, for any number *)
(* of places, ids and times.                                                *)
EXTENDS Bookings, TLAPS

\* Whichever of two bookings was written last, the condition of the overlap
\* queries says the same.
LEMMA OverlapIsSymmetric ==
  ASSUME NEW a, NEW b, Overlap(a, b)
  PROVE  Overlap(b, a)
BY DEF Overlap

\* A step of the calendar leaves no two checked bookings overlapping.
LEMMA ChangeKeepsDisjoint ==
  ASSUME Disjoint, Change
  PROVE  Disjoint'
<1> SUFFICES ASSUME NEW i \in DOMAIN bookings' \ unchecked',
                    NEW j \in DOMAIN bookings' \ unchecked',
                    i # j, Overlap(bookings'[i], bookings'[j])
             PROVE  FALSE
  BY DEF Disjoint
<1>1. CASE i \in Written(bookings')
  BY <1>1 DEF Change
<1>2. CASE j \in Written(bookings')
  BY <1>2, OverlapIsSymmetric DEF Change
<1>3. CASE i \notin Written(bookings') /\ j \notin Written(bookings')
  <2>1. /\ i \in DOMAIN bookings /\ bookings[i] = bookings'[i]
        /\ j \in DOMAIN bookings /\ bookings[j] = bookings'[j]
    BY <1>3 DEF Written
  <2>2. i \notin unchecked /\ j \notin unchecked
    BY DEF Change
  <2> QED
    BY <2>1, <2>2 DEF Disjoint
<1> QED
  BY <1>1, <1>2, <1>3

\* No two bookings of a place overlap unless one of them was written on an
\* outdated check: what validateNoOverlap and hasOverlap are there for.
THEOREM BookingsStayDisjoint == Spec => []Disjoint
<1>1. Init => Disjoint
  BY DEF Init, Disjoint
<1>2. Disjoint /\ [Change]_vars => Disjoint'
  <2>1. CASE UNCHANGED vars
    BY <2>1 DEF vars, Disjoint
  <2> QED
    BY <2>1, ChangeKeepsDisjoint
<1> QED
  BY <1>1, <1>2, PTL DEF Spec
=============================================================================
