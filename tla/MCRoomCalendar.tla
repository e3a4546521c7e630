--------------------------- MODULE MCRoomCalendar ---------------------------
(* A room and a resource, days of two parts, one vacation, one kind of series. *)
EXTENDS RoomCalendar, TLC

MCVacations == {<<1, 2>>}
MCForms == {[start |-> 2, end |-> 4, background |-> FALSE],
            [start |-> 1, end |-> Keep, background |-> TRUE]}
NoForms == {}
Weekly == [place |-> CHOOSE p \in Rooms : TRUE, days |-> {0, 1, 3}, from |-> 0, to |-> 1,
           first |-> 0, last |-> LastDay * DayLength, inHolidays |-> FALSE]
MCSeriesForms == {Weekly, [Weekly EXCEPT !.last = 2, !.inHolidays = TRUE]}
MCSymmetry == Permutations(Requests) \cup Permutations(Owners)
=============================================================================
