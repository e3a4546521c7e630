--------------------------- MODULE MCHeatingAudit ---------------------------
(* Instances of HeatingAudit for TLC: rooms 1 and 3 share location A, room *)
(* 4, which has no thermostat, is in location B.                           *)
EXTENDS HeatingAudit

mcLocOf  == [r \in Rooms |-> IF r = 4 THEN "B" ELSE "A"]
mcHasAvm == [r \in Rooms |-> r # 4]

configured(season, ambiguous, missing) ==
  [season |-> season, ambiguous |-> ambiguous, missing |-> missing]

mcSeasons   == {configured(TRUE, {}, {}), configured(FALSE, {}, {})}
mcAmbiguous == {configured(TRUE, {"A"}, {})}
mcPlain     == {configured(TRUE, {}, {})}
=============================================================================
