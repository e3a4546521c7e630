----------------------- MODULE FritzConnection_proofs -----------------------
(***************************************************************************)
(* Theorems about FritzConnection, for any credentials, any number of      *)
(* faults and changes of credentials, and any number of callers unless a   *)
(* single one is assumed by name.                                          *)
(***************************************************************************)
EXTENDS FritzConnection, TLAPS

USE NamesAssumption

(* A caller beyond the database read works on an object and has read       *)
(* credentials.                                                            *)
RefsAreBoxes ==
  \A c \in Callers : pc[c] \in {"removing", "connecting", "using", "invalidating"} => ref[c] \in Boxes

Typed == TypeOK /\ RefsAreBoxes

LEMMA TypedInit == Init => Typed
BY DEF Init, Typed, TypeOK, RefsAreBoxes, Fresh, Steps, Outcomes, BoxRecords

(* What the settled promise of c leaves behind is well typed.              *)
LEMMA ResolvedTypes ==
  ASSUME Typed, NEW c \in Callers, NEW b \in Boxes, resolved(c, b)
  PROVE  /\ pending' \in Callers \cup {None}
         /\ pc' \in [Callers -> Steps]
         /\ ref' \in [Callers -> Boxes \cup {None}]
         /\ outcome' \in [Callers -> Outcomes]
         /\ RefsAreBoxes'
BY DEF Typed, TypeOK, RefsAreBoxes, resolved, sharers, Steps, Outcomes

LEMMA RejectedTypes ==
  ASSUME Typed, NEW c \in Callers, NEW cause \in Outcomes, rejected(c, cause)
  PROVE  /\ pending' \in Callers \cup {None}
         /\ pc' \in [Callers -> Steps]
         /\ ref' \in [Callers -> Boxes \cup {None}]
         /\ outcome' \in [Callers -> Outcomes]
         /\ RefsAreBoxes'
BY DEF Typed, TypeOK, RefsAreBoxes, rejected, sharers, Steps, Outcomes

LEMMA GotoTypes ==
  ASSUME Typed, NEW c \in Callers, NEW where \in Steps, NEW b \in Boxes \cup {None},
         goto(c, where), ref' = [ref EXCEPT ![c] = b],
         b \in Boxes \/ where \notin {"removing", "connecting", "using", "invalidating"}
  PROVE  /\ pc' \in [Callers -> Steps]
         /\ ref' \in [Callers -> Boxes \cup {None}]
         /\ RefsAreBoxes'
BY DEF Typed, TypeOK, RefsAreBoxes, goto

LEMMA AddTypes ==
  ASSUME Typed, NEW c \in Callers, NEW creds \in Credentials \cup {None},
         NEW boxes \in [Boxes -> BoxRecords], NEW entry,
         addAndConnect(c, creds, boxes, entry)
  PROVE  /\ box' \in [Boxes -> BoxRecords]
         /\ registered' \in Boxes \cup {None}
         /\ fingerprint' \in Credentials \cup {None}
         /\ pending' \in Callers \cup {None}
         /\ pc' \in [Callers -> Steps]
         /\ ref' \in [Callers -> Boxes \cup {None}]
         /\ outcome' \in [Callers -> Outcomes]
         /\ RefsAreBoxes'
<1>1. CASE entry # None
  BY <1>1, RejectedTypes DEF addAndConnect, Typed, TypeOK, Outcomes
<1>2. CASE entry = None
  <2>1. PICK b \in unusedBoxes :
          /\ box' = [boxes EXCEPT ![b] = [creds |-> creds, state |-> "connecting", sid |-> FALSE]]
          /\ registered' = b /\ fingerprint' = creds
          /\ ref' = [ref EXCEPT ![c] = b]
          /\ pc' = [pc EXCEPT ![c] = "connecting"]
          /\ UNCHANGED <<pending, outcome>>
    BY <1>2 DEF addAndConnect, goto
  <2>2. b \in Boxes
    BY DEF unusedBoxes
  <2>3. box' \in [Boxes -> BoxRecords]
    BY <2>1, <2>2 DEF BoxRecords
  <2>4. pc' \in [Callers -> Steps] /\ ref' \in [Callers -> Boxes \cup {None}]
    BY <2>1, <2>2 DEF Typed, TypeOK, Steps
  <2>5. RefsAreBoxes'
    BY <2>1, <2>2 DEF Typed, TypeOK, RefsAreBoxes
  <2>6. registered' \in Boxes \cup {None} /\ fingerprint' \in Credentials \cup {None}
    BY <2>1, <2>2
  <2>7. pending' \in Callers \cup {None} /\ outcome' \in [Callers -> Outcomes]
    BY <2>1 DEF Typed, TypeOK, Outcomes
  <2> QED
    BY <2>3, <2>4, <2>5, <2>6, <2>7
<1> QED
  BY <1>1, <1>2

LEMMA SidTypes ==
  ASSUME Typed, NEW b \in Boxes, NEW sid \in BOOLEAN
  PROVE  [box EXCEPT ![b].sid = sid] \in [Boxes -> BoxRecords]
BY DEF Typed, TypeOK, BoxRecords

LEMMA StateTypes ==
  ASSUME Typed, NEW b \in Boxes, NEW state \in {"disconnected", "connecting", "connected"}
  PROVE  [box EXCEPT ![b].state = state] \in [Boxes -> BoxRecords]
BY DEF Typed, TypeOK, BoxRecords

LEMMA StateSidTypes ==
  ASSUME Typed, NEW b \in Boxes, NEW sid \in BOOLEAN,
         NEW state \in {"disconnected", "connecting", "connected"}
  PROVE  [box EXCEPT ![b].state = state, ![b].sid = sid] \in [Boxes -> BoxRecords]
<1>1. box \in [Boxes -> BoxRecords]
  BY DEF Typed, TypeOK
<1>2. box[b] \in BoxRecords
  BY <1>1
<1>3. [box[b] EXCEPT !.state = state, !.sid = sid] \in BoxRecords
  BY <1>2 DEF BoxRecords
<1> QED
  BY <1>1, <1>3

LEMMA BoxTypes ==
  ASSUME Typed, NEW b \in Boxes
  PROVE  /\ disconnected(b) \in [Boxes -> BoxRecords]
         /\ [box EXCEPT ![b].sid = FALSE] \in [Boxes -> BoxRecords]
         /\ [box EXCEPT ![b].sid = TRUE] \in [Boxes -> BoxRecords]
         /\ [box EXCEPT ![b].state = "connecting"] \in [Boxes -> BoxRecords]
         /\ [box EXCEPT ![b].state = "connected", ![b].sid = TRUE] \in [Boxes -> BoxRecords]
<1>1. [box EXCEPT ![b].sid = FALSE] \in [Boxes -> BoxRecords] /\ [box EXCEPT ![b].sid = TRUE] \in [Boxes -> BoxRecords]
  BY SidTypes, TRUE \in BOOLEAN, FALSE \in BOOLEAN, Zenon
<1>2. [box EXCEPT ![b].state = "connecting"] \in [Boxes -> BoxRecords]
  BY StateTypes, Zenon
<1>3. [box EXCEPT ![b].state = "connected", ![b].sid = TRUE] \in [Boxes -> BoxRecords]
  BY StateSidTypes, TRUE \in BOOLEAN, Zenon
<1>4. disconnected(b) \in [Boxes -> BoxRecords]
  BY StateTypes, Zenon DEF disconnected
<1> QED
  BY <1>1, <1>2, <1>3, <1>4

LEMMA LogoutTypes ==
  ASSUME Typed, NEW b \in Boxes, logout(b)
  PROVE  sessions' \subseteq Boxes /\ lost' \subseteq Boxes
BY DEF Typed, TypeOK, logout

LEMMA LoadTypes ==
  ASSUME Typed, NEW c \in Callers, loadConnection(c)
  PROVE  Typed'
<1> USE DEF Typed, TypeOK
<1>1. UNCHANGED <<stored, online, sessions, orphans, lost, mishaps, edits>>
  BY DEF loadConnection
<1>2. {"load_failed"} \cup NoCredentials \subseteq Outcomes
  BY DEF Outcomes
<1>3. ASSUME NEW cause \in Outcomes, rejected(c, cause), faults' \in Nat,
             UNCHANGED <<conn, box, registered, fingerprint>>
      PROVE  Typed'
  BY <1>1, <1>3, RejectedTypes
<1>4. CASE stored \in Credentials /\ conn' = [conn EXCEPT ![c] = stored] /\ UNCHANGED faults
  <2>0. conn' \in [Callers -> Credentials \cup {None}]
    BY <1>4
  <2>1. CASE registered = None /\ addAndConnect(c, stored, box, None)
    BY <1>1, <1>4, <2>0, <2>1, AddTypes
  <2>2. CASE registered # None /\ startLogout(c, box, "removing") /\ UNCHANGED <<pending, outcome>>
    <3>1. registered \in Boxes /\ "removing" \in Steps
      BY <2>2 DEF Steps
    <3>2. pc' \in [Callers -> Steps] /\ ref' \in [Callers -> Boxes \cup {None}] /\ RefsAreBoxes'
      BY <2>2, <3>1, GotoTypes DEF startLogout
    <3> QED
      BY <1>1, <1>4, <2>0, <2>2, <3>1, <3>2, BoxTypes DEF startLogout
  <2>3. CASE registered # None /\ addAndConnect(c, stored, disconnected(registered), None)
    BY <1>1, <1>4, <2>0, <2>3, AddTypes, BoxTypes
  <2>4. CASE registered # None /\ resolved(c, registered) /\ UNCHANGED <<box, registered, fingerprint>>
    BY <1>1, <1>4, <2>0, <2>4, ResolvedTypes
  <2>5. CASE /\ registered # None
             /\ box' = [box EXCEPT ![registered].state = "connecting"]
             /\ ref' = [ref EXCEPT ![c] = registered]
             /\ goto(c, "connecting")
             /\ UNCHANGED <<pending, outcome, registered, fingerprint>>
    <3>1. registered \in Boxes /\ "connecting" \in Steps
      BY <2>5 DEF Steps
    <3>2. pc' \in [Callers -> Steps] /\ ref' \in [Callers -> Boxes \cup {None}] /\ RefsAreBoxes'
      BY <2>5, <3>1, GotoTypes
    <3> QED
      BY <1>1, <1>4, <2>0, <2>5, <3>1, <3>2, BoxTypes
  <2> QED
    BY <1>4, <2>1, <2>2, <2>3, <2>4, <2>5 DEF loadConnection
<1> QED
  BY <1>2, <1>3, <1>4 DEF loadConnection

LEMMA MishapTypes ==
  ASSUME Typed, NEW count \in Nat, NEW left \in Nat, mishap(count, left)
  PROVE  mishaps' \in Nat /\ orphans' \in Nat
BY DEF Typed, TypeOK, mishap

(* What a login or a command leaves behind: a number of mishaps and a      *)
(* number of sessions.                                                     *)
mishapped == \E count, left \in Nat : mishap(count, left)

LEMMA ConnectMishaps ==
  ASSUME NEW c \in Callers, connect(c)
  PROVE  mishapped
<1>1. \A n \in 0..MaxAttempts : n \in Nat /\ n + held(ref[c]) \in Nat
  BY DEF MaxAttempts, held
<1>2. 0..(MaxAttempts - 1) \subseteq 0..MaxAttempts /\ 0 \in Nat
  BY DEF MaxAttempts
<1> QED
  BY <1>1, <1>2 DEF connect, mishapped

LEMMA UseMishaps ==
  ASSUME NEW c \in Callers, useConnection(c)
  PROVE  mishapped
<1>1. \A n \in 0..MaxAttempts : refused(ref[c]) + n \in Nat /\ n + held(ref[c]) \in Nat
  BY DEF MaxAttempts, held, refused
<1>2. 0..(MaxAttempts - 1) \subseteq 0..MaxAttempts /\ 0 \in Nat
  BY DEF MaxAttempts
<1> QED
  BY <1>1, <1>2 DEF useConnection, mishapped

LEMMA ConnectTypes ==
  ASSUME Typed, NEW c \in Callers, connect(c)
  PROVE  Typed'
<1> DEFINE b == ref[c]
<1>1. b \in Boxes /\ UNCHANGED <<stored, online, registered, fingerprint, conn, faults, edits>>
  BY DEF connect, Typed, RefsAreBoxes
<1>2. box' \in [Boxes -> BoxRecords] /\ sessions' \subseteq Boxes /\ lost' \subseteq Boxes
  <2>1. disconnected(b) = [box EXCEPT ![b].state = "disconnected"]
    BY DEF disconnected
  <2>2. CASE /\ box' = [box EXCEPT ![b].state = "connected", ![b].sid = TRUE]
             /\ \/ UNCHANGED <<sessions, lost>>
                \/ sessions' = sessions \cup {b} /\ lost' = lost \ {b}
    <3>1. box' \in [Boxes -> BoxRecords]
      BY <1>1, <2>2, BoxTypes
    <3> QED
      BY <1>1, <2>2, <3>1 DEF Typed, TypeOK
  <2>3. CASE box' = disconnected(b) /\ UNCHANGED <<sessions, lost>>
    BY <1>1, <2>3, BoxTypes DEF Typed, TypeOK
  <2> QED
    BY <2>1, <2>2, <2>3 DEF connect
<1>3. resolved(c, b) \/ rejected(c, "FRITZBOX_UNREACHABLE")
  BY DEF connect
<1>4. "FRITZBOX_UNREACHABLE" \in Outcomes
  BY DEF Outcomes
<1>5. mishaps' \in Nat /\ orphans' \in Nat
  BY ConnectMishaps, MishapTypes DEF mishapped
<1> QED
  BY <1>1, <1>2, <1>3, <1>4, <1>5, ResolvedTypes, RejectedTypes DEF Typed, TypeOK

LEMMA InvalidationTypes ==
  ASSUME Typed, NEW c \in Callers, NEW boxes \in [Boxes -> BoxRecords], startInvalidation(c, boxes)
  PROVE  /\ box' \in [Boxes -> BoxRecords]
         /\ registered' \in Boxes \cup {None}
         /\ fingerprint' \in Credentials \cup {None}
         /\ pc' \in [Callers -> Steps]
         /\ ref' \in [Callers -> Boxes \cup {None}]
         /\ RefsAreBoxes'
<1>1. {"idle", "invalidating"} \subseteq Steps
  BY DEF Steps
<1>2. registered \in Boxes \cup {None}
  BY DEF Typed, TypeOK
<1>3. CASE registered # None /\ startLogout(c, boxes, "invalidating")
  <2>1. box' \in [Boxes -> BoxRecords]
    BY <1>2, <1>3 DEF startLogout, BoxRecords
  <2>2. pc' \in [Callers -> Steps] /\ ref' \in [Callers -> Boxes \cup {None}] /\ RefsAreBoxes'
    BY <1>1, <1>2, <1>3, GotoTypes DEF startLogout
  <2> QED
    BY <1>2, <1>3, <2>1, <2>2 DEF startLogout
<1>4. CASE /\ fingerprint' = None /\ registered' = None
           /\ box' = IF registered # None
                     THEN [boxes EXCEPT ![registered].state = "disconnected"] ELSE boxes
           /\ goto(c, "idle") /\ ref' = [ref EXCEPT ![c] = None]
  <2>1. box' \in [Boxes -> BoxRecords]
    BY <1>2, <1>4 DEF BoxRecords
  <2>2. pc' \in [Callers -> Steps] /\ ref' \in [Callers -> Boxes \cup {None}] /\ RefsAreBoxes'
    BY <1>1, <1>4, GotoTypes
  <2> QED
    BY <1>4, <2>1, <2>2
<1> QED
  BY <1>3, <1>4 DEF startInvalidation

LEMMA UseTypes ==
  ASSUME Typed, NEW c \in Callers, useConnection(c)
  PROVE  Typed'
<1>1. /\ ref[c] \in Boxes /\ "idle" \in Steps
      /\ UNCHANGED <<stored, online, pending, conn, outcome, lost, faults, edits>>
  BY DEF useConnection, Typed, RefsAreBoxes, Steps
<1>2. mishaps' \in Nat /\ orphans' \in Nat
  BY UseMishaps, MishapTypes DEF mishapped
<1>3. CASE /\ box' = [box EXCEPT ![ref[c]].sid = TRUE] /\ sessions' = sessions \cup {ref[c]}
           /\ goto(c, "idle") /\ ref' = [ref EXCEPT ![c] = None]
           /\ UNCHANGED <<registered, fingerprint>>
  <2>1. pc' \in [Callers -> Steps] /\ ref' \in [Callers -> Boxes \cup {None}] /\ RefsAreBoxes'
    BY <1>1, <1>3, GotoTypes
  <2> QED
    BY <1>1, <1>2, <1>3, <2>1, BoxTypes DEF Typed, TypeOK
<1>4. CASE \E boxes \in {box, [box EXCEPT ![ref[c]].sid = FALSE]} :
             startInvalidation(c, boxes) /\ sessions' \subseteq sessions
  <2>1. PICK boxes \in {box, [box EXCEPT ![ref[c]].sid = FALSE]} : startInvalidation(c, boxes)
    BY <1>4
  <2>2. boxes \in [Boxes -> BoxRecords]
    <3>1. box \in [Boxes -> BoxRecords]
      BY DEF Typed, TypeOK
    <3>2. boxes = box \/ boxes = [box EXCEPT ![ref[c]].sid = FALSE]
      BY <2>1
    <3>3. [box EXCEPT ![ref[c]].sid = FALSE] \in [Boxes -> BoxRecords]
      BY <1>1, BoxTypes, Zenon
    <3> QED
      BY <3>1, <3>2, <3>3, Zenon
  <2> QED
    BY <1>1, <1>2, <1>4, <2>1, <2>2, InvalidationTypes DEF Typed, TypeOK
<1> QED
  BY <1>3, <1>4 DEF useConnection

LEMMA TypedNext == Typed /\ [Next]_vars => Typed'
<1> SUFFICES ASSUME Typed, [Next]_vars PROVE Typed'
  OBVIOUS
<1> USE DEF Typed, TypeOK
<1>1. {"idle", "load", "joined"} \subseteq Steps
  BY DEF Steps
<1>2. ASSUME NEW c \in Callers, getConnection(c) PROVE Typed'
  BY <1>1, <1>2 DEF getConnection, goto, RefsAreBoxes
<1>3. ASSUME NEW c \in Callers, finishRemoval(c) PROVE Typed'
  <2>1. ref[c] \in Boxes
    BY <1>3 DEF finishRemoval, RefsAreBoxes
  <2>2. PICK entry : addAndConnect(c, conn[c], disconnected(ref[c]), entry)
    BY <1>3 DEF finishRemoval
  <2>3. logout(ref[c]) /\ UNCHANGED <<stored, online, orphans, conn, faults, mishaps, edits>>
    BY <1>3 DEF finishRemoval
  <2> QED
    BY <2>1, <2>2, <2>3, BoxTypes, LogoutTypes, AddTypes
<1>4. ASSUME NEW c \in Callers, invalidate(c) PROVE Typed'
  <2>1. ref[c] \in Boxes
    BY <1>4 DEF invalidate, RefsAreBoxes
  <2>2. pc' \in [Callers -> Steps] /\ ref' \in [Callers -> Boxes \cup {None}] /\ RefsAreBoxes'
    BY <1>1, <1>4, GotoTypes DEF invalidate
  <2> QED
    BY <1>4, <2>1, <2>2, BoxTypes, LogoutTypes DEF invalidate
<1>5. CASE changeCredentials
  BY <1>5 DEF changeCredentials, client, RefsAreBoxes
<1>6. CASE boxComesOrGoes
  BY <1>6 DEF boxComesOrGoes, client, RefsAreBoxes
<1>7. CASE sessionExpires
  BY <1>7 DEF sessionExpires, client, RefsAreBoxes
<1>8. CASE UNCHANGED vars
  BY <1>8 DEF vars, RefsAreBoxes
<1> QED
  BY <1>2, <1>3, <1>4, <1>5, <1>6, <1>7, <1>8, LoadTypes, ConnectTypes, UseTypes DEF Next, Call

(* The types and shapes hold in every reachable state of FritzConnection.    *)
LEMMA TypedAlways == Spec => []Typed
BY TypedInit, TypedNext, PTL DEF Spec

(* The state of the connection manager, of its objects and of its callers  *)
(* keeps its shape, whatever fails.                                        *)
THEOREM TypeCorrect == Spec => []TypeOK
<1>1. Typed => TypeOK
  BY DEF Typed
<1> QED
  BY <1>1, TypedAlways, PTL

-----------------------------------------------------------------------------
(* Callers: what a call does to its program counter and to `pending'.      *)

joins(c) == pc[c] = "idle" /\ pending # None /\ pc' = [pc EXCEPT ![c] = "joined"] /\ UNCHANGED pending
begins(c) == pc[c] = "idle" /\ pending = None /\ pc' = [pc EXCEPT ![c] = "load"] /\ pending' = c
goesOn(c) ==
  /\ Resolving(c) /\ UNCHANGED pending
  /\ \E where \in {"removing", "connecting"} : pc' = [pc EXCEPT ![c] = where]
settles(c) ==
  /\ Resolving(c) /\ pending' = None
  /\ \E where \in {"idle", "using"} :
       pc' = [d \in Callers |-> IF d \in sharers(c) THEN where ELSE pc[d]]
works(c) ==
  /\ pc[c] \in {"using", "invalidating"} /\ UNCHANGED pending
  /\ \E where \in {"idle", "invalidating"} : pc' = [pc EXCEPT ![c] = where]

LEMMA AddSteps ==
  ASSUME NEW c \in Callers, Resolving(c), NEW creds, NEW boxes, NEW entry,
         addAndConnect(c, creds, boxes, entry)
  PROVE  goesOn(c) \/ settles(c)
<1>1. CASE entry # None
  BY <1>1 DEF addAndConnect, rejected, settles
<1>2. CASE entry = None
  BY <1>2 DEF addAndConnect, goto, goesOn
<1> QED
  BY <1>1, <1>2

LEMMA CallSteps ==
  ASSUME NEW c \in Callers, Call(c)
  PROVE  joins(c) \/ begins(c) \/ goesOn(c) \/ settles(c) \/ works(c)
<1>1. CASE getConnection(c)
  BY <1>1 DEF getConnection, goto, joins, begins
<1>2. CASE loadConnection(c)
  <2>1. Resolving(c)
    BY <1>2 DEF loadConnection, Resolving
  <2>2. ASSUME NEW cause, rejected(c, cause) PROVE settles(c)
    BY <2>1, <2>2 DEF rejected, settles
  <2>3. ASSUME NEW b, resolved(c, b) PROVE settles(c)
    BY <2>1, <2>3 DEF resolved, settles
  <2>4. ASSUME startLogout(c, box, "removing"), UNCHANGED pending PROVE goesOn(c)
    BY <2>1, <2>4 DEF startLogout, goto, goesOn
  <2>5. ASSUME goto(c, "connecting"), UNCHANGED pending PROVE goesOn(c)
    BY <2>1, <2>5 DEF goto, goesOn
  <2> QED
    BY <1>2, <2>1, <2>2, <2>3, <2>4, <2>5, AddSteps DEF loadConnection
<1>3. CASE finishRemoval(c)
  BY <1>3, AddSteps DEF finishRemoval, Resolving
<1>4. CASE connect(c)
  BY <1>4 DEF connect, resolved, rejected, settles, Resolving
<1>5. CASE useConnection(c)
  <2>1. ASSUME NEW boxes, startInvalidation(c, boxes)
        PROVE  \E where \in {"idle", "invalidating"} : pc' = [pc EXCEPT ![c] = where]
    BY <2>1 DEF startInvalidation, startLogout, goto
  <2> QED
    BY <1>5, <2>1 DEF useConnection, goto, works
<1>6. CASE invalidate(c)
  BY <1>6 DEF invalidate, goto, works
<1> QED
  BY <1>1, <1>2, <1>3, <1>4, <1>5, <1>6 DEF Call

LEMMA EnvironmentSteps ==
  ASSUME changeCredentials \/ boxComesOrGoes \/ sessionExpires \/ UNCHANGED vars
  PROVE  UNCHANGED client
BY DEF changeCredentials, boxComesOrGoes, sessionExpires, vars, client

(* While a promise is pending, the call that made it is under way.         *)
PendingIsUnderWay == pending # None => pending \in Callers /\ Resolving(pending)

LEMMA OneConnectionNext ==
  ASSUME Typed, OneConnectionAtATime, PendingIsUnderWay, [Next]_vars
  PROVE  OneConnectionAtATime' /\ PendingIsUnderWay'
<1> USE DEF OneConnectionAtATime, PendingIsUnderWay
<1>1. pc \in [Callers -> Steps] /\ None \notin Callers
  BY DEF Typed, TypeOK
<1>2. CASE UNCHANGED client
  BY <1>2 DEF client, Resolving
<1>3. ASSUME NEW c \in Callers, joins(c) PROVE OneConnectionAtATime' /\ PendingIsUnderWay'
  BY <1>1, <1>3 DEF joins, Resolving
<1>4. ASSUME NEW c \in Callers, begins(c) PROVE OneConnectionAtATime' /\ PendingIsUnderWay'
  BY <1>1, <1>4 DEF begins, Resolving
<1>5. ASSUME NEW c \in Callers, goesOn(c) PROVE OneConnectionAtATime' /\ PendingIsUnderWay'
  BY <1>1, <1>5 DEF goesOn, Resolving
<1>6. ASSUME NEW c \in Callers, settles(c) PROVE OneConnectionAtATime' /\ PendingIsUnderWay'
  BY <1>1, <1>6 DEF settles, Resolving, sharers
<1>7. ASSUME NEW c \in Callers, works(c) PROVE OneConnectionAtATime' /\ PendingIsUnderWay'
  BY <1>1, <1>7 DEF works, Resolving
<1> QED
  BY <1>2, <1>3, <1>4, <1>5, <1>6, <1>7, CallSteps, EnvironmentSteps DEF Next

(* Of any number of callers one at a time connects, those that share its   *)
(* promise are never left with one that is gone: what `pending' is for.    *)
THEOREM OneCallerConnects == Spec => []OneConnectionAtATime
<1>1. Init => OneConnectionAtATime /\ PendingIsUnderWay
  BY DEF Init, OneConnectionAtATime, PendingIsUnderWay, Resolving
<1>2. Typed /\ OneConnectionAtATime /\ PendingIsUnderWay /\ [Next]_vars
        => OneConnectionAtATime' /\ PendingIsUnderWay'
  BY OneConnectionNext
<1> QED
  BY <1>1, <1>2, TypedAlways, PTL DEF Spec

-----------------------------------------------------------------------------
(* Objects and their credentials.                                          *)

(* A step adds an object built from the credentials the call has read, or  *)
(* leaves the credentials of all objects and what is registered alone.     *)
adds(c) ==
  \E b \in unusedBoxes :
    /\ box'[b].creds = conn'[c] /\ \A d \in Boxes \ {b} : box'[d].creds = box[d].creds
    /\ registered' = b /\ fingerprint' = conn'[c]
    /\ ref' = [ref EXCEPT ![c] = b] /\ pc' = [pc EXCEPT ![c] = "connecting"]
keeps ==
  /\ \A b \in Boxes : box'[b].creds = box[b].creds
  /\ registered' \in {registered, None} /\ fingerprint' \in {fingerprint, None}

LEMMA AddsOrKeeps ==
  ASSUME Typed, NEW c \in Callers, NEW creds, creds = conn'[c],
         NEW boxes \in [Boxes -> BoxRecords], \A b \in Boxes : boxes[b].creds = box[b].creds,
         NEW entry \in {registered, None}, addAndConnect(c, creds, boxes, entry)
  PROVE  \/ adds(c)
         \/ entry # None /\ keeps /\ rejected(c, "duplicate_id")
<1>1. CASE entry # None
  BY <1>1 DEF addAndConnect, keeps
<1>2. CASE entry = None
  <2>1. PICK b \in unusedBoxes :
          /\ box' = [boxes EXCEPT ![b] = [creds |-> creds, state |-> "connecting", sid |-> FALSE]]
          /\ registered' = b /\ fingerprint' = creds
          /\ ref' = [ref EXCEPT ![c] = b]
          /\ pc' = [pc EXCEPT ![c] = "connecting"]
    BY <1>2 DEF addAndConnect, goto
  <2>2. box'[b].creds = creds /\ \A d \in Boxes \ {b} : box'[d].creds = box[d].creds
    BY <2>1 DEF unusedBoxes
  <2>3. adds(c)
    BY <2>1, <2>2, Zenon DEF adds
  <2> QED
    BY <2>3, Zenon
<1> QED
  BY <1>1, <1>2

LEMMA DisconnectedKeepsCreds ==
  ASSUME Typed, NEW b \in Boxes
  PROVE  /\ disconnected(b) \in [Boxes -> BoxRecords]
         /\ \A d \in Boxes : disconnected(b)[d].creds = box[d].creds
<1>1. disconnected(b) \in [Boxes -> BoxRecords]
  BY BoxTypes, Zenon
<1>2. ASSUME NEW d \in Boxes PROVE disconnected(b)[d].creds = box[d].creds
  BY DEF Typed, TypeOK, BoxRecords, disconnected
<1> QED
  BY <1>1, <1>2

(* The changes the code makes to an object once it is built.               *)
changes(b) ==
  \/ box' = disconnected(b)
  \/ box' = [box EXCEPT ![b].state = "connecting"]
  \/ box' = [box EXCEPT ![b].sid = FALSE]
  \/ box' = [box EXCEPT ![b].sid = TRUE]
  \/ box' = [box EXCEPT ![b].state = "connected", ![b].sid = TRUE]

LEMMA ChangesKeepCreds ==
  ASSUME Typed, NEW b \in Boxes, changes(b)
  PROVE  /\ \A d \in Boxes : box'[d].creds = box[d].creds
         /\ \A d \in Boxes \ {b} : box'[d] = box[d]
<1> USE DEF Typed, TypeOK, BoxRecords
<1>1. CASE box' = disconnected(b)
  BY <1>1 DEF disconnected
<1>2. CASE box' = [box EXCEPT ![b].state = "connecting"]
  BY <1>2
<1>3. CASE box' = [box EXCEPT ![b].sid = FALSE]
  BY <1>3
<1>4. CASE box' = [box EXCEPT ![b].sid = TRUE]
  BY <1>4
<1>5. CASE box' = [box EXCEPT ![b].state = "connected", ![b].sid = TRUE]
  BY <1>5
<1> QED
  BY <1>1, <1>2, <1>3, <1>4, <1>5, Zenon DEF changes

LEMMA LogoutKeepsCreds ==
  ASSUME Typed, NEW c \in Callers, NEW where, registered # None,
         NEW boxes \in [Boxes -> BoxRecords], \A b \in Boxes : boxes[b].creds = box[b].creds,
         startLogout(c, boxes, where)
  PROVE  keeps
BY DEF Typed, TypeOK, BoxRecords, startLogout, keeps

LEMMA InvalidationKeepsCreds ==
  ASSUME Typed, NEW c \in Callers,
         NEW boxes \in [Boxes -> BoxRecords], \A b \in Boxes : boxes[b].creds = box[b].creds,
         startInvalidation(c, boxes)
  PROVE  keeps
<1>1. CASE registered # None /\ startLogout(c, boxes, "invalidating")
  BY <1>1, LogoutKeepsCreds
<1>2. CASE /\ fingerprint' = None /\ registered' = None
           /\ box' = IF registered # None
                     THEN [boxes EXCEPT ![registered].state = "disconnected"] ELSE boxes
  BY <1>2 DEF Typed, TypeOK, BoxRecords, keeps
<1> QED
  BY <1>1, <1>2 DEF startInvalidation

LEMMA CallCreds ==
  ASSUME Typed, NEW c \in Callers, Call(c)
  PROVE  adds(c) \/ keeps
<1> USE DEF Typed, TypeOK
<1>1. CASE getConnection(c)
  BY <1>1 DEF getConnection, keeps
<1>2. CASE loadConnection(c)
  <2>1. CASE UNCHANGED <<box, registered, fingerprint>>
    BY <2>1 DEF keeps
  <2>2. CASE registered # None /\ startLogout(c, box, "removing")
    BY <2>2, LogoutKeepsCreds
  <2>3. CASE registered # None /\ box' = [box EXCEPT ![registered].state = "connecting"]
             /\ UNCHANGED <<registered, fingerprint>>
    BY <2>3, ChangesKeepCreds DEF keeps, changes
  <2>4. CASE conn' = [conn EXCEPT ![c] = stored] /\ addAndConnect(c, stored, box, None)
    BY <2>4, AddsOrKeeps
  <2>5. CASE conn' = [conn EXCEPT ![c] = stored] /\ registered # None
             /\ addAndConnect(c, stored, disconnected(registered), None)
    <3>1. stored = conn'[c]
      BY <2>5
    <3>2. disconnected(registered) \in [Boxes -> BoxRecords]
          /\ \A b \in Boxes : disconnected(registered)[b].creds = box[b].creds
      BY <2>5, DisconnectedKeepsCreds
    <3> QED
      BY <2>5, <3>1, <3>2, AddsOrKeeps
  <2> QED
    BY <1>2, <2>1, <2>2, <2>3, <2>4, <2>5 DEF loadConnection
<1>3. CASE finishRemoval(c)
  <2>1. ref[c] \in Boxes /\ conn[c] = conn'[c]
    BY <1>3 DEF finishRemoval, RefsAreBoxes
  <2>2. disconnected(ref[c]) \in [Boxes -> BoxRecords]
        /\ \A b \in Boxes : disconnected(ref[c])[b].creds = box[b].creds
    BY <2>1, DisconnectedKeepsCreds, Zenon
  <2>3. PICK entry \in {registered, None} : addAndConnect(c, conn[c], disconnected(ref[c]), entry)
    BY <1>3 DEF finishRemoval
  <2> QED
    BY <2>1, <2>2, <2>3, AddsOrKeeps
<1>4. CASE connect(c)
  <2>1. ref[c] \in Boxes
    BY <1>4 DEF connect, RefsAreBoxes
  <2>2. UNCHANGED <<registered, fingerprint>>
    BY <1>4 DEF connect
  <2>3. CASE box' = [box EXCEPT ![ref[c]].state = "connected", ![ref[c]].sid = TRUE]
    BY <2>1, <2>2, <2>3, ChangesKeepCreds DEF keeps, changes
  <2>4. CASE box' = [box EXCEPT ![ref[c]].state = "disconnected"]
    BY <2>1, <2>2, <2>4, ChangesKeepCreds DEF keeps, changes, disconnected
  <2> QED
    BY <1>4, <2>3, <2>4 DEF connect
<1>5. CASE useConnection(c)
  <2>1. ref[c] \in Boxes
    BY <1>5 DEF useConnection, RefsAreBoxes
  <2>2. CASE box' = [box EXCEPT ![ref[c]].sid = TRUE] /\ UNCHANGED <<registered, fingerprint>>
    BY <2>1, <2>2, ChangesKeepCreds DEF keeps, changes
  <2>3. CASE \E boxes \in {box, [box EXCEPT ![ref[c]].sid = FALSE]} : startInvalidation(c, boxes)
    <3>1. PICK boxes \in {box, [box EXCEPT ![ref[c]].sid = FALSE]} : startInvalidation(c, boxes)
      BY <2>3
    <3>2. boxes \in [Boxes -> BoxRecords] /\ \A b \in Boxes : boxes[b].creds = box[b].creds
      <4>1. ASSUME NEW b \in Boxes PROVE [box EXCEPT ![ref[c]].sid = FALSE][b].creds = box[b].creds
        BY <2>1 DEF BoxRecords
      <4>2. boxes = box \/ boxes = [box EXCEPT ![ref[c]].sid = FALSE]
        BY <3>1
      <4>3. [box EXCEPT ![ref[c]].sid = FALSE] \in [Boxes -> BoxRecords]
        BY <2>1, BoxTypes, Zenon
      <4>4. box \in [Boxes -> BoxRecords]
        OBVIOUS
      <4> HIDE DEF Typed, TypeOK
      <4> QED
        BY <4>1, <4>2, <4>3, <4>4, Zenon
    <3> QED
      BY <3>1, <3>2, InvalidationKeepsCreds
  <2> QED
    BY <1>5, <2>2, <2>3 DEF useConnection
<1>6. CASE invalidate(c)
  <2>1. ref[c] \in Boxes
    BY <1>6 DEF invalidate, RefsAreBoxes
  <2> QED
    BY <1>6, <2>1, ChangesKeepCreds DEF invalidate, keeps, changes
<1> QED
  BY <1>1, <1>2, <1>3, <1>4, <1>5, <1>6 DEF Call

LEMMA FingerprintNext ==
  ASSUME Typed, FingerprintTellsCredentials, [Next]_vars
  PROVE  FingerprintTellsCredentials'
<1> USE DEF FingerprintTellsCredentials
<1>1. CASE UNCHANGED client
  BY <1>1 DEF client
<1>2. ASSUME NEW c \in Callers, adds(c) PROVE FingerprintTellsCredentials'
  BY <1>2 DEF adds
<1>3. CASE keeps
  BY <1>3 DEF keeps, Typed, TypeOK
<1> QED
  BY <1>1, <1>2, <1>3, CallCreds, EnvironmentSteps DEF Next

(* A box built from other credentials is never taken for current, for any  *)
(* number of callers: what the fingerprint is for.                         *)
THEOREM FingerprintIsRight == Spec => []FingerprintTellsCredentials
<1>1. Init => FingerprintTellsCredentials
  BY DEF Init, FingerprintTellsCredentials
<1> QED
  BY <1>1, FingerprintNext, TypedAlways, PTL DEF Spec

-----------------------------------------------------------------------------
(* What a caller gets.                                                     *)

(* The object a call connects was built from the credentials it has read.  *)
BuiltAsRead == \A c \in Callers : pc[c] = "connecting" => box[ref[c]].creds = conn[c]

LEMMA OthersKept ==
  ASSUME Typed, NEW c \in Callers, Call(c), NEW d \in Callers \ {c}, pc[d] # "joined"
  PROVE  ref'[d] = ref[d] /\ conn'[d] = conn[d] /\ pc'[d] = pc[d]
<1> USE DEF Typed, TypeOK, goto
<1>0. d \notin sharers(c)
  BY DEF sharers
<1>1. CASE getConnection(c)
  BY <1>1 DEF getConnection
<1>2. ASSUME NEW creds, NEW boxes, NEW entry, addAndConnect(c, creds, boxes, entry)
      PROVE  ref'[d] = ref[d] /\ pc'[d] = pc[d]
  BY <1>0, <1>2 DEF addAndConnect, rejected
<1>3. CASE loadConnection(c)
  <2>1. conn'[d] = conn[d]
    BY <1>3 DEF loadConnection
  <2> QED
    BY <1>0, <1>2, <1>3, <2>1 DEF loadConnection, rejected, resolved, startLogout
<1>4. CASE finishRemoval(c)
  BY <1>2, <1>4 DEF finishRemoval
<1>5. CASE connect(c)
  BY <1>0, <1>5 DEF connect, rejected, resolved
<1>6. CASE useConnection(c)
  BY <1>6 DEF useConnection, startInvalidation, startLogout
<1>7. CASE invalidate(c)
  BY <1>7 DEF invalidate
<1> QED
  BY <1>1, <1>3, <1>4, <1>5, <1>6, <1>7 DEF Call

LEMMA SettledSteps ==
  ASSUME Typed, NEW c \in Callers,
         \/ \E cause \in Outcomes : rejected(c, cause)
         \/ \E b \in Boxes : resolved(c, b)
  PROVE  pc'[c] \in {"idle", "using"}
BY DEF rejected, resolved, sharers

(* The steps of c that end in "connecting".                                *)
ConnectsCurrent(c) ==
  /\ keeps /\ registered # None /\ ref'[c] = registered /\ registered' = registered
  /\ fingerprint = stored /\ conn'[c] = stored /\ stored \in Credentials

LEMMA ConnectingSteps ==
  ASSUME Typed, NEW c \in Callers, Call(c), pc'[c] = "connecting"
  PROVE  adds(c) \/ ConnectsCurrent(c)
<1> USE DEF Typed, TypeOK
<1>0. "duplicate_id" \in Outcomes /\ "load_failed" \in Outcomes /\ NoCredentials \subseteq Outcomes
  BY DEF Outcomes
<1>1. CASE getConnection(c)
  BY <1>1 DEF getConnection, goto
<1>2. CASE loadConnection(c)
  <2>1. CASE \E cause \in Outcomes : rejected(c, cause)
    BY <2>1, SettledSteps
  <2>2. CASE registered # None /\ resolved(c, registered)
    BY <2>2, SettledSteps
  <2>3. CASE startLogout(c, box, "removing")
    BY <2>3 DEF startLogout, goto
  <2>4. CASE /\ registered # None /\ isCurrent(stored) /\ stored \in Credentials
             /\ conn' = [conn EXCEPT ![c] = stored]
             /\ box' = [box EXCEPT ![registered].state = "connecting"]
             /\ ref' = [ref EXCEPT ![c] = registered]
             /\ UNCHANGED <<registered, fingerprint>>
    BY <2>4, ChangesKeepCreds DEF keeps, changes, isCurrent, ConnectsCurrent
  <2>5. CASE conn' = [conn EXCEPT ![c] = stored] /\ addAndConnect(c, stored, box, None)
    BY <2>5, AddsOrKeeps
  <2>6. CASE conn' = [conn EXCEPT ![c] = stored] /\ registered # None
             /\ addAndConnect(c, stored, disconnected(registered), None)
    <3>1. stored = conn'[c]
      BY <2>6
    <3>2. disconnected(registered) \in [Boxes -> BoxRecords]
          /\ \A b \in Boxes : disconnected(registered)[b].creds = box[b].creds
      BY <2>6, DisconnectedKeepsCreds
    <3> QED
      BY <2>6, <3>1, <3>2, AddsOrKeeps
  <2>7. CASE stored \in NoCredentials /\ rejected(c, stored)
    BY <1>0, <2>1, <2>7
  <2>8. CASE rejected(c, "load_failed")
    BY <1>0, <2>1, <2>8
  <2> HIDE DEF Typed, TypeOK
  <2> QED
    BY <1>2, <2>2, <2>3, <2>4, <2>5, <2>6, <2>7, <2>8 DEF loadConnection
<1>3. CASE finishRemoval(c)
  <2>1. ref[c] \in Boxes /\ conn[c] = conn'[c]
    BY <1>3 DEF finishRemoval, RefsAreBoxes
  <2>2. disconnected(ref[c]) \in [Boxes -> BoxRecords]
        /\ \A b \in Boxes : disconnected(ref[c])[b].creds = box[b].creds
    BY <2>1, DisconnectedKeepsCreds, Zenon
  <2>3. PICK entry \in {registered, None} : addAndConnect(c, conn[c], disconnected(ref[c]), entry)
    BY <1>3 DEF finishRemoval
  <2>4. adds(c) \/ rejected(c, "duplicate_id")
    BY <2>1, <2>2, <2>3, AddsOrKeeps
  <2> QED
    BY <1>0, <2>4, SettledSteps
<1>4. CASE connect(c)
  <2>1. ref[c] \in Boxes /\ "FRITZBOX_UNREACHABLE" \in Outcomes
    BY <1>4 DEF connect, RefsAreBoxes, Outcomes
  <2> QED
    BY <1>4, <2>1, SettledSteps DEF connect
<1>5. CASE useConnection(c)
  BY <1>5 DEF useConnection, startInvalidation, startLogout, goto
<1>6. CASE invalidate(c)
  BY <1>6 DEF invalidate, goto
<1> QED
  BY <1>1, <1>2, <1>3, <1>4, <1>5, <1>6 DEF Call

LEMMA BuiltAsReadNext ==
  ASSUME Typed, FingerprintTellsCredentials, BuiltAsRead, [Next]_vars
  PROVE  BuiltAsRead'
<1>1. CASE UNCHANGED client
  BY <1>1 DEF client, BuiltAsRead
<1>2. ASSUME NEW c \in Callers, Call(c) PROVE BuiltAsRead'
  <2> SUFFICES ASSUME NEW d \in Callers, pc'[d] = "connecting"
               PROVE  box'[ref'[d]].creds = conn'[d]
    BY DEF BuiltAsRead
  <2>1. CASE d = c
    <3>1. CASE adds(c)
      BY <2>1, <3>1 DEF adds, unusedBoxes, Typed, TypeOK
    <3>2. CASE ConnectsCurrent(c)
      <4>1. registered \in Boxes /\ box[registered].creds = fingerprint
        BY <3>2 DEF ConnectsCurrent, FingerprintTellsCredentials, Typed, TypeOK
      <4> QED
        BY <2>1, <3>2, <4>1 DEF ConnectsCurrent, keeps
    <3> QED
      BY <1>2, <2>1, <3>1, <3>2, ConnectingSteps
  <2>2. CASE d # c
    <3>1. pc[d] = "connecting" /\ ref'[d] = ref[d] /\ conn'[d] = conn[d]
      <4>1. pc[d] # "joined"
        BY <1>2, <2>2, CallSteps DEF joins, begins, goesOn, settles, works, sharers, Typed, TypeOK
      <4> QED
        BY <1>2, <2>2, <4>1, OthersKept
    <3>2. ref[d] \in Boxes /\ box[ref[d]].creds = conn[d]
      BY <3>1 DEF BuiltAsRead, Typed, RefsAreBoxes
    <3>3. CASE adds(c)
      <4>1. PICK b \in unusedBoxes : \A e \in Boxes \ {b} : box'[e].creds = box[e].creds
        BY <3>3 DEF adds
      <4>2. ref[d] # b
        BY DEF unusedBoxes
      <4> QED
        BY <3>1, <3>2, <4>1, <4>2
    <3>4. CASE keeps
      BY <3>1, <3>2, <3>4 DEF keeps
    <3> QED
      BY <1>2, <3>3, <3>4, CallCreds
  <2> QED
    BY <2>1, <2>2
<1> QED
  BY <1>1, <1>2, EnvironmentSteps DEF Next

(* The step at which a caller gets its connection.                         *)
LEMMA GetsCurrent ==
  ASSUME Typed, OneConnectionAtATime, FingerprintTellsCredentials, BuiltAsRead, [Next]_vars,
         NEW c \in Callers, Resolving(c), pc'[c] = "using"
  PROVE  box[ref'[c]].creds = conn'[c] /\ box'[ref'[c]].state = "connected"
<1>0. pc[c] # "using"
  BY DEF Resolving
<1>1. ~UNCHANGED client
  BY <1>0 DEF client
<1>2. PICK d \in Callers : Call(d)
  BY <1>1, EnvironmentSteps DEF Next
<1>3. d = c
  <2>1. pc[c] # "joined"
    BY DEF Resolving
  <2> QED
    BY <1>0, <1>2, <2>1, OthersKept
<1>4. ASSUME NEW b \in Boxes, resolved(c, b)
      PROVE  ref'[c] = b
  BY <1>4 DEF resolved, sharers
<1>5. ASSUME rejected(c, "duplicate_id") \/ \E cause : rejected(c, cause)
      PROVE  FALSE
  BY <1>5 DEF rejected, sharers
<1>6. ASSUME NEW creds, NEW boxes, NEW entry, addAndConnect(c, creds, boxes, entry)
      PROVE  FALSE
  BY <1>5, <1>6 DEF addAndConnect, goto, Typed, TypeOK
<1>7. CASE loadConnection(c)
  <2>1. /\ registered # None /\ isCurrent(stored) /\ stored \in Credentials
        /\ conn' = [conn EXCEPT ![c] = stored]
        /\ box[registered].state = "connected" /\ UNCHANGED box
        /\ resolved(c, registered)
    <3>1. ~startLogout(c, box, "removing") /\ ~goto(c, "connecting")
      BY DEF startLogout, goto, Typed, TypeOK
    <3> QED
      BY <1>5, <1>6, <1>7, <3>1, Zenon DEF loadConnection
  <2>2. registered \in Boxes /\ fingerprint = stored /\ stored # None
    BY <2>1 DEF Typed, TypeOK, isCurrent
  <2> QED
    BY <1>4, <2>1, <2>2 DEF FingerprintTellsCredentials, Typed, TypeOK
<1>8. CASE connect(c)
  <2>1. ref[c] \in Boxes /\ box[ref[c]].creds = conn[c] /\ UNCHANGED conn
    BY <1>8 DEF connect, Typed, RefsAreBoxes, BuiltAsRead
  <2>2. /\ box' = [box EXCEPT ![ref[c]].state = "connected", ![ref[c]].sid = TRUE]
        /\ resolved(c, ref[c])
    BY <1>5, <1>8 DEF connect
  <2>3. box'[ref[c]].state = "connected"
    BY <2>1, <2>2 DEF Typed, TypeOK, BoxRecords
  <2> QED
    BY <1>4, <2>1, <2>2, <2>3
<1> QED
  BY <1>2, <1>3, <1>6, <1>7, <1>8 DEF Call, Resolving, getConnection, finishRemoval,
     useConnection, invalidate

(* Whatever administrators change and however many callers there are, a    *)
(* call returns a connected box of the credentials it has read.            *)
THEOREM CallersGetCurrentConnection == Spec => ConnectionIsCurrent
<1> DEFINE Inv == Typed /\ OneConnectionAtATime /\ FingerprintTellsCredentials /\ BuiltAsRead
<1>1. Init => BuiltAsRead
  BY DEF Init, BuiltAsRead
<1>2. Typed /\ FingerprintTellsCredentials /\ BuiltAsRead /\ [Next]_vars => BuiltAsRead'
  BY BuiltAsReadNext
<1>3. Inv /\ [Next]_vars =>
        [ \A c \in Callers :
            Resolving(c) /\ pc'[c] = "using" =>
              /\ box[ref'[c]].creds = conn'[c]
              /\ box'[ref'[c]].state = "connected" ]_vars
  BY GetsCurrent
<1>4. Spec => []Inv
  BY <1>1, <1>2, TypedAlways, FingerprintIsRight, OneCallerConnects, PTL DEF Spec
<1> QED
  BY <1>3, <1>4, PTL DEF Spec, ConnectionIsCurrent

-----------------------------------------------------------------------------
(* A single caller, as the scheduler is.                                   *)

SingleCaller == \A c, d \in Callers : c = d

(* What the only caller is working on is registered, and its fingerprint   *)
(* is gone while it is being logged out.                                   *)
WorksOnRegistered ==
  \A c \in Callers :
    /\ pc[c] \in {"connecting", "using"} => registered = ref[c] /\ fingerprint # None
    /\ pc[c] \in {"removing", "invalidating"} => registered = ref[c] /\ fingerprint = None
    /\ pc[c] = "removing" => conn[c] \in Credentials

(* A box without a fingerprint has no sid: StuckBoxHasNoSession, and while *)
(* the logout is under way as well.                                        *)
Removable == registered # None /\ fingerprint = None => box[registered].sid = FALSE

(* After a duplicate id the box is still registered, and has no            *)
(* fingerprint, until the next call removes it.                            *)
AfterDuplicate ==
  \A c \in Callers :
    outcome[c] = "duplicate_id" =>
      /\ pc[c] \in {"idle", "load", "connecting"}
      /\ pc[c] # "connecting" => registered # None /\ fingerprint = None

(* SessionsAreAccountedFor, where the box being logged out is registered.  *)
Accounted ==
  \A b \in sessions :
    \/ b = registered /\ box[b].sid = TRUE
    \/ \E c \in Callers : pc[c] \in {"removing", "invalidating"} /\ ref[c] = b
    \/ b \in lost

(* A session of a connection that may still be used has its sid.           *)
Held ==
  registered # None /\ fingerprint # None /\ registered \in sessions => box[registered].sid = TRUE

Single == WorksOnRegistered /\ Removable /\ AfterDuplicate /\ Accounted /\ Held

(* What the steps of the only caller c have in common, by how they end.    *)
LEMMA OnlyCallerAdds ==
  ASSUME Typed, SingleCaller, NEW c \in Callers, NEW creds \in Credentials,
         NEW boxes \in [Boxes -> BoxRecords], addAndConnect(c, creds, boxes, None),
         sessions' \subseteq sessions, sessions' \subseteq lost'
  PROVE  Single'
<1>1. PICK b \in unusedBoxes :
        /\ box' = [boxes EXCEPT ![b] = [creds |-> creds, state |-> "connecting", sid |-> FALSE]]
        /\ registered' = b /\ fingerprint' = creds
        /\ ref' = [ref EXCEPT ![c] = b]
        /\ pc' = [pc EXCEPT ![c] = "connecting"]
        /\ UNCHANGED outcome
  BY DEF addAndConnect, goto
<1>2. /\ b \in Boxes /\ creds # None /\ \A d \in Callers : d = c
      /\ pc'[c] = "connecting" /\ ref'[c] = b
  BY <1>1 DEF unusedBoxes, SingleCaller, Typed, TypeOK
<1>3. \A d \in sessions' : d \in lost'
  OBVIOUS
<1>4. Held'
  BY <1>1, <1>2, <1>3 DEF Held, unusedBoxes
<1> QED
  BY <1>1, <1>2, <1>3, <1>4 DEF Single, WorksOnRegistered, Removable, AfterDuplicate, Accounted, Held

LEMMA OnlyCallerFails ==
  ASSUME Typed, SingleCaller, NEW c \in Callers, NEW cause \in Outcomes, rejected(c, cause),
         cause = "duplicate_id" => registered' # None /\ fingerprint' = None,
         Removable', Held', \A b \in sessions' : (b = registered' /\ box'[b].sid = TRUE) \/ b \in lost'
  PROVE  Single'
<1>1. /\ \A d \in Callers : d = c
      /\ pc'[c] = "idle" /\ outcome'[c] = cause
  BY DEF SingleCaller, rejected, sharers
<1> QED
  BY <1>1 DEF Single, WorksOnRegistered, AfterDuplicate, Accounted, Held

LEMMA OnlyCallerSucceeds ==
  ASSUME Typed, SingleCaller, NEW c \in Callers, NEW b \in Boxes, resolved(c, b),
         registered' = b, fingerprint' # None, Held',
         \A d \in sessions' : (d = registered' /\ box'[d].sid = TRUE) \/ d \in lost'
  PROVE  Single'
<1>1. /\ \A d \in Callers : d = c
      /\ pc'[c] = "using" /\ ref'[c] = b /\ outcome'[c] = "ok"
  BY DEF SingleCaller, resolved, sharers
<1> QED
  BY <1>1 DEF Single, WorksOnRegistered, Removable, AfterDuplicate, Accounted, Held

LEMMA OnlyCallerLogsOut ==
  ASSUME Typed, SingleCaller, Single, NEW c \in Callers, NEW where \in {"removing", "invalidating"},
         registered # None, NEW boxes \in [Boxes -> BoxRecords], startLogout(c, boxes, where),
         pc[c] \in {"load", "using"}, outcome[c] # "duplicate_id",
         where = "removing" => conn'[c] \in Credentials,
         sessions' \subseteq sessions, UNCHANGED <<lost, outcome>>
  PROVE  Single'
<1>1. /\ \A d \in Callers : d = c
      /\ pc'[c] = where /\ ref'[c] = registered /\ registered \in Boxes
      /\ registered' = registered /\ fingerprint' = None
  BY DEF SingleCaller, startLogout, goto, Typed, TypeOK
<1>2. box'[registered].sid = FALSE
  BY <1>1 DEF startLogout, Typed, TypeOK, BoxRecords
<1>3. Accounted'
  BY <1>1 DEF Single, Accounted
<1> QED
  BY <1>1, <1>2, <1>3 DEF Single, WorksOnRegistered, Removable, AfterDuplicate, Held

LEMMA SidsUnchanged ==
  ASSUME Typed, NEW b \in Boxes,
         box' = disconnected(b) \/ box' = [box EXCEPT ![b].state = "connecting"]
  PROVE  \A d \in Boxes : box'[d].sid = box[d].sid
BY DEF Typed, TypeOK, BoxRecords, disconnected

LEMMA OnlyCallerLoads ==
  ASSUME Typed, SingleCaller, Single, NEW c \in Callers, loadConnection(c)
  PROVE  Single'
<1>0. /\ pc[c] = "load" /\ UNCHANGED <<sessions, lost>>
      /\ registered \in Boxes \cup {None}
      /\ \A d \in Callers : d = c
  BY DEF loadConnection, SingleCaller, Typed, TypeOK
<1>1. \A b \in sessions : (b = registered /\ box[b].sid = TRUE) \/ b \in lost
  BY <1>0 DEF Single, Accounted
<1>2. {"load_failed"} \cup NoCredentials \subseteq Outcomes \ {"duplicate_id"}
  BY DEF Outcomes, NoCredentials
<1>3. ASSUME NEW cause \in Outcomes \ {"duplicate_id"}, rejected(c, cause),
             UNCHANGED <<box, registered, fingerprint>>
      PROVE  Single'
  <2>1. Removable'
    BY <1>3 DEF Single, Removable
  <2>2. Held'
    BY <1>0, <1>3 DEF Single, Held
  <2> QED
    BY <1>0, <1>1, <1>3, <2>1, <2>2, OnlyCallerFails
<1>4. CASE stored \in Credentials /\ conn' = [conn EXCEPT ![c] = stored]
  <2>1. CASE registered = None /\ addAndConnect(c, stored, box, None)
    <3>1. sessions' \subseteq sessions /\ sessions' \subseteq lost' /\ box \in [Boxes -> BoxRecords]
      BY <1>0, <1>1, <2>1 DEF Typed, TypeOK
    <3> QED
      BY <1>4, <2>1, <3>1, OnlyCallerAdds
  <2>2. CASE /\ registered # None /\ box[registered].sid
             /\ startLogout(c, box, "removing") /\ UNCHANGED <<pending, outcome>>
    <3>1. outcome[c] # "duplicate_id"
      BY <1>0, <2>2 DEF Single, AfterDuplicate, Removable
    <3>2. conn'[c] \in Credentials
      BY <1>4 DEF Typed, TypeOK
    <3>3. box \in [Boxes -> BoxRecords]
      BY DEF Typed, TypeOK
    <3> QED
      BY <1>0, <2>2, <3>1, <3>2, <3>3, OnlyCallerLogsOut
  <2>3. CASE /\ registered # None /\ ~box[registered].sid
             /\ addAndConnect(c, stored, disconnected(registered), None)
    <3>1. sessions' \subseteq sessions /\ sessions' \subseteq lost'
      BY <1>0, <1>1, <2>3
    <3>2. disconnected(registered) \in [Boxes -> BoxRecords]
      BY <1>0, <2>3, DisconnectedKeepsCreds
    <3> QED
      BY <1>4, <2>3, <3>1, <3>2, OnlyCallerAdds
  <2>4. CASE /\ registered # None /\ isCurrent(stored) /\ resolved(c, registered)
             /\ UNCHANGED <<box, registered, fingerprint>>
    <3>1. registered \in Boxes /\ fingerprint # None /\ stored # None
      BY <1>0, <1>4, <2>4 DEF isCurrent
    <3>2. Held'
      BY <1>0, <2>4 DEF Single, Held
    <3> QED
      BY <1>0, <1>1, <2>4, <3>1, <3>2, OnlyCallerSucceeds
  <2>5. CASE /\ registered # None /\ isCurrent(stored)
             /\ box' = [box EXCEPT ![registered].state = "connecting"]
             /\ ref' = [ref EXCEPT ![c] = registered]
             /\ goto(c, "connecting")
             /\ UNCHANGED <<pending, outcome, registered, fingerprint>>
    <3>1. /\ registered \in Boxes /\ fingerprint # None
          /\ ref'[c] = registered /\ pc'[c] = "connecting"
      BY <1>0, <1>4, <2>5 DEF isCurrent, goto, Typed, TypeOK
    <3>2. \A d \in Boxes : box'[d].sid = box[d].sid
      BY <2>5, <3>1, SidsUnchanged
    <3>3. Accounted'
      BY <1>0, <1>1, <2>5, <3>1, <3>2 DEF Accounted
    <3> QED
      BY <1>0, <2>5, <3>1, <3>3 DEF Single, WorksOnRegistered, Removable, AfterDuplicate, Held
  <2> QED
    BY <1>2, <1>3, <1>4, <2>1, <2>2, <2>3, <2>4, <2>5 DEF loadConnection
<1> QED
  BY <1>2, <1>3, <1>4 DEF loadConnection

LEMMA OnlyCallerRemoves ==
  ASSUME Typed, SingleCaller, Single, NEW c \in Callers, finishRemoval(c)
  PROVE  Single'
<1> DEFINE b == ref[c]
<1>1. /\ pc[c] = "removing" /\ logout(b) /\ b \in Boxes /\ registered = b /\ fingerprint = None
      /\ box[b].sid = FALSE /\ conn[c] \in Credentials
      /\ b # None /\ \A d \in Callers : d = c
  BY DEF finishRemoval, Typed, TypeOK, RefsAreBoxes, SingleCaller, Single, WorksOnRegistered, Removable
<1>2. sessions' \subseteq sessions /\ sessions' \subseteq lost'
  BY <1>1 DEF Single, Accounted, logout
<1>3. disconnected(b) \in [Boxes -> BoxRecords]
  BY <1>1, DisconnectedKeepsCreds
<1>4. CASE addAndConnect(c, conn[c], disconnected(b), None)
  BY <1>1, <1>2, <1>3, <1>4, OnlyCallerAdds
<1>5. CASE addAndConnect(c, conn[c], disconnected(b), registered)
  <2>1. rejected(c, "duplicate_id") /\ box' = disconnected(b) /\ UNCHANGED <<registered, fingerprint>>
    BY <1>1, <1>5 DEF addAndConnect
  <2>2. Removable'
    BY <1>1, <2>1, SidsUnchanged DEF Removable
  <2>4. Held'
    BY <1>1, <2>1 DEF Held
  <2>3. "duplicate_id" \in Outcomes
    BY DEF Outcomes
  <2> QED
    BY <1>1, <1>2, <2>1, <2>2, <2>3, <2>4, OnlyCallerFails
<1> QED
  BY <1>4, <1>5 DEF finishRemoval

LEMMA OnlyCallerConnects ==
  ASSUME Typed, SingleCaller, Single, NEW c \in Callers, connect(c)
  PROVE  Single'
<1> DEFINE b == ref[c]
<1>1. /\ pc[c] = "connecting" /\ b \in Boxes /\ registered = b /\ fingerprint # None
      /\ UNCHANGED <<registered, fingerprint>> /\ \A d \in Callers : d = c
  BY DEF connect, Typed, RefsAreBoxes, SingleCaller, Single, WorksOnRegistered
<1>2. \A d \in sessions : (d = b /\ box[d].sid = TRUE) \/ d \in lost
  BY <1>1 DEF Single, Accounted
<1>3. CASE /\ box' = [box EXCEPT ![b].state = "connected", ![b].sid = TRUE]
           /\ \/ UNCHANGED <<sessions, lost>>
              \/ sessions' = sessions \cup {b} /\ lost' = lost \ {b}
           /\ resolved(c, b)
  <2>1. box'[b].sid = TRUE
    BY <1>1, <1>3 DEF Typed, TypeOK, BoxRecords
  <2>2. \A d \in sessions' : (d = registered' /\ box'[d].sid = TRUE) \/ d \in lost'
    BY <1>1, <1>2, <1>3, <2>1
  <2> QED
    BY <1>1, <1>3, <2>1, <2>2, OnlyCallerSucceeds DEF Held
<1>4. CASE /\ ~box[b].sid /\ box' = [box EXCEPT ![b].state = "disconnected"]
           /\ rejected(c, "FRITZBOX_UNREACHABLE") /\ UNCHANGED <<sessions, lost>>
  <2>1. "FRITZBOX_UNREACHABLE" \in Outcomes
    BY DEF Outcomes
  <2>2. Removable' /\ Held'
    BY <1>1, <1>4 DEF Removable, Single, Held
  <2> QED
    BY <1>1, <1>2, <1>4, <2>1, <2>2, OnlyCallerFails
<1> QED
  BY <1>3, <1>4 DEF connect

LEMMA OnlyCallerGivesUp ==
  ASSUME Typed, SingleCaller, Single, NEW c \in Callers, pc[c] = "using",
         NEW boxes \in [Boxes -> BoxRecords], \A d \in Boxes : boxes[d].sid => box[d].sid,
         startInvalidation(c, boxes),
         sessions' \subseteq sessions, ~boxes[ref[c]].sid => ref[c] \notin sessions',
         UNCHANGED <<conn, outcome, lost>>
  PROVE  Single'
<1> DEFINE b == ref[c]
<1>1. /\ b \in Boxes /\ registered = b /\ fingerprint # None /\ b # None
      /\ \A d \in Callers : d = c
      /\ outcome[c] # "duplicate_id"
  BY DEF Typed, TypeOK, RefsAreBoxes, SingleCaller, Single, WorksOnRegistered, AfterDuplicate
<1>2. \A d \in sessions : d = b \/ d \in lost
  BY <1>1 DEF Single, Accounted
<1>3. CASE startLogout(c, boxes, "invalidating")
  BY <1>1, <1>3, OnlyCallerLogsOut
<1>4. CASE ~boxes[registered].sid /\ registered' = None /\ goto(c, "idle")
  <2>1. pc'[c] = "idle"
    BY <1>4 DEF goto, Typed, TypeOK
  <2> QED
    BY <1>1, <1>2, <1>4, <2>1 DEF Single, WorksOnRegistered, Removable, AfterDuplicate, Accounted, Held
<1> QED
  BY <1>1, <1>3, <1>4 DEF startInvalidation

LEMMA OnlyCallerUses ==
  ASSUME Typed, SingleCaller, Single, NEW c \in Callers, useConnection(c)
  PROVE  Single'
<1> DEFINE b == ref[c]
<1>1. /\ pc[c] = "using" /\ b \in Boxes /\ registered = b /\ fingerprint # None /\ b # None
      /\ UNCHANGED <<conn, outcome, lost>> /\ \A d \in Callers : d = c
      /\ outcome[c] # "duplicate_id" /\ box \in [Boxes -> BoxRecords]
  BY DEF useConnection, Typed, TypeOK, RefsAreBoxes, SingleCaller, Single, WorksOnRegistered, AfterDuplicate
<1>2. \A d \in sessions : (d = b /\ box[d].sid = TRUE) \/ d \in lost
  BY <1>1 DEF Single, Accounted
<1>3. CASE /\ box' = [box EXCEPT ![b].sid = TRUE] /\ sessions' = sessions \cup {b}
           /\ goto(c, "idle") /\ UNCHANGED <<registered, fingerprint>>
  <2>1. box'[b].sid = TRUE /\ pc'[c] = "idle"
    BY <1>1, <1>3 DEF goto, BoxRecords, Typed, TypeOK
  <2> QED
    BY <1>1, <1>2, <1>3, <2>1 DEF Single, WorksOnRegistered, Removable, AfterDuplicate, Accounted, Held
<1>4. CASE sessions' = sessions \ {b} /\ startInvalidation(c, [box EXCEPT ![b].sid = FALSE])
  <2>1. PICK boxes : boxes = [box EXCEPT ![b].sid = FALSE]
    OBVIOUS
  <2>2. boxes \in [Boxes -> BoxRecords] /\ \A d \in Boxes : boxes[d].sid => box[d].sid
    BY <1>1, <2>1 DEF BoxRecords
  <2> QED
    BY <1>1, <1>4, <2>1, <2>2, OnlyCallerGivesUp
<1>5. CASE UNCHANGED sessions /\ startInvalidation(c, box)
  <2>1. ~box[b].sid => b \notin sessions
    BY <1>1 DEF Single, Held
  <2> QED
    BY <1>1, <1>5, <2>1, OnlyCallerGivesUp
<1> QED
  BY <1>1, <1>3, <1>4, <1>5 DEF useConnection

LEMMA OnlyCallerInvalidates ==
  ASSUME Typed, SingleCaller, Single, NEW c \in Callers, invalidate(c)
  PROVE  Single'
<1> DEFINE b == ref[c]
<1>1. /\ pc[c] = "invalidating" /\ logout(b) /\ b \in Boxes /\ registered = b /\ fingerprint = None
      /\ box[b].sid = FALSE /\ outcome[c] # "duplicate_id"
      /\ UNCHANGED <<fingerprint, outcome>> /\ \A d \in Callers : d = c
  BY DEF invalidate, Typed, RefsAreBoxes, TypeOK, SingleCaller, Single, WorksOnRegistered,
     Removable, AfterDuplicate
<1>2. sessions' \subseteq lost'
  BY <1>1 DEF Single, Accounted, logout
<1>3. registered' \in {registered, None} /\ pc'[c] = "idle" /\ box' = disconnected(b)
  BY DEF invalidate, goto, Typed, TypeOK
<1>4. box'[b].sid = FALSE
  BY <1>1, <1>3, SidsUnchanged
<1> QED
  BY <1>1, <1>2, <1>3, <1>4 DEF Single, WorksOnRegistered, Removable, AfterDuplicate, Accounted, Held

LEMMA SingleNext ==
  ASSUME SingleCaller, Typed, OneConnectionAtATime, PendingIsUnderWay, Single, [Next]_vars
  PROVE  Single'
<1>1. CASE UNCHANGED client /\ sessions' \subseteq sessions
  BY <1>1 DEF client, Single, WorksOnRegistered, Removable, AfterDuplicate, Accounted, Held
<1>2. changeCredentials \/ boxComesOrGoes \/ sessionExpires \/ UNCHANGED vars
        => UNCHANGED client /\ sessions' \subseteq sessions
  BY DEF changeCredentials, boxComesOrGoes, sessionExpires, vars, client
<1>3. ASSUME NEW c \in Callers, getConnection(c) PROVE Single'
  <2>1. pending = None
    BY <1>3 DEF getConnection, PendingIsUnderWay, Resolving, SingleCaller
  <2>2. /\ pc[c] = "idle" /\ pc'[c] = "load" /\ \A d \in Callers : d = c
        /\ UNCHANGED <<sessions, box, registered, fingerprint, conn, ref, outcome, lost>>
    BY <1>3, <2>1 DEF getConnection, goto, SingleCaller, Typed, TypeOK
  <2> QED
    BY <2>2 DEF Single, WorksOnRegistered, Removable, AfterDuplicate, Accounted, Held
<1> QED
  BY <1>1, <1>2, <1>3, OnlyCallerLoads, OnlyCallerRemoves, OnlyCallerConnects, OnlyCallerUses,
     OnlyCallerInvalidates DEF Next, Call

(* Of a lone caller every session whose sid is gone costs a mishap.        *)
Excused == orphans <= mishaps

LEMMA ExcusedNext ==
  ASSUME SingleCaller, Typed, Single, Excused, [Next]_vars
  PROVE  Excused'
<1> USE DEF Excused
<1>1. mishaps \in Nat /\ orphans \in Nat
  BY DEF Typed, TypeOK
<1>2. ASSUME NEW count \in Nat, NEW left \in Nat, mishap(count, left), left <= count
      PROVE  Excused'
  BY <1>1, <1>2 DEF mishap
<1>3. CASE UNCHANGED <<orphans, mishaps>>
  BY <1>3
<1>4. CASE sessionExpires
  BY <1>1, <1>4 DEF sessionExpires
<1>5. ASSUME NEW c \in Callers, connect(c) PROVE Excused'
  <2>1. ref[c] \in Boxes /\ ref[c] = registered /\ ref[c] # None /\ fingerprint # None
    BY <1>5 DEF connect, Typed, TypeOK, RefsAreBoxes, Single, WorksOnRegistered
  <2>2. ~box[ref[c]].sid => held(ref[c]) = 0
    BY <2>1 DEF held, Single, Held
  <2>3. PICK n \in 0..MaxAttempts : mishap(n, n)
    <3>1. 0 \in 0..MaxAttempts /\ 0..(MaxAttempts - 1) \subseteq 0..MaxAttempts
      BY DEF MaxAttempts
    <3>2. \A n \in 0..MaxAttempts : n + 0 = n
      BY DEF MaxAttempts
    <3> QED
      BY <1>5, <2>2, <3>1, <3>2 DEF connect
  <2> QED
    BY <1>2, <2>3 DEF MaxAttempts
<1>6. ASSUME NEW c \in Callers, useConnection(c) PROVE Excused'
  <2>1. ref[c] \in Boxes /\ ref[c] = registered /\ ref[c] # None /\ fingerprint # None
    BY <1>6 DEF useConnection, Typed, TypeOK, RefsAreBoxes, Single, WorksOnRegistered
  <2>2. held(ref[c]) = refused(ref[c]) /\ held(ref[c]) \in {0, 1}
    BY <2>1 DEF held, refused, alive, Single, Held
  <2>3. CASE mishap(0, 0)
    BY <1>2, <2>3
  <2>4. CASE \E n \in 0..MaxAttempts : mishap(refused(ref[c]) + n, n + held(ref[c]))
    <3>1. PICK n \in 0..MaxAttempts : mishap(refused(ref[c]) + n, n + held(ref[c]))
      BY <2>4
    <3>2. /\ refused(ref[c]) + n \in Nat /\ n + held(ref[c]) \in Nat
          /\ n + held(ref[c]) <= refused(ref[c]) + n
      BY <2>2 DEF MaxAttempts
    <3> QED
      BY <1>2, <3>1, <3>2
  <2>5. 0..(MaxAttempts - 1) \subseteq 0..MaxAttempts
    BY DEF MaxAttempts
  <2> QED
    BY <1>6, <2>3, <2>4, <2>5 DEF useConnection
<1>7. ASSUME NEW c \in Callers, Call(c) PROVE connect(c) \/ useConnection(c) \/ UNCHANGED <<orphans, mishaps>>
  BY <1>7 DEF Call, getConnection, loadConnection, finishRemoval, invalidate
<1>8. changeCredentials \/ boxComesOrGoes \/ UNCHANGED vars => UNCHANGED <<orphans, mishaps>>
  BY DEF changeCredentials, boxComesOrGoes, vars
<1> QED
  BY <1>3, <1>4, <1>5, <1>6, <1>7, <1>8 DEF Next

(* What Single says of a lone caller holds in every reachable state, and   *)
(* what Excused says.                                                      *)
LEMMA SingleAlways == ASSUME SingleCaller PROVE Spec => [](Single /\ Excused)
<1>1. Init => OneConnectionAtATime /\ PendingIsUnderWay /\ Single /\ Excused
  BY DEF Init, OneConnectionAtATime, PendingIsUnderWay, Resolving, Single, WorksOnRegistered,
     Removable, AfterDuplicate, Accounted, Held, Excused
<1>2. Typed /\ OneConnectionAtATime /\ PendingIsUnderWay /\ [Next]_vars
        => OneConnectionAtATime' /\ PendingIsUnderWay'
  BY OneConnectionNext
<1>3. Typed /\ OneConnectionAtATime /\ PendingIsUnderWay /\ Single /\ [Next]_vars => Single'
  BY SingleNext
<1>4. Typed /\ Single /\ Excused /\ [Next]_vars => Excused'
  BY ExcusedNext
<1> QED
  BY <1>1, <1>2, <1>3, <1>4, TypedAlways, PTL DEF Spec

(* A box whose removal failed is left in a state from which the next call  *)
(* removes it without the box.                                             *)
THEOREM StuckBoxIsRemovable == ASSUME SingleCaller PROVE Spec => []StuckBoxHasNoSession
<1>1. Typed /\ Single => StuckBoxHasNoSession
  BY DEF Single, Removable, StuckBoxHasNoSession
<1> QED
  BY <1>1, TypedAlways, SingleAlways, PTL

(* Every session on the box is one the program can still end or has tried  *)
(* to end; those whose sid is gone number at most the login replies that   *)
(* were lost and the commands rejected on a live session.                  *)
THEOREM NoSessionIsForgotten == ASSUME SingleCaller PROVE Spec => []SessionsAreAccountedFor
<1>1. Typed /\ Single /\ Excused => SessionsAreAccountedFor
  BY DEF Single, Accounted, Excused, SessionsAreAccountedFor
<1> QED
  BY <1>1, TypedAlways, SingleAlways, PTL

(* A call after one that found the old box still registered does not find  *)
(* it again.                                                               *)
THEOREM DuplicateIsNotRepeated == ASSUME SingleCaller PROVE Spec => DuplicateIdAtMostOnce
<1>1. Single => [ \A c \in Callers :
                    pc[c] = "removing" /\ pc'[c] = "idle" => outcome[c] # "duplicate_id" ]_vars
  BY DEF Single, AfterDuplicate
<1> QED
  BY <1>1, SingleAlways, PTL DEF DuplicateIdAtMostOnce
=============================================================================
