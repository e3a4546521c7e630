-------------------------- MODULE FritzConnection ---------------------------
(***************************************************************************)
(* The connection to the FRITZ!Box of one location:                        *)
(* FritzBoxConnectionManager (fritzbox-connection-manager.service.ts),     *)
(* the FritzBoxManager, FritzBox and SessionManager of libs/fritzbox-aha   *)
(* it holds, and the use HeatingService makes of the connection.           *)
(* Locations share nothing (maps keyed by location), so one is enough.     *)
(*                                                                         *)
(* A caller asks for the connection, sends one command over it, and        *)
(* invalidates it when the box does not answer.  Meanwhile administrators  *)
(* change the credentials of the location and the box comes and goes.      *)
(* Every await is a step: the database read, the logout and the login.     *)
(*                                                                         *)
(* Bounds: Boxes (FritzBox objects alive at a time), MaxFaults (times the  *)
(* box appears or vanishes, failed reads), MaxMishaps (replies to logins   *)
(* that are lost, commands rejected with 401 or 403 on a live session),    *)
(* MaxEdits (credential changes).                                          *)
(*                                                                         *)
(* A definition named <definition>_<fault> is a faulty form of the one     *)
(* that follows it: a property has to tell the two apart.                  *)
(***************************************************************************)
EXTENDS Integers, FiniteSets

CONSTANTS
  Callers,        \* concurrent users; the scheduler is a single one
  Credentials,    \* complete credentials (url, user, password)
  Boxes,          \* identities of FritzBox objects
  None,           \* undefined
  MaxFaults, MaxMishaps, MaxEdits

NoCredentials == {"deleted", "unmapped"}   \* no location, or incomplete

ASSUME NamesAssumption ==
  /\ None \notin Credentials \cup Boxes \cup Callers
  /\ Credentials \cap NoCredentials = {}
  /\ MaxFaults \in Nat /\ MaxMishaps \in Nat /\ MaxEdits \in Nat

VARIABLES
  stored,       \* credentials of the location in the database
  online,       \* credentials a FRITZ!Box answers to
  sessions,     \* FritzBox objects whose last session is alive on the box
  orphans,      \* number of live sessions whose sid no object has any more
  box,          \* object -> [creds, state, sid] of the FritzBox object
  registered,   \* manager.boxes of this location: an object or None
  fingerprint,  \* fingerprints of this location: credentials or None
  pending,      \* the caller whose resolveConnection is under way, or None
  pc,           \* caller -> where it is
  conn,         \* caller -> credentials its resolveConnection has loaded
  ref,          \* caller -> the FritzBox object it works on
  outcome,      \* caller -> how its last getConnection ended
  lost,         \* objects whose logout failed (only logged)
  faults, mishaps, edits

client == <<box, registered, fingerprint, pending, pc, conn, ref, outcome, lost>>
vars   == <<stored, online, sessions, orphans, box, registered, fingerprint, pending, pc,
            conn, ref, outcome, lost, faults, mishaps, edits>>

Fresh == [creds |-> None, state |-> "disconnected", sid |-> FALSE]

Init ==
  /\ stored \in Credentials
  /\ online = Credentials
  /\ sessions = {} /\ orphans = 0
  /\ box = [b \in Boxes |-> Fresh]
  /\ registered = None /\ fingerprint = None /\ pending = None
  /\ pc = [c \in Callers |-> "idle"]
  /\ conn = [c \in Callers |-> None]
  /\ ref = [c \in Callers |-> None]
  /\ outcome = [c \in Callers |-> "none"]
  /\ lost = {}
  /\ faults = 0 /\ mishaps = 0 /\ edits = 0

goto(c, where) == pc' = [pc EXCEPT ![c] = where]
answers(b) == box[b].creds \in online

-----------------------------------------------------------------------------
(* The promise of c settles, for c and for the callers that share it.      *)

sharers(c) == {c} \cup {d \in Callers : pc[d] = "joined"}

resolved(c, b) ==
  /\ pending' = None
  /\ pc' = [d \in Callers |-> IF d \in sharers(c) THEN "using" ELSE pc[d]]
  /\ ref' = [d \in Callers |-> IF d \in sharers(c) THEN b ELSE ref[d]]
  /\ outcome' = [d \in Callers |-> IF d \in sharers(c) THEN "ok" ELSE outcome[d]]

rejected_stillPending(c, cause) ==
  /\ UNCHANGED pending
  /\ pc' = [pc EXCEPT ![c] = "idle"]
  /\ ref' = [ref EXCEPT ![c] = None]
  /\ outcome' = [outcome EXCEPT ![c] = cause]

rejected(c, cause) ==
  /\ pending' = None
  /\ pc' = [d \in Callers |-> IF d \in sharers(c) THEN "idle" ELSE pc[d]]
  /\ ref' = [d \in Callers |-> IF d \in sharers(c) THEN None ELSE ref[d]]
  /\ outcome' = [d \in Callers |-> IF d \in sharers(c) THEN cause ELSE outcome[d]]

(* manager.add: a FritzBox that nothing refers to any more is used for the *)
(* new one.                                                                *)
unusedBoxes == {b \in Boxes : b \notin sessions /\ b # registered /\ \A c \in Callers : ref[c] # b}

addAndConnect_noFingerprint(c, creds, boxes, entry) ==
  IF entry # None
  THEN rejected(c, "duplicate_id") /\ box' = boxes /\ UNCHANGED <<registered, fingerprint>>
  ELSE \E b \in unusedBoxes :
         /\ box' = [boxes EXCEPT ![b] = [creds |-> creds, state |-> "connecting", sid |-> FALSE]]
         /\ registered' = b /\ fingerprint' = None
         /\ ref' = [ref EXCEPT ![c] = b]
         /\ goto(c, "connecting") /\ UNCHANGED <<pending, outcome>>

addAndConnect_fingerprintFirst(c, creds, boxes, entry) ==
  /\ fingerprint' = creds
  /\ IF entry # None
     THEN rejected(c, "duplicate_id") /\ box' = boxes /\ UNCHANGED registered
     ELSE \E b \in unusedBoxes :
            /\ box' = [boxes EXCEPT ![b] = [creds |-> creds, state |-> "connecting", sid |-> FALSE]]
            /\ registered' = b
            /\ ref' = [ref EXCEPT ![c] = b]
            /\ goto(c, "connecting") /\ UNCHANGED <<pending, outcome>>

(* The connection is added and connected: `boxes` and `entry` are the      *)
(* objects and the map entry at that moment.  manager.add throws when the  *)
(* id is still registered.                                                 *)
addAndConnect(c, creds, boxes, entry) ==
  IF entry # None
  THEN /\ rejected(c, "duplicate_id")
       /\ box' = boxes
       /\ UNCHANGED <<registered, fingerprint>>
  ELSE \E b \in unusedBoxes :
         /\ box' = [boxes EXCEPT ![b] = [creds |-> creds, state |-> "connecting", sid |-> FALSE]]
         /\ registered' = b
         /\ fingerprint' = creds
         /\ ref' = [ref EXCEPT ![c] = b]
         /\ goto(c, "connecting")
         /\ UNCHANGED <<pending, outcome>>

(* invalidate, up to the logout request: the fingerprint goes at once, the *)
(* SessionManager forgets its sid before it asks the box to end the        *)
(* session.  Without a sid there is no request and the entry is removed.   *)
disconnected_closed(b) == [box EXCEPT ![b].state = "closed"]
disconnected(b) == [box EXCEPT ![b].state = "disconnected"]

startLogout_keepsSid(c, boxes, where) ==
  /\ fingerprint' = None
  /\ ref' = [ref EXCEPT ![c] = registered]
  /\ goto(c, where)
  /\ box' = boxes
  /\ UNCHANGED registered

startLogout(c, boxes, where) ==
  /\ fingerprint' = None
  /\ box' = [boxes EXCEPT ![registered].sid = FALSE]
  /\ ref' = [ref EXCEPT ![c] = registered]
  /\ goto(c, where)
  /\ UNCHANGED registered

getConnection(c) ==
  /\ pc[c] = "idle"
  /\ IF pending # None
     THEN goto(c, "joined") /\ UNCHANGED pending
     ELSE goto(c, "load") /\ pending' = c
  /\ UNCHANGED <<stored, online, sessions, orphans, box, registered, fingerprint, conn, ref,
                 outcome, lost, faults, mishaps, edits>>

(* The fingerprint of the last connection tells whether it may be used.    *)
isCurrent_always(creds) == TRUE
isCurrent(creds) == fingerprint = creds

(* The database has answered: no credentials, an error, or credentials.    *)
loadConnection(c) ==
  /\ pc[c] = "load"
  /\ \/ /\ stored \in NoCredentials
        /\ rejected(c, stored)
        /\ UNCHANGED <<conn, box, registered, fingerprint, faults>>
     \/ /\ faults < MaxFaults /\ faults' = faults + 1
        /\ rejected(c, "load_failed")
        /\ UNCHANGED <<conn, box, registered, fingerprint>>
     \/ /\ stored \in Credentials
        /\ conn' = [conn EXCEPT ![c] = stored]
        /\ \/ /\ registered = None
              /\ addAndConnect(c, stored, box, None)
           \/ /\ registered # None /\ ~isCurrent(stored) /\ box[registered].sid
              /\ startLogout(c, box, "removing")
              /\ UNCHANGED <<pending, outcome>>
           \/ /\ registered # None /\ ~isCurrent(stored) /\ ~box[registered].sid
              /\ addAndConnect(c, stored, disconnected(registered), None)
           \/ /\ registered # None /\ isCurrent(stored)
              /\ box[registered].state = "connected"
              /\ resolved(c, registered)
              /\ UNCHANGED <<box, registered, fingerprint>>
           \/ /\ registered # None /\ isCurrent(stored)
              /\ box[registered].state # "connected"
              /\ box' = [box EXCEPT ![registered].state = "connecting"]
              /\ ref' = [ref EXCEPT ![c] = registered]
              /\ goto(c, "connecting")
              /\ UNCHANGED <<pending, outcome, registered, fingerprint>>
        /\ UNCHANGED faults
  /\ UNCHANGED <<stored, online, sessions, orphans, lost, mishaps, edits>>

(* The logout request is answered or fails.  Only after a successful one   *)
(* is the entry of the map deleted, whatever box it holds by then.         *)
logout_notSent(b) == UNCHANGED <<sessions, lost>>
logout(b) ==
  IF answers(b)
  THEN sessions' = sessions \ {b} /\ UNCHANGED lost
  ELSE lost' = lost \cup {b} /\ UNCHANGED sessions

finishRemoval(c) ==
  /\ pc[c] = "removing"
  /\ LET b == ref[c]
     IN  /\ logout(b)
         /\ addAndConnect(c, conn[c], disconnected(b),
                          IF answers(b) THEN None ELSE registered)
  /\ UNCHANGED <<stored, online, orphans, conn, faults, mishaps, edits>>

(* A login is tried up to three times (RetryPolicy).  Every attempt whose  *)
(* reply is lost leaves a session on the box whose sid nobody knows, and   *)
(* so does an older one of the object that is still alive when the new sid *)
(* takes its place.                                                        *)
MaxAttempts == 3
held(b) == IF b \in sessions THEN 1 ELSE 0

mishap(count, left) ==
  /\ mishaps + count <= MaxMishaps
  /\ mishaps' = mishaps + count
  /\ orphans' = orphans + left

(* FritzBox.connect: a sid is there, or the login is answered or fails.    *)
connect(c) ==
  /\ pc[c] = "connecting"
  /\ LET b == ref[c]
     IN  \/ /\ box[b].sid
            /\ box' = [box EXCEPT ![b].state = "connected", ![b].sid = TRUE]
            /\ mishap(0, 0)
            /\ resolved(c, b)
            /\ UNCHANGED <<sessions, lost>>
         \/ /\ answers(b) /\ ~box[b].sid
            /\ \E n \in 0..(MaxAttempts - 1) : mishap(n, n + held(b))
            /\ box' = [box EXCEPT ![b].state = "connected", ![b].sid = TRUE]
            /\ sessions' = sessions \cup {b} /\ lost' = lost \ {b}
            /\ resolved(c, b)
         \/ /\ ~box[b].sid
            /\ \E n \in 0..MaxAttempts : (answers(b) <=> n > 0) /\ mishap(n, n)
            /\ box' = [box EXCEPT ![b].state = "disconnected"]
            /\ rejected(c, "FRITZBOX_UNREACHABLE")
            /\ UNCHANGED <<sessions, lost>>
  /\ UNCHANGED <<stored, online, registered, fingerprint, conn, faults, edits>>

-----------------------------------------------------------------------------
(* A command over the connection.  AhaClient.execute discards the sid on a *)
(* 401 or 403, of a session that has ended as of one that is alive, logs   *)
(* in again and repeats the command.  Is the login not answered or the     *)
(* command rejected again, HeatingService invalidates the connection, as   *)
(* it does when the box does not answer at all.                            *)
alive(b) == box[b].sid /\ b \in sessions
refused(b) == IF alive(b) THEN 1 ELSE 0

startInvalidation(c, boxes) ==
  IF registered # None /\ boxes[registered].sid
  THEN startLogout(c, boxes, "invalidating")
  ELSE /\ fingerprint' = None
       /\ registered' = None
       /\ box' = IF registered # None
                 THEN [boxes EXCEPT ![registered].state = "disconnected"]
                 ELSE boxes
       /\ goto(c, "idle") /\ ref' = [ref EXCEPT ![c] = None]

useConnection(c) ==
  /\ pc[c] = "using"
  /\ LET b == ref[c]
     IN  \/ /\ answers(b)
            /\ \/ alive(b) /\ mishap(0, 0)
               \/ \E n \in 0..(MaxAttempts - 1) : mishap(refused(b) + n, n + held(b))
            /\ box' = [box EXCEPT ![b].sid = TRUE]
            /\ sessions' = sessions \cup {b}
            /\ goto(c, "idle") /\ ref' = [ref EXCEPT ![c] = None]
            /\ UNCHANGED <<registered, fingerprint>>
         \/ /\ answers(b)
            /\ \E n \in 0..MaxAttempts : refused(b) + n > 0 /\ mishap(refused(b) + n, n + held(b))
            /\ sessions' = sessions \ {b}
            /\ startInvalidation(c, [box EXCEPT ![b].sid = FALSE])
         \/ /\ ~answers(b)
            /\ mishap(0, 0)
            /\ startInvalidation(c, box)
            /\ UNCHANGED sessions
  /\ UNCHANGED <<stored, online, pending, conn, outcome, lost, faults, edits>>

invalidate(c) ==
  /\ pc[c] = "invalidating"
  /\ LET b == ref[c]
     IN  /\ logout(b)
         /\ box' = disconnected(b)
         /\ registered' = IF answers(b) THEN None ELSE registered
  /\ goto(c, "idle") /\ ref' = [ref EXCEPT ![c] = None]
  /\ UNCHANGED <<stored, online, orphans, fingerprint, pending, conn, outcome, faults, mishaps, edits>>

-----------------------------------------------------------------------------
(* The environment                                                         *)

changeCredentials ==
  /\ edits < MaxEdits /\ edits' = edits + 1
  /\ stored' \in (Credentials \cup NoCredentials) \ {stored}
  /\ UNCHANGED <<online, sessions, orphans, client, faults, mishaps>>

boxComesOrGoes ==
  /\ faults < MaxFaults /\ faults' = faults + 1
  /\ \E k \in Credentials :
       online' = IF k \in online THEN online \ {k} ELSE online \cup {k}
  /\ UNCHANGED <<stored, sessions, orphans, client, mishaps, edits>>

(* The box drops a session after some idle time.                           *)
sessionExpires ==
  /\ \/ (\E b \in sessions : sessions' = sessions \ {b}) /\ UNCHANGED orphans
     \/ orphans > 0 /\ orphans' = orphans - 1 /\ UNCHANGED sessions
  /\ UNCHANGED <<stored, online, client, faults, mishaps, edits>>

Call(c) ==
  \/ getConnection(c) \/ loadConnection(c) \/ finishRemoval(c)
  \/ connect(c) \/ useConnection(c) \/ invalidate(c)

Next ==
  \/ \E c \in Callers : Call(c)
  \/ changeCredentials \/ boxComesOrGoes \/ sessionExpires

(* Requests time out after 10 s, callers come back every minute, and the   *)
(* box ends idle sessions.                                                 *)
Fairness == (\A c \in Callers : WF_vars(Call(c))) /\ WF_vars(sessionExpires)

Spec == Init /\ [][Next]_vars /\ Fairness

-----------------------------------------------------------------------------
(* Correctness                                                             *)

Steps == {"idle", "load", "joined", "removing", "connecting", "using", "invalidating"}
Outcomes == {"none", "ok", "load_failed", "duplicate_id", "FRITZBOX_UNREACHABLE"} \cup NoCredentials
BoxRecords == [creds : Credentials \cup {None},
               state : {"disconnected", "connecting", "connected"}, sid : BOOLEAN]

TypeOK ==
  /\ stored \in Credentials \cup NoCredentials
  /\ online \subseteq Credentials
  /\ sessions \subseteq Boxes /\ lost \subseteq Boxes
  /\ box \in [Boxes -> BoxRecords]
  /\ registered \in Boxes \cup {None}
  /\ fingerprint \in Credentials \cup {None}
  /\ pending \in Callers \cup {None}
  /\ pc \in [Callers -> Steps]
  /\ conn \in [Callers -> Credentials \cup {None}]
  /\ ref \in [Callers -> Boxes \cup {None}]
  /\ outcome \in [Callers -> Outcomes]
  /\ orphans \in Nat /\ faults \in Nat /\ mishaps \in Nat /\ edits \in Nat

Resolving(c) == pc[c] \in {"load", "removing", "connecting"}

(* "Verhindert parallele Verbindungsaufbauten zur selben FRITZ!Box": only  *)
(* the caller that holds `pending` connects, and those that joined it wait *)
(* for it and never for a promise that is gone.                            *)
OneConnectionAtATime ==
  \A c \in Callers : /\ Resolving(c) => pending = c
                     /\ pc[c] = "joined" => pending # None /\ Resolving(pending)

(* The fingerprint of a location tells the credentials of the box that is  *)
(* registered: a box built from other credentials is never taken for       *)
(* current.                                                                *)
FingerprintTellsCredentials ==
  fingerprint # None /\ registered # None => box[registered].creds = fingerprint

(* A caller gets a box of the credentials its call has read, not of those  *)
(* from before an administrator's change.                                  *)
ConnectionIsCurrent ==
  [][ \A c \in Callers :
        Resolving(c) /\ pc'[c] = "using" =>
          /\ box[ref'[c]].creds = conn'[c]
          /\ box'[ref'[c]].state = "connected" ]_vars

(* A box whose removal failed has no sid any more, so that the next access *)
(* can remove it without asking the box (a single caller).                 *)
StuckBoxHasNoSession ==
  registered # None /\ fingerprint = None =>
    \/ \E c \in Callers : pc[c] \in {"removing", "invalidating"} /\ ref[c] = registered
    \/ ~box[registered].sid

(* Hence the id of a location is found registered at most once in a row.   *)
DuplicateIdAtMostOnce ==
  [][ \A c \in Callers : pc[c] = "removing" /\ pc'[c] = "idle" => outcome[c] # "duplicate_id" ]_vars

(* Sessions on the box are not forgotten (a single caller): the last one   *)
(* of an object belongs to the box that is registered, is being logged     *)
(* out, or its logout failed.  What is left on the box besides is one      *)
(* session at most for each lost login reply and each command rejected on  *)
(* a live session.                                                         *)
SessionsAreAccountedFor ==
  /\ \A b \in sessions :
       \/ b = registered /\ box[b].sid
       \/ \E c \in Callers : pc[c] \in {"removing", "invalidating"} /\ ref[c] = b
       \/ b \in lost
  /\ orphans <= mishaps

(* Once the credentials stay and the box answers to them, calls succeed.   *)
ConnectionRecovers ==
  \A k \in Credentials :
    <>[](stored = k /\ k \in online) =>
      \A c \in Callers : <>[](outcome[c] = "ok")

(* "... ändern sie sich, wird die Verbindung der Location neu aufgebaut"   *)
(* (fritzbox-connection-manager.service.ts:31): an access never fails      *)
(* because the old connection is still registered.                         *)
ChangedCredentialsReconnect ==
  \A c \in Callers : outcome[c] # "duplicate_id"
=============================================================================
