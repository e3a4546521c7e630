--------------------------- MODULE MCAuthSessions ---------------------------
(* An account of the seed, one still to be registered, and what admins send. *)
EXTENDS AuthSessions, TLC

Absent == [state |-> "absent", status |-> "pending", role |-> "user", password |-> Hashed("p1")]
Active == [state |-> "present", status |-> "active", role |-> "user", password |-> Hashed("p1")]
MCInitialUsers == {Absent, Active}
MCPasswords == {"p1", "p2"}
Approve == [status |-> "active", role |-> "verwaltung", password |-> NoPassword]
Create == [status |-> "active", role |-> "user", password |-> Chosen("p1")]
Bare == [status |-> Undefined, role |-> Undefined, password |-> Chosen("p2")]
MCAdminDtos == {Approve, Create, Bare}
MCSymmetry == Permutations(Requests)
=============================================================================
