------------------------------ MODULE Accounts ------------------------------
(***************************************************************************)
(* The accounts of the platform: the table users, the API requests and     *)
(* commands that change it (auth/service.py, api/routes/users.py and       *)
(* auth.py, cli.py), the check that every request passes                   *)
(* (api/dependencies.py) and the administrator that every request makes    *)
(* sure of (api/app.py).                                                   *)
(*                                                                         *)
(* A step is one statement or one commit.  The check and the handler of a  *)
(* request share a session, which reads a row once: an administrator who   *)
(* edits the own account edits the row that the check has read.  A commit  *)
(* writes the columns that were assigned another value than the one read.  *)
(*                                                                         *)
(* A token only names its account: whoever has an account may hold one.  A *)
(* request that is refused changes nothing.  Names, dates and the audit    *)
(* trail, which the code only writes, are left out.                        *)
(***************************************************************************)
EXTENDS Naturals, FiniteSets

CONSTANTS
  Account,      \* the ids that rows may get
  Email, Password,
  Role,         \* the roles told apart; "admin" is one
  NoRow,
  Tables,       \* the tables to begin with: none, or one of an older release
  Asks,         \* the requests and commands that are sent
  Call,         \* those that can be under way at a time
  MaxCalls      \* bound on them

Row == [email : Email, role : Role, enabled : BOOLEAN, password : Password,
        legacy : BOOLEAN]    \* hashed with parameters that are not today's

Creating  == {"add", "register", "create", "bootstrap"}
Resetting == {"reset", "set_password"}
ByAdmin   == {"add", "update", "reset"}              \* require_roles("admin")
ByCommand == {"create", "set_password", "set_enabled"}

\* A call names the account or, if it creates one, the columns.  The payload of
\* an update has at most one value for each column, in a set.
Optional(values) == {{}} \cup {{v} : v \in values}

Ask ==
  [kind : Creating, email : Email, role : Role, enabled : BOOLEAN, password : Password]
    \cup [kind : {"update"}, target : Account, role : Optional(Role),
          enabled : Optional(BOOLEAN)]
    \cup [kind : {"set_enabled"}, target : Account, enabled : BOOLEAN]
    \cup [kind : Resetting \cup {"login"}, target : Account, password : Password]

ASSUME AccountsAssumption ==
  /\ "admin" \in Role
  /\ NoRow \notin Row
  /\ IsFiniteSet(Account)
  /\ Asks \subseteq Ask
  /\ MaxCalls \in Nat
  /\ \A t \in Tables :
       /\ t \in [Account -> Row \cup {NoRow}]
       /\ \A a, b \in Account :
            t[a] # NoRow /\ t[b] # NoRow /\ t[a].email = t[b].email => a = b

VARIABLES
  users,   \* the table
  call,    \* what is under way: [step |-> "idle"], or the step, what was asked,
           \* the row that was read, and who was an enabled administrator then
  calls    \* begun so far

vars == <<users, call, calls>>

Idle == [step |-> "idle"]

TypeOK ==
  /\ users \in [Account -> Row \cup {NoRow}]
  /\ call \in [Call -> {Idle} \cup
       [step : {"read", "count", "commit"}, ask : Asks, row : Row \cup {NoRow},
        seen : SUBSET Account]]
  /\ calls \in 0..MaxCalls
  /\ \A c \in Call : call[c].step \in {"count", "commit"} =>
       IF call[c].ask.kind \in Creating THEN call[c].row = NoRow ELSE call[c].row # NoRow

Init ==
  /\ users \in Tables
  /\ call = [c \in Call |-> Idle]
  /\ calls = 0

-----------------------------------------------------------------------------
IsAdmin(row) == row # NoRow /\ row.role = "admin" /\ row.enabled

EnabledAdmins == {a \in Account : IsAdmin(users[a])}

Taken(email) == \E a \in Account : users[a] # NoRow /\ users[a].email = email

\* Mutant of Unique: no constraint on the column.
Unconstrained(email) == TRUE

\* The constraint on the column email.
Unique(email) == ~Taken(email)

\* Mutant of NotFound: a row is expected.
NeverNotFound(row) == FALSE

NotFound(row) == row = NoRow

\* setattr, for a column of the payload.
Changed(row, column, value) ==
  IF value = {} THEN row ELSE [row EXCEPT ![column] = CHOOSE v \in value : TRUE]

\* Mutant of Removes: only looks at the role.
Demotes(ask, row) ==
  IsAdmin(row) /\ ask.kind = "update" /\ ~(ask.role \subseteq {"admin"})

\* update_user: removes_enabled_admin.
Removes(ask, row) ==
  /\ IsAdmin(row)
  /\ ask.kind = "update"
  /\ ~(ask.role \subseteq {"admin"}) \/ FALSE \in ask.enabled

\* Mutant of NeedsRehash: every login writes the hash.
AlwaysRehash(row) == TRUE

NeedsRehash(row) == row.legacy

\* The row that the session wants in place of the one it has read.
Wanted(ask, row) ==
  CASE ask.kind = "update" ->
         Changed(Changed(row, "role", ask.role), "enabled", ask.enabled)
    [] ask.kind = "set_enabled" -> [row EXCEPT !.enabled = ask.enabled]
    [] ask.kind \in Resetting -> [row EXCEPT !.password = ask.password, !.legacy = FALSE]
    [] ask.kind = "login" -> [row EXCEPT !.legacy = FALSE]

\* password_hash: a new hash differs from the old one, also of one password.
Rehashes(ask, row) ==
  ask.kind \in Resetting \/ (ask.kind = "login" /\ NeedsRehash(row))

\* The columns that the commit writes.
Dirty(ask, row) ==
  {k \in {"role", "enabled"} : Wanted(ask, row)[k] # row[k]}
    \cup (IF Rehashes(ask, row) THEN {"password", "legacy"} ELSE {})

Flushed(ask, row, now) ==
  [k \in DOMAIN now |-> IF k \in Dirty(ask, row) THEN Wanted(ask, row)[k] ELSE now[k]]

Inserted(ask) ==
  [email |-> ask.email, role |-> ask.role, password |-> ask.password, legacy |-> FALSE,
   enabled |-> IF ask.kind = "add" THEN ask.enabled ELSE TRUE]

-----------------------------------------------------------------------------
Goto(c, next) == call' = [call EXCEPT ![c] = next]

End(c) == Goto(c, Idle)

(* A call begins.  The check of a request for administrators, by the holder *)
(* of a token, reads the row of its account.                                *)
Begin(c, ask, row) ==
  /\ call[c] = Idle
  /\ calls < MaxCalls
  /\ calls' = calls + 1
  /\ Goto(c, [step |-> "read", ask |-> ask, row |-> row, seen |-> EnabledAdmins])
  /\ UNCHANGED users

BeginOther(c, ask) == ask.kind \notin ByAdmin /\ Begin(c, ask, NoRow)

BeginAsAdmin(c, ask, actor) ==
  /\ ask.kind \in ByAdmin
  /\ IsAdmin(users[actor])
  /\ Begin(c, ask, IF ask.kind # "add" /\ ask.target = actor THEN users[actor] ELSE NoRow)

(* create_user: is there one with the email?  (The bootstrap asks twice.)  *)
ReadExisting(c) ==
  /\ call[c].step = "read" /\ call[c].ask.kind \in Creating
  /\ IF Taken(call[c].ask.email) THEN End(c)
     ELSE Goto(c, [call[c] EXCEPT !.step = "commit"])
  /\ UNCHANGED <<users, calls>>

(* session.get and the queries by email: the row, unless the session has it. *)
ReadTarget(c) ==
  /\ call[c].step = "read" /\ call[c].ask.kind \notin Creating
  /\ LET ask   == call[c].ask
         known == call[c].row # NoRow
         row   == IF known THEN call[c].row ELSE users[ask.target]
         seen  == IF known THEN call[c].seen ELSE EnabledAdmins
         Refused == \/ NotFound(row)
                    \/ ask.kind = "login" /\ ~(row.enabled /\ row.password = ask.password)
     IN IF Refused THEN End(c)
        ELSE Goto(c, [step |-> IF Removes(ask, row) THEN "count" ELSE "commit",
                      ask |-> ask, row |-> row, seen |-> seen])
  /\ UNCHANGED <<users, calls>>

(* update_user: the final one stays. *)
CountAdmins(c) ==
  /\ call[c].step = "count"
  /\ IF Cardinality(EnabledAdmins) <= 1 THEN End(c)
     ELSE Goto(c, [call[c] EXCEPT !.step = "commit", !.seen = EnabledAdmins])
  /\ UNCHANGED <<users, calls>>

(* A second row with the email is an IntegrityError: 500, or swallowed.    *)
CommitInsert(c) ==
  /\ call[c].step = "commit" /\ call[c].ask.kind \in Creating
  /\ IF Unique(call[c].ask.email)
     THEN \E a \in Account : /\ users[a] = NoRow
                             /\ users' = [users EXCEPT ![a] = Inserted(call[c].ask)]
     ELSE UNCHANGED users
  /\ End(c)
  /\ UNCHANGED calls

CommitUpdate(c) ==
  /\ call[c].step = "commit" /\ call[c].ask.kind \notin Creating
  /\ users' = [users EXCEPT ![call[c].ask.target] = Flushed(call[c].ask, call[c].row, @)]
  /\ End(c)
  /\ UNCHANGED calls

(* The process dies, or the database is locked for too long. *)
Fail(c) ==
  /\ call[c] # Idle
  /\ End(c)
  /\ UNCHANGED <<users, calls>>

Next ==
  \E c \in Call :
    \/ \E ask \in Asks : \/ BeginOther(c, ask)
                         \/ \E actor \in Account : BeginAsAdmin(c, ask, actor)
    \/ ReadExisting(c) \/ ReadTarget(c) \/ CountAdmins(c)
    \/ CommitInsert(c) \/ CommitUpdate(c) \/ Fail(c)

Spec == Init /\ [][Next]_vars

-----------------------------------------------------------------------------
\* A person has one account, however many requests to register, commands and
\* bootstraps, which every request runs, find at the same time that there is
\* none: authenticate and the commands take the first row with the email.
OneAccountPerEmail ==
  \A a, b \in Account :
    users[a] # NoRow /\ users[b] # NoRow /\ users[a].email = users[b].email => a = b

\* M9_EXECUTION_GUIDE.md: "The final enabled administrator cannot be disabled or
\* demoted through the API".  What does hold: if there is none left, a command
\* did it, or the request that did it is not the only one: who was an
\* administrator has changed since it counted them or, if it saw no need to
\* count, since it read the row.
FinalAdminGoesByTwo ==
  [][EnabledAdmins # {} /\ EnabledAdmins' = {} =>
       \E c \in Call : /\ call[c].step = "commit" /\ call'[c] = Idle
                       /\ \/ call[c].ask.kind \in ByCommand
                          \/ call[c].seen # EnabledAdmins]_vars

\* The hash is today's, and no login is about to write the one it made of the
\* password it has verified.
Settled(a) ==
  /\ users[a] # NoRow /\ ~users[a].legacy
  /\ \A c \in Call :
       ~ /\ call[c].step = "commit" /\ call[c].ask.kind = "login"
         /\ call[c].ask.target = a /\ NeedsRehash(call[c].row)

\* A password that was reset stays so.  A login that renews an old hash may
\* overtake a reset and put the old password back, but only once: an account
\* that is settled stays settled, and only a reset changes its password.
ResetsStick ==
  [][\A a \in Account : Settled(a) =>
       /\ Settled(a)'
       /\ users'[a].password # users[a].password =>
            \E c \in Call : /\ call[c].step = "commit" /\ call'[c] = Idle
                            /\ call[c].ask.kind \in Resetting]_vars

=============================================================================
