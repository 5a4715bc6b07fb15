--------------------------- MODULE AccountsProofs ---------------------------
(***************************************************************************)
(* Proofs about Accounts, for any accounts, requests and number of them.   *)
(*                                                                         *)
(* A commit writes what was decided on a row, and on a count, that may be  *)
(* out of date.  The invariant therefore says of every call what it saw    *)
(* when it read (DecidedOnSight), and that the row it read is still there, *)
(* since nothing deletes an account (RowsStay).                            *)
(***************************************************************************)
EXTENDS Accounts, FiniteSetTheorems, TLAPS

\* What may be under way.
Calls ==
  [step : {"read", "count", "commit"}, ask : Asks, row : Row \cup {NoRow},
   seen : SUBSET Account]

\* A call that has a row has one of the account it names, which is still there;
\* only the check of a request for administrators reads it early.
RowsStay ==
  \A c \in Call : call[c] # Idle /\ call[c].row # NoRow =>
    /\ call[c].ask.kind \notin Creating
    /\ users[call[c].ask.target] # NoRow
    /\ call[c].step = "read" => call[c].ask.kind \in ByAdmin

\* Only updates count.  An administrator who is removed was one of several when
\* they were counted; and what a call saw without counting agrees with the row
\* it read.
DecidedOnSight ==
  \A c \in Call :
    /\ call[c].step = "count" => call[c].ask.kind = "update"
    /\ call[c].step \in {"read", "commit"} /\ call[c].row # NoRow =>
         \/ call[c].step = "commit" /\ Cardinality(call[c].seen) >= 2
         \/ /\ IsAdmin(call[c].row) <=> call[c].ask.target \in call[c].seen
            /\ call[c].step = "commit" => ~Removes(call[c].ask, call[c].row)

IInv == TypeOK /\ RowsStay /\ DecidedOnSight /\ OneAccountPerEmail

-----------------------------------------------------------------------------
\* What a call asks for has the columns of its kind.
LEMMA AsksAreTyped ==
  ASSUME NEW ask \in Asks
  PROVE  /\ ask.kind \in Creating =>
              ask \in [kind : Creating, email : Email, role : Role,
                       enabled : BOOLEAN, password : Password]
         /\ ask.kind \notin Creating => ask.target \in Account
         /\ ask.kind = "update" =>
              ask.role \in Optional(Role) /\ ask.enabled \in Optional(BOOLEAN)
         /\ ask.kind = "set_enabled" => ask.enabled \in BOOLEAN
         /\ ask.kind \in Resetting \cup {"login"} => ask.password \in Password
         /\ ask.kind \in Creating \cup Resetting \cup {"update", "set_enabled", "login"}
BY AccountsAssumption DEF Ask, Creating, Resetting

\* A column that a payload does not name stays, another one gets its value.
LEMMA ChangedColumn ==
  ASSUME NEW row \in Row, NEW S, NEW value \in Optional(S),
         NEW column \in {"role", "enabled"},
         column = "role" => S = Role, column = "enabled" => S = BOOLEAN
  PROVE  /\ Changed(row, column, value) \in Row
         /\ \A k \in (DOMAIN row) \ {column} : Changed(row, column, value)[k] = row[k]
         /\ Changed(row, column, value)[column] = row[column]
              \/ Changed(row, column, value)[column] \in value
<1>1. CASE value = {}
  BY <1>1 DEF Changed
<1>2. CASE value # {}
  <2>1. PICK v \in S : value = {v}
    BY <1>2 DEF Optional
  <2>2. (CHOOSE w \in value : TRUE) = v
    BY <2>1
  <2> QED BY <1>2, <2>1, <2>2 DEF Changed, Row
<1> QED BY <1>1, <1>2

\* What a session wants is a row, of the same person.
LEMMA WantedRow ==
  ASSUME NEW ask \in Asks, ask.kind \notin Creating, NEW row \in Row
  PROVE  /\ Wanted(ask, row) \in Row
         /\ ask.kind \in Resetting \cup {"login"} =>
              /\ Wanted(ask, row).role = row.role
              /\ Wanted(ask, row).enabled = row.enabled
              /\ Wanted(ask, row).legacy = FALSE
         /\ ask.kind = "login" => Wanted(ask, row).password = row.password
<1>1. CASE ask.kind = "update"
  <2> DEFINE first == Changed(row, "role", ask.role)
  <2>1. first \in Row
    BY <1>1, AsksAreTyped, ChangedColumn
  <2>2. Changed(first, "enabled", ask.enabled) \in Row
    BY <1>1, <2>1, AsksAreTyped, ChangedColumn
  <2> QED BY <1>1, <2>2 DEF Wanted, Resetting
<1>2. CASE ask.kind = "set_enabled"
  BY <1>2, AsksAreTyped DEF Wanted, Row, Resetting
<1>3. CASE ask.kind \in Resetting
  BY <1>3, AsksAreTyped DEF Wanted, Row, Resetting
<1>4. CASE ask.kind = "login"
  BY <1>4 DEF Wanted, Row, Resetting
<1> QED BY <1>1, <1>2, <1>3, <1>4, AsksAreTyped

\* An update that does not remove an administrator leaves the row of one.
LEMMA KeepsAdmin ==
  ASSUME NEW ask \in Asks, ask.kind = "update", NEW row \in Row,
         IsAdmin(row), ~Removes(ask, row)
  PROVE  Wanted(ask, row).role = row.role /\ Wanted(ask, row).enabled = row.enabled
<1> DEFINE first == Changed(row, "role", ask.role)
           last  == Changed(first, "enabled", ask.enabled)
<1>1. ask.role \subseteq {"admin"} /\ FALSE \notin ask.enabled
  BY DEF Removes
<1>2. ask.role \in Optional(Role) /\ ask.enabled \in Optional(BOOLEAN)
  BY AsksAreTyped
<1>3. /\ first \in Row
      /\ first.enabled = row.enabled
      /\ first.role = row.role \/ first.role \in ask.role
  <2>1. "enabled" \in (DOMAIN row) \ {"role"}
    BY DEF Row
  <2>2. /\ Changed(row, "role", ask.role) \in Row
        /\ \A k \in (DOMAIN row) \ {"role"} : Changed(row, "role", ask.role)[k] = row[k]
        /\ Changed(row, "role", ask.role)["role"] = row["role"]
             \/ Changed(row, "role", ask.role)["role"] \in ask.role
    BY <1>2, ChangedColumn
  <2> QED BY <2>1, <2>2
<1>4. /\ last.role = first.role
      /\ last.enabled = first.enabled \/ last.enabled \in ask.enabled
  BY <1>2, <1>3, ChangedColumn DEF Row
<1>5. row.role = "admin" /\ row.enabled = TRUE
  BY DEF IsAdmin, Row
<1>6. last.enabled = TRUE
  <2>1. ask.enabled \subseteq BOOLEAN
    BY <1>2 DEF Optional
  <2> QED BY <1>1, <1>3, <1>4, <1>5, <2>1
<1>7. Wanted(ask, row) = last
  BY DEF Wanted, Resetting
<1> HIDE DEF last, first
<1>8. last.role = row.role
  BY <1>1, <1>3, <1>4, <1>5
<1> QED BY <1>5, <1>6, <1>7, <1>8

\* What a commit makes of a row: a row of the same person, in which it has
\* changed no more than the columns that are dirty.
LEMMA FlushedRow ==
  ASSUME NEW ask \in Asks, ask.kind \notin Creating, NEW row \in Row, NEW now \in Row
  PROVE  /\ Flushed(ask, row, now) \in Row
         /\ Flushed(ask, row, now).email = now.email
         /\ ask.kind \in Resetting \cup {"login"} =>
              /\ Flushed(ask, row, now).role = now.role
              /\ Flushed(ask, row, now).enabled = now.enabled
         /\ Wanted(ask, row).role = row.role /\ Wanted(ask, row).enabled = row.enabled =>
              /\ Flushed(ask, row, now).role = now.role
              /\ Flushed(ask, row, now).enabled = now.enabled
         /\ ~Rehashes(ask, row) =>
              /\ Flushed(ask, row, now).password = now.password
              /\ Flushed(ask, row, now).legacy = now.legacy
         /\ Rehashes(ask, row) => ~Flushed(ask, row, now).legacy
<1>1. Wanted(ask, row) \in Row
  BY WantedRow
<1>2. DOMAIN now = {"email", "role", "enabled", "password", "legacy"}
  BY DEF Row
<1>3. /\ Dirty(ask, row) \subseteq {"role", "enabled", "password", "legacy"}
      /\ "role" \in Dirty(ask, row) <=> Wanted(ask, row).role # row.role
      /\ "enabled" \in Dirty(ask, row) <=> Wanted(ask, row).enabled # row.enabled
      /\ "password" \in Dirty(ask, row) <=> Rehashes(ask, row)
      /\ "legacy" \in Dirty(ask, row) <=> Rehashes(ask, row)
  BY DEF Dirty
<1>4. Rehashes(ask, row) => Wanted(ask, row).legacy = FALSE
  BY WantedRow DEF Rehashes
<1> DEFINE new == Flushed(ask, row, now)
           Of(k) == IF k \in Dirty(ask, row) THEN Wanted(ask, row)[k] ELSE now[k]
<1>5. new = [k \in {"email", "role", "enabled", "password", "legacy"} |-> Of(k)]
  BY <1>2 DEF Flushed
<1>6. /\ Of("email") \in Email /\ Of("role") \in Role /\ Of("enabled") \in BOOLEAN
      /\ Of("password") \in Password /\ Of("legacy") \in BOOLEAN
  BY <1>1, <1>3 DEF Row
<1>7. /\ new.email = Of("email") /\ new.role = Of("role") /\ new.enabled = Of("enabled")
      /\ new.password = Of("password") /\ new.legacy = Of("legacy")
  BY <1>5
<1>8. new \in Row
  BY <1>5, <1>6 DEF Row
<1>9. Of("email") = now.email
  BY <1>3
<1>10. ask.kind \in Resetting \cup {"login"} =>
         Wanted(ask, row).role = row.role /\ Wanted(ask, row).enabled = row.enabled
  BY WantedRow
<1> HIDE DEF new
<1>11. Wanted(ask, row).role = row.role /\ Wanted(ask, row).enabled = row.enabled =>
         new.role = now.role /\ new.enabled = now.enabled
  BY <1>3, <1>7
<1>12. ~Rehashes(ask, row) => new.password = now.password /\ new.legacy = now.legacy
  BY <1>3, <1>7
<1>13. Rehashes(ask, row) => ~new.legacy
  BY <1>3, <1>4, <1>7
<1> QED BY <1>7, <1>8, <1>9, <1>10, <1>11, <1>12, <1>13 DEF new

-----------------------------------------------------------------------------
\* A call that is not idle has a record.
LEMMA UnderWay ==
  ASSUME TypeOK, NEW c \in Call, call[c].step # "idle"
  PROVE  call[c] \in Calls /\ call[c] # Idle /\ call[c].ask \in Asks
<1>1. call[c] # Idle
  BY DEF Idle
<1>2. call[c] \in Calls
  BY <1>1 DEF TypeOK, Calls
<1> QED BY <1>1, <1>2 DEF Calls

\* A commit that inserts adds one row, if any, and its email is new.
LEMMA InsertedOne ==
  ASSUME TypeOK, NEW c \in Call, CommitInsert(c)
  PROVE  \/ users' = users
         \/ \E a \in Account :
              /\ users[a] = NoRow
              /\ users' = [users EXCEPT ![a] = Inserted(call[c].ask)]
              /\ Inserted(call[c].ask) \in Row
              /\ Unique(Inserted(call[c].ask).email)
<1> DEFINE ask == call[c].ask
<1>1. /\ ask \in Asks
      /\ ask.kind \in Creating
  BY UnderWay DEF CommitInsert
<1>2. ask \in [kind : Creating, email : Email, role : Role,
              enabled : BOOLEAN, password : Password]
  BY <1>1, AsksAreTyped
<1>3. Inserted(ask) \in Row /\ Inserted(ask).email = ask.email
  BY <1>2 DEF Inserted, Row
<1> QED BY <1>3 DEF CommitInsert

\* A commit of another kind writes the row of one account, which is there.
LEMMA UpdatedOne ==
  ASSUME TypeOK, RowsStay, NEW c \in Call, CommitUpdate(c)
  PROVE  /\ call[c].ask \in Asks
         /\ call[c].ask.kind \notin Creating
         /\ call[c].ask.target \in Account
         /\ call[c].row \in Row
         /\ users[call[c].ask.target] \in Row
         /\ users' = [users EXCEPT ![call[c].ask.target] =
                        Flushed(call[c].ask, call[c].row, users[call[c].ask.target])]
<1>1. /\ call[c] \in Calls /\ call[c] # Idle /\ call[c].ask \in Asks
      /\ call[c].ask.kind \notin Creating
      /\ call[c].step = "commit"
  BY UnderWay DEF CommitUpdate
<1>2. call[c].row # NoRow /\ call[c].row \in Row \cup {NoRow}
  BY <1>1 DEF TypeOK, Calls
<1>3. call[c].ask.target \in Account /\ users[call[c].ask.target] # NoRow
  BY <1>1, <1>2, AsksAreTyped DEF RowsStay
<1>4. users[call[c].ask.target] \in Row
  BY <1>3 DEF TypeOK
<1> QED BY <1>1, <1>2, <1>3, <1>4 DEF CommitUpdate

\* The read of an account ends the call, or leaves it with the row, and with
\* what was seen when the row was read.
LEMMA ReadOne ==
  ASSUME TypeOK, RowsStay, DecidedOnSight, NEW c \in Call, ReadTarget(c)
  PROVE  \/ End(c)
         \/ \E step \in {"count", "commit"}, row \in Row, seen \in SUBSET Account :
              /\ Goto(c, [step |-> step, ask |-> call[c].ask, row |-> row, seen |-> seen])
              /\ call[c].ask \in Asks
              /\ call[c].ask.kind \notin Creating
              /\ call[c].ask.target \in Account
              /\ users[call[c].ask.target] # NoRow
              /\ step = "commit" <=> ~Removes(call[c].ask, row)
              /\ IsAdmin(row) <=> call[c].ask.target \in seen
              /\ call[c].ask.kind \notin ByAdmin => row = users[call[c].ask.target]
<1> DEFINE ask   == call[c].ask
           known == call[c].row # NoRow
           row   == IF known THEN call[c].row ELSE users[ask.target]
           seen  == IF known THEN call[c].seen ELSE EnabledAdmins
           step  == IF Removes(ask, row) THEN "count" ELSE "commit"
<1>1. SUFFICES ASSUME ~End(c)
               PROVE  \E st \in {"count", "commit"}, r \in Row, s \in SUBSET Account :
              /\ Goto(c, [step |-> st, ask |-> ask, row |-> r, seen |-> s])
              /\ ask \in Asks
              /\ ask.kind \notin Creating
              /\ ask.target \in Account
              /\ users[ask.target] # NoRow
              /\ st = "commit" <=> ~Removes(ask, r)
              /\ IsAdmin(r) <=> ask.target \in s
              /\ ask.kind \notin ByAdmin => r = users[ask.target]
  OBVIOUS
<1>2. /\ call[c] \in Calls /\ call[c] # Idle /\ ask \in Asks
      /\ ask.kind \notin Creating
      /\ call[c].step = "read"
  BY UnderWay DEF ReadTarget
<1>3. ask.target \in Account
  BY <1>2, AsksAreTyped
<1>4. row # NoRow /\ Goto(c, [step |-> step, ask |-> ask, row |-> row, seen |-> seen])
  BY <1>1 DEF ReadTarget, NotFound
<1>5. row \in Row
  <2>1. call[c].row \in Row \cup {NoRow} /\ users[ask.target] \in Row \cup {NoRow}
    BY <1>2, <1>3 DEF Calls, TypeOK
  <2> QED BY <1>4, <2>1
<1>6. seen \in SUBSET Account
  BY <1>2 DEF Calls, EnabledAdmins
<1>7. users[ask.target] # NoRow
  BY <1>2, <1>4 DEF RowsStay
<1>8. IsAdmin(row) <=> ask.target \in seen
  BY <1>2, <1>3 DEF DecidedOnSight, EnabledAdmins
<1>9. ask.kind \notin ByAdmin => row = users[ask.target]
  BY <1>2 DEF RowsStay
<1>10. step \in {"count", "commit"} /\ (step = "commit" <=> ~Removes(ask, row))
  OBVIOUS
<1> HIDE DEF row, seen, step
<1> QED BY <1>2, <1>3, <1>4, <1>5, <1>6, <1>7, <1>8, <1>9, <1>10

\* Every step keeps the types, and the rows that calls have read.
LEMMA TypesKept ==
  ASSUME IInv, [Next]_vars
  PROVE  TypeOK' /\ RowsStay'
<1> USE AccountsAssumption DEF IInv, TypeOK, RowsStay
<1>1. ASSUME NEW c \in Call, NEW ask \in Asks, BeginOther(c, ask)
      PROVE  TypeOK' /\ RowsStay'
  BY <1>1 DEF BeginOther, Begin, Goto, EnabledAdmins, Idle
<1>2. ASSUME NEW c \in Call, NEW ask \in Asks, NEW actor \in Account,
             BeginAsAdmin(c, ask, actor)
      PROVE  TypeOK' /\ RowsStay'
  <2> DEFINE row == IF ask.kind # "add" /\ ask.target = actor THEN users[actor] ELSE NoRow
  <2>1. row \in Row \cup {NoRow}
    OBVIOUS
  <2>2. row # NoRow => /\ ask.kind \notin Creating
                       /\ users[ask.target] # NoRow
    BY <1>2 DEF BeginAsAdmin, ByAdmin, Creating
  <2>3. ask.kind \in ByAdmin /\ Begin(c, ask, row)
    BY <1>2 DEF BeginAsAdmin
  <2> HIDE DEF row
  <2> QED BY <2>1, <2>2, <2>3 DEF Begin, Goto, EnabledAdmins, Idle
<1>3. ASSUME NEW c \in Call, ReadExisting(c) PROVE TypeOK' /\ RowsStay'
  <2>1. CASE End(c)
    BY <1>3, <2>1 DEF ReadExisting, End, Goto, Idle
  <2>2. CASE Goto(c, [call[c] EXCEPT !.step = "commit"])
    <3>1. call[c] \in Calls /\ call[c] # Idle /\ call[c].row = NoRow
      BY <1>3, UnderWay DEF ReadExisting
    <3> DEFINE next == [call[c] EXCEPT !.step = "commit"]
    <3>2. /\ next \in Calls /\ next.step = "commit"
          /\ next.ask = call[c].ask /\ next.row = NoRow
      BY <3>1 DEF Calls
    <3> HIDE DEF next
    <3>3. Goto(c, next) /\ next # Idle
      BY <2>2, <3>2 DEF next, Idle
    <3> QED BY <1>3, <3>2, <3>3 DEF ReadExisting, Goto, Calls
  <2> QED BY <1>3, <2>1, <2>2 DEF ReadExisting
<1>4. ASSUME NEW c \in Call, ReadTarget(c) PROVE TypeOK' /\ RowsStay'
  <2>1. CASE End(c)
    BY <1>4, <2>1 DEF ReadTarget, End, Goto, Idle
  <2>2. CASE ~End(c)
    <3>1. PICK step \in {"count", "commit"}, row \in Row, seen \in SUBSET Account :
            /\ Goto(c, [step |-> step, ask |-> call[c].ask, row |-> row, seen |-> seen])
            /\ call[c].ask \in Asks
            /\ call[c].ask.kind \notin Creating
            /\ users[call[c].ask.target] # NoRow
      BY <1>4, <2>2, ReadOne
    <3> QED BY <1>4, <3>1 DEF ReadTarget, Goto, Idle
  <2> QED BY <2>1, <2>2
<1>5. ASSUME NEW c \in Call, CountAdmins(c) PROVE TypeOK' /\ RowsStay'
  <2>1. CASE End(c)
    BY <1>5, <2>1 DEF CountAdmins, End, Goto, Idle
  <2>2. CASE Goto(c, [call[c] EXCEPT !.step = "commit", !.seen = EnabledAdmins])
    <3>1. call[c] \in Calls /\ call[c] # Idle
      BY <1>5, UnderWay DEF CountAdmins
    <3> DEFINE next == [call[c] EXCEPT !.step = "commit", !.seen = EnabledAdmins]
    <3>2. /\ next \in Calls /\ next.step = "commit"
          /\ next.ask = call[c].ask /\ next.row = call[c].row
      BY <3>1 DEF Calls, EnabledAdmins
    <3> HIDE DEF next
    <3>3. Goto(c, next) /\ next # Idle
      BY <2>2, <3>2 DEF next, Idle
    <3> QED BY <1>5, <3>1, <3>2, <3>3 DEF CountAdmins, Goto, Calls
  <2> QED BY <1>5, <2>1, <2>2 DEF CountAdmins
<1>6. ASSUME NEW c \in Call, CommitInsert(c) PROVE TypeOK' /\ RowsStay'
  <2>1. /\ users' \in [Account -> Row \cup {NoRow}]
        /\ \A a \in Account : users[a] # NoRow => users'[a] # NoRow
    BY <1>6, InsertedOne
  <2> QED BY <1>6, <2>1, AsksAreTyped DEF CommitInsert, End, Goto, Idle
<1>7. ASSUME NEW c \in Call, CommitUpdate(c) PROVE TypeOK' /\ RowsStay'
  <2>1. PICK a \in Account, row \in Row : users' = [users EXCEPT ![a] = row]
    BY <1>7, UpdatedOne, FlushedRow
  <2>2. /\ users' \in [Account -> Row \cup {NoRow}]
        /\ \A b \in Account : users[b] # NoRow => users'[b] # NoRow
    BY <2>1
  <2> QED BY <1>7, <2>2, AsksAreTyped DEF CommitUpdate, End, Goto, Idle
<1>8. ASSUME NEW c \in Call, Fail(c) PROVE TypeOK' /\ RowsStay'
  BY <1>8 DEF Fail, End, Goto, Idle
<1>9. CASE UNCHANGED vars
  BY <1>9 DEF vars
<1> QED BY <1>1, <1>2, <1>3, <1>4, <1>5, <1>6, <1>7, <1>8, <1>9 DEF Next

\* Every step keeps what the calls have seen in agreement with what they will
\* write: a call that has read is not changed by the steps of others.
LEMMA SightKept ==
  ASSUME IInv, [Next]_vars
  PROVE  DecidedOnSight'
<1> DEFINE Sound(r) ==
      /\ r.step = "count" => r.ask.kind = "update"
      /\ r.step \in {"read", "commit"} /\ r.row # NoRow =>
           \/ r.step = "commit" /\ Cardinality(r.seen) >= 2
           \/ /\ IsAdmin(r.row) <=> r.ask.target \in r.seen
              /\ r.step = "commit" => ~Removes(r.ask, r.row)
<1>1. \A c \in Call : Sound(call[c])
  BY DEF IInv, DecidedOnSight
<1>2. SUFFICES \A c \in Call : Sound(call'[c])
  BY DEF DecidedOnSight
<1>3. Sound(Idle)
  BY DEF Idle
<1>4. ASSUME NEW c \in Call, NEW next, Goto(c, next), Sound(next)
      PROVE  \A d \in Call : Sound(call'[d])
  <2> HIDE DEF Sound
  <2> QED BY <1>1, <1>4 DEF IInv, TypeOK, Goto
<1>5. ASSUME NEW c \in Call, End(c)
      PROVE  \A d \in Call : Sound(call'[d])
  BY <1>3, <1>4, <1>5 DEF End
<1>6. ASSUME NEW c \in Call, NEW ask \in Asks, BeginOther(c, ask)
      PROVE  \A d \in Call : Sound(call'[d])
  <2> DEFINE next == [step |-> "read", ask |-> ask, row |-> NoRow, seen |-> EnabledAdmins]
  <2>1. Goto(c, next) /\ Sound(next)
    BY <1>6 DEF BeginOther, Begin
  <2> QED BY <1>4, <2>1
<1>7. ASSUME NEW c \in Call, NEW ask \in Asks, NEW actor \in Account,
             BeginAsAdmin(c, ask, actor)
      PROVE  \A d \in Call : Sound(call'[d])
  <2> DEFINE row  == IF ask.kind # "add" /\ ask.target = actor THEN users[actor] ELSE NoRow
             next == [step |-> "read", ask |-> ask, row |-> row, seen |-> EnabledAdmins]
  <2>1. Goto(c, next)
    BY <1>7 DEF BeginAsAdmin, Begin
  <2>2. row # NoRow => (IsAdmin(row) <=> ask.target \in EnabledAdmins)
    BY DEF EnabledAdmins
  <2>3. Sound(next)
    BY <2>2
  <2> QED BY <1>4, <2>1, <2>3
<1>8. ASSUME NEW c \in Call, ReadExisting(c)
      PROVE  \A d \in Call : Sound(call'[d])
  <2>1. CASE End(c)
    BY <1>5, <2>1
  <2>2. CASE Goto(c, [call[c] EXCEPT !.step = "commit"])
    <3> DEFINE next == [call[c] EXCEPT !.step = "commit"]
    <3>1. call[c] \in Calls /\ call[c] # Idle /\ call[c].row = NoRow
      BY <1>8, UnderWay DEF IInv, RowsStay, ReadExisting
    <3>2. next.row = NoRow /\ next.step = "commit"
      BY <3>1 DEF Calls
    <3>3. Sound(next)
      BY <3>2
    <3> QED BY <1>4, <2>2, <3>3
  <2> QED BY <1>8, <2>1, <2>2 DEF ReadExisting
<1>9. ASSUME NEW c \in Call, ReadTarget(c)
      PROVE  \A d \in Call : Sound(call'[d])
  <2>1. CASE End(c)
    BY <1>5, <2>1
  <2>2. CASE ~End(c)
    <3>1. PICK step \in {"count", "commit"}, row \in Row, seen \in SUBSET Account :
            /\ Goto(c, [step |-> step, ask |-> call[c].ask, row |-> row, seen |-> seen])
            /\ step = "commit" <=> ~Removes(call[c].ask, row)
            /\ IsAdmin(row) <=> call[c].ask.target \in seen
      BY <1>9, <2>2, ReadOne DEF IInv
    <3> DEFINE next == [step |-> step, ask |-> call[c].ask, row |-> row, seen |-> seen]
    <3>2. Sound(next)
      BY <3>1 DEF Removes
    <3> QED BY <1>4, <3>1, <3>2
  <2> QED BY <2>1, <2>2
<1>10. ASSUME NEW c \in Call, CountAdmins(c)
       PROVE  \A d \in Call : Sound(call'[d])
  <2>1. CASE Cardinality(EnabledAdmins) <= 1
    BY <1>5, <1>10, <2>1 DEF CountAdmins
  <2>2. CASE ~(Cardinality(EnabledAdmins) <= 1)
    <3> DEFINE next == [call[c] EXCEPT !.step = "commit", !.seen = EnabledAdmins]
    <3>1. call[c] \in Calls
      BY <1>10, UnderWay DEF IInv, CountAdmins
    <3>2. next.step = "commit" /\ next.seen = EnabledAdmins
      BY <3>1 DEF Calls
    <3>3. Cardinality(EnabledAdmins) \in Nat
      BY AccountsAssumption, FS_Subset, FS_CardinalityType DEF EnabledAdmins
    <3>4. Cardinality(EnabledAdmins) >= 2
      BY <2>2, <3>3
    <3>5. Goto(c, next)
      BY <1>10, <2>2 DEF CountAdmins
    <3> HIDE DEF next
    <3>6. Sound(next)
      BY <3>2, <3>4
    <3> QED BY <1>4, <3>5, <3>6
  <2> QED BY <2>1, <2>2
<1>11. ASSUME NEW c \in Call, CommitInsert(c) \/ CommitUpdate(c) \/ Fail(c)
       PROVE  \A d \in Call : Sound(call'[d])
  BY <1>5, <1>11 DEF CommitInsert, CommitUpdate, Fail
<1>12. CASE UNCHANGED vars
  BY <1>1, <1>12 DEF vars
<1> QED BY <1>6, <1>7, <1>8, <1>9, <1>10, <1>11, <1>12 DEF Next

\* Every step keeps the emails apart: an insertion by the unique column, and an
\* update because no request names an email.
LEMMA EmailsKept ==
  ASSUME IInv, [Next]_vars
  PROVE  OneAccountPerEmail'
<1> USE DEF IInv, TypeOK, OneAccountPerEmail
<1>1. CASE users' = users
  BY <1>1
<1>2. ASSUME NEW c \in Call, CommitInsert(c) PROVE OneAccountPerEmail'
  BY <1>2, InsertedOne DEF Unique, Taken
<1>3. ASSUME NEW c \in Call, CommitUpdate(c) PROVE OneAccountPerEmail'
  <2>1. PICK a \in Account, row \in Row :
          /\ users' = [users EXCEPT ![a] = row]
          /\ users[a] # NoRow /\ row.email = users[a].email
    BY <1>3, UpdatedOne, FlushedRow, AccountsAssumption
  <2> QED BY <2>1
<1> QED
  BY <1>1, <1>2, <1>3
     DEF Next, vars, BeginOther, BeginAsAdmin, Begin, ReadExisting, ReadTarget,
         CountAdmins, Fail

\* The invariant holds to begin with, and every step keeps it.
LEMMA Inductive ==
  /\ Init => IInv
  /\ IInv /\ [Next]_vars => IInv'
<1>1. ASSUME Init PROVE IInv
  BY <1>1, AccountsAssumption
     DEF Init, IInv, TypeOK, RowsStay, DecidedOnSight, OneAccountPerEmail, Idle
<1>2. ASSUME IInv, [Next]_vars PROVE IInv'
  BY <1>2, TypesKept, SightKept, EmailsKept DEF IInv
<1> QED BY <1>1, <1>2

\* The inductive invariant of auth/service.py and api/routes/users.py: what is
\* under way has a row that stays, and has decided on what it saw.
THEOREM InvariantHolds == Spec => []IInv
BY Inductive, PTL DEF Spec

\* Accounts and calls keep their types; among others, a change is only
\* committed to an account that there is.
THEOREM TypesHold == Spec => []TypeOK
<1>1. IInv => TypeOK
  BY DEF IInv
<1> QED BY <1>1, InvariantHolds, PTL

\* create_user reads before it inserts, also in the bootstrap that every request
\* runs: whatever it has read, the table never has two accounts of one email.
THEOREM AccountsAreUnique == Spec => []OneAccountPerEmail
<1>1. IInv => OneAccountPerEmail
  BY DEF IInv
<1> QED BY <1>1, InvariantHolds, PTL

-----------------------------------------------------------------------------
\* The table changes by two steps only.
LEMMA TableStep ==
  ASSUME [Next]_vars, users' # users
  PROVE  \E c \in Call : CommitInsert(c) \/ CommitUpdate(c)
BY DEF Next, vars, BeginOther, BeginAsAdmin, Begin, ReadExisting, ReadTarget,
       CountAdmins, Fail

\* A commit that takes the final administrator away, of a request, has seen
\* other administrators than there are.
LEMMA FinalAdminStep ==
  ASSUME IInv, [Next]_vars, EnabledAdmins # {}, EnabledAdmins' = {}
  PROVE  \E c \in Call : /\ call[c].step = "commit" /\ call'[c] = Idle
                         /\ \/ call[c].ask.kind \in ByCommand
                            \/ call[c].seen # EnabledAdmins
<1> USE DEF IInv
<1>1. users' # users
  BY DEF EnabledAdmins
<1>2. PICK c \in Call : CommitInsert(c) \/ CommitUpdate(c)
  BY <1>1, TableStep
<1>3. ~CommitInsert(c)
  <2>1. PICK b \in Account : IsAdmin(users[b])
    BY DEF EnabledAdmins
  <2>2. SUFFICES ASSUME CommitInsert(c) PROVE FALSE
    OBVIOUS
  <2>3. users'[b] = users[b]
    BY <1>1, <2>1, <2>2, InsertedOne DEF TypeOK, IsAdmin
  <2> QED BY <2>1, <2>3 DEF EnabledAdmins, IsAdmin
<1> DEFINE ask == call[c].ask
           row == call[c].row
           now == users[ask.target]
           new == Flushed(ask, row, now)
<1>4. /\ ask \in Asks /\ ask.kind \notin Creating /\ ask.target \in Account
      /\ row \in Row /\ now \in Row
      /\ users' = [users EXCEPT ![ask.target] = new]
  BY <1>2, <1>3, UpdatedOne
<1>5. /\ call[c].step = "commit" /\ call[c] # Idle /\ call'[c] = Idle
      /\ call[c].seen \subseteq Account
  BY <1>2, <1>3, UnderWay DEF CommitUpdate, End, Goto, TypeOK, Calls
<1>6. EnabledAdmins = {ask.target} /\ IsAdmin(now)
  <2>1. \A b \in Account \ {ask.target} : users'[b] = users[b]
    BY <1>4 DEF TypeOK
  <2>2. \A b \in Account \ {ask.target} : b \notin EnabledAdmins
    BY <2>1 DEF EnabledAdmins, IsAdmin
  <2> QED BY <2>2 DEF EnabledAdmins
<1>7. ~IsAdmin(new)
  <2>1. users'[ask.target] = new
    BY <1>4 DEF TypeOK
  <2> QED BY <1>4, <2>1 DEF EnabledAdmins, IsAdmin
<1>8. new \in Row
  BY <1>4, FlushedRow
<1>9. ~(new.role = now.role /\ new.enabled = now.enabled)
  BY <1>4, <1>6, <1>7, <1>8, AccountsAssumption DEF IsAdmin
<1>10. ask.kind \in {"update", "set_enabled"}
  BY <1>4, <1>9, FlushedRow, AsksAreTyped
<1>11. CASE ask.kind = "set_enabled"
  BY <1>5, <1>11 DEF ByCommand
<1>12. CASE ask.kind = "update"
  <2>1. SUFFICES ASSUME call[c].seen = EnabledAdmins PROVE FALSE
    BY <1>5
  <2>2. Cardinality(call[c].seen) = 1
    BY <1>4, <1>6, <2>1, FS_Singleton
  <2>3. IsAdmin(row) /\ ~Removes(ask, row)
    <3>1. row # NoRow
      BY <1>4, AccountsAssumption
    <3>2. ask.target \in call[c].seen
      BY <1>6, <2>1
    <3>3. ~(Cardinality(call[c].seen) >= 2)
      BY <2>2
    <3> QED BY <1>5, <3>1, <3>2, <3>3 DEF DecidedOnSight
  <2>4. Wanted(ask, row).role = row.role /\ Wanted(ask, row).enabled = row.enabled
    BY <1>4, <1>12, <2>3, KeepsAdmin
  <2> QED BY <1>4, <1>9, <2>4, FlushedRow
<1> QED BY <1>10, <1>11, <1>12

\* update_user counts the enabled administrators before it commits: the final
\* one only goes to a command, or when two requests overlap.
THEOREM FinalAdminIsKept == Spec => FinalAdminGoesByTwo
<1>1. IInv /\ [Next]_vars =>
        [EnabledAdmins # {} /\ EnabledAdmins' = {} =>
           \E c \in Call : /\ call[c].step = "commit" /\ call'[c] = Idle
                           /\ \/ call[c].ask.kind \in ByCommand
                              \/ call[c].seen # EnabledAdmins]_vars
  BY FinalAdminStep
<1> QED BY <1>1, InvariantHolds, PTL DEF Spec, FinalAdminGoesByTwo

-----------------------------------------------------------------------------
\* An account that is settled stays settled, and its password with it.
LEMMA SettledStep ==
  ASSUME IInv, [Next]_vars, NEW a \in Account, Settled(a)
  PROVE  /\ Settled(a)'
         /\ users'[a].password # users[a].password =>
              \E c \in Call : /\ call[c].step = "commit" /\ call'[c] = Idle
                              /\ call[c].ask.kind \in Resetting
<1> USE DEF IInv
<1> DEFINE Renews(r) == /\ r.step = "commit" /\ r.ask.kind = "login"
                        /\ r.ask.target = a /\ NeedsRehash(r.row)
<1>1. \A c \in Call : ~Renews(call[c])
  BY DEF Settled
<1>2. ~Renews(Idle)
  BY DEF Idle
<1>3. ASSUME NEW c \in Call, NEW next, Goto(c, next), ~Renews(next)
      PROVE  \A d \in Call : ~Renews(call'[d])
  <2> HIDE DEF Renews
  <2> QED BY <1>1, <1>3 DEF Goto, TypeOK
<1>4. \A d \in Call : ~Renews(call'[d])
  <2>1. ASSUME NEW c \in Call, End(c) PROVE \A d \in Call : ~Renews(call'[d])
    BY <1>2, <1>3, <2>1 DEF End
  <2>2. ASSUME NEW c \in Call, NEW ask, NEW row, Begin(c, ask, row)
        PROVE  \A d \in Call : ~Renews(call'[d])
    <3> DEFINE next == [step |-> "read", ask |-> ask, row |-> row, seen |-> EnabledAdmins]
    <3>1. Goto(c, next) /\ ~Renews(next)
      BY <2>2 DEF Begin
    <3> QED BY <1>3, <3>1
  <2>3. ASSUME NEW c \in Call, ReadExisting(c) PROVE \A d \in Call : ~Renews(call'[d])
    <3> DEFINE next == [call[c] EXCEPT !.step = "commit"]
    <3>1. call[c] \in Calls /\ call[c].ask.kind \in Creating
      BY <2>3, UnderWay DEF ReadExisting
    <3>2. next.ask = call[c].ask
      BY <3>1 DEF Calls
    <3>3. ~Renews(next)
      BY <3>1, <3>2 DEF Creating
    <3>4. End(c) \/ Goto(c, next)
      BY <2>3 DEF ReadExisting
    <3> QED BY <1>3, <2>1, <3>3, <3>4
  <2>4. ASSUME NEW c \in Call, ReadTarget(c) PROVE \A d \in Call : ~Renews(call'[d])
    <3>1. CASE End(c)
      BY <2>1, <3>1
    <3>2. CASE ~End(c)
      <4>1. PICK step \in {"count", "commit"}, row \in Row, seen \in SUBSET Account :
              /\ Goto(c, [step |-> step, ask |-> call[c].ask, row |-> row, seen |-> seen])
              /\ call[c].ask.kind \notin ByAdmin => row = users[call[c].ask.target]
        BY <2>4, <3>2, ReadOne
      <4> DEFINE next == [step |-> step, ask |-> call[c].ask, row |-> row, seen |-> seen]
      <4>2. ~Renews(next)
        BY <4>1 DEF Settled, NeedsRehash, ByAdmin
      <4> QED BY <1>3, <4>1, <4>2
    <3> QED BY <3>1, <3>2
  <2>5. ASSUME NEW c \in Call, CountAdmins(c) PROVE \A d \in Call : ~Renews(call'[d])
    <3>1. CASE End(c)
      BY <2>1, <3>1
    <3>2. CASE ~End(c)
      <4> DEFINE next == [call[c] EXCEPT !.step = "commit", !.seen = EnabledAdmins]
      <4>1. call[c] \in Calls /\ Goto(c, next)
        BY <2>5, <3>2, UnderWay DEF CountAdmins
      <4>2. ~Renews(next)
        <5>1. next.ask = call[c].ask
          BY <4>1 DEF Calls
        <5>2. call[c].ask.kind = "update"
          BY <2>5 DEF CountAdmins, DecidedOnSight
        <5> QED BY <5>1, <5>2
      <4> QED BY <1>3, <4>1, <4>2
    <3> QED BY <3>1, <3>2
  <2> QED
    BY <1>1, <2>1, <2>2, <2>3, <2>4, <2>5
       DEF Next, vars, BeginOther, BeginAsAdmin, CommitInsert, CommitUpdate, Fail
<1>5. ASSUME users' = users PROVE users'[a] = users[a]
  BY <1>5
<1>6. ASSUME NEW c \in Call, CommitInsert(c) PROVE users'[a] = users[a]
  BY <1>6, InsertedOne DEF Settled, TypeOK
<1>7. ASSUME NEW c \in Call, CommitUpdate(c), users'[a] # users[a]
      PROVE  /\ users'[a] # NoRow /\ ~users'[a].legacy
             /\ users'[a].password # users[a].password =>
                  /\ call[c].step = "commit" /\ call'[c] = Idle
                  /\ call[c].ask.kind \in Resetting
  <2> DEFINE ask == call[c].ask
             row == call[c].row
             new == Flushed(ask, row, users[a])
  <2>1. /\ ask \in Asks /\ ask.kind \notin Creating /\ row \in Row
        /\ ask.target = a /\ users[a] \in Row /\ users'[a] = new
    BY <1>7, UpdatedOne DEF TypeOK
  <2>2. call[c].step = "commit" /\ call'[c] = Idle
    BY <1>7 DEF CommitUpdate, End, Goto, TypeOK
  <2>3. Rehashes(ask, row) => ask.kind \in Resetting
    BY <1>1, <2>1, <2>2 DEF Rehashes
  <2>4. new \in Row
    BY <2>1, FlushedRow
  <2>5. ~new.legacy
    BY <2>1, FlushedRow DEF Settled
  <2>6. ~Rehashes(ask, row) => new.password = users[a].password
    BY <2>1, FlushedRow
  <2> QED BY <2>1, <2>2, <2>3, <2>4, <2>5, <2>6, AccountsAssumption
<1>8. /\ users'[a] # NoRow /\ ~users'[a].legacy
      /\ users'[a].password # users[a].password =>
           \E c \in Call : /\ call[c].step = "commit" /\ call'[c] = Idle
                           /\ call[c].ask.kind \in Resetting
  <2>1. CASE users'[a] = users[a]
    BY <2>1 DEF Settled
  <2>2. CASE users'[a] # users[a]
    BY <1>5, <1>6, <1>7, <2>2, TableStep
  <2> QED BY <2>1, <2>2
<1> QED BY <1>4, <1>8 DEF Settled

\* authenticate renews an old hash with the password it has verified, which an
\* administrator may have reset meanwhile; once the hash is today's and no such
\* login is under way, only a reset changes the password again.
THEOREM PasswordsStick == Spec => ResetsStick
<1>1. IInv /\ [Next]_vars =>
        [\A a \in Account : Settled(a) =>
           /\ Settled(a)'
           /\ users'[a].password # users[a].password =>
                \E c \in Call : /\ call[c].step = "commit" /\ call'[c] = Idle
                                /\ call[c].ask.kind \in Resetting]_vars
  BY SettledStep
<1> QED BY <1>1, InvariantHolds, PTL DEF Spec, ResetsStick

=============================================================================
