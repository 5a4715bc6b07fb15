----------------------------- MODULE MCAccounts -----------------------------
(***************************************************************************)
(* Accounts for TLC: an empty table, or one with two administrators, one   *)
(* of whom has a hash of an older release.                                 *)
(***************************************************************************)
EXTENDS Accounts, TLC

CONSTANTS u1, u2, u3, root, ann, p, q

MCRow(email, legacy) ==
  [email |-> email, role |-> "admin", enabled |-> TRUE, password |-> p, legacy |-> legacy]

MCTables ==
  {[a \in Account |-> NoRow],
   [a \in Account |-> CASE a = u1 -> MCRow(root, FALSE)
                        [] a = u2 -> MCRow(ann, TRUE)
                        [] OTHER  -> NoRow]}

MCCreate(kind, email, role) ==
  [kind |-> kind, email |-> email, role |-> role, enabled |-> TRUE, password |-> p]

MCAsks ==
  {MCCreate("bootstrap", root, "admin"), MCCreate("register", ann, "admin"),
   MCCreate("create", ann, "viewer"), MCCreate("add", root, "viewer")}
    \cup [kind : {"update"}, target : {u1, u2}, role : {{"admin"}, {"viewer"}}, enabled : {{}}]
    \cup [kind : {"update"}, target : {u1, u2}, role : {{}}, enabled : {{TRUE}, {FALSE}}]
    \cup [kind : {"set_enabled"}, target : {u1}, enabled : BOOLEAN]
    \cup [kind : {"reset"}, target : {u2}, password : {p, q}]
    \cup [kind : {"set_password"}, target : {u3}, password : {q}]
    \cup [kind : {"login"}, target : {u1, u2}, password : {p, q}]

MCSymmetry == Permutations(Call)

=============================================================================
