---------------------------- MODULE MCIngestion ----------------------------
(***************************************************************************)
(* Ingestion for TLC: a wrapper directory with a source file, a file of    *)
(* another kind and a directory that is skipped; two files beside it.      *)
(***************************************************************************)
EXTENDS Ingestion, TLC

CONSTANTS pack, vendor, main, lib, top, data, dot

MCAbove == (pack :> {}) @@ (vendor :> {pack}) @@ (main :> {pack})
             @@ (lib :> {pack, vendor}) @@ (top :> {}) @@ (data :> {pack}) @@ (dot :> {})

MCTurn == (dot :> 1) @@ (top :> 2) @@ (pack :> 3) @@ (data :> 4) @@ (main :> 5)
            @@ (vendor :> 6) @@ (lib :> 7)

MCSize == [p \in Path |-> 1]

MCRepos == {{}, {main, lib}, {main, top, dot}}

File(p, declared, packed, real, sound) ==
  [path |-> p, kind |-> "file", declared |-> declared, packed |-> packed,
   real |-> real, sound |-> sound]

MCMembers ==
  {File(main, 1, 1, 1, TRUE), File(lib, 1, 1, 1, TRUE), File(top, 1, 1, 1, TRUE),
   File(dot, 1, 1, 1, TRUE),
   File(main, 2, 1, 2, TRUE),   \* as large as it may be, but not a source file
   File(data, 1, 1, 2, TRUE),   \* more than it says
   File(main, 1, 1, 3, TRUE),   \* more than a member may have
   File(data, 1, 1, 1, FALSE),  \* broken
   File(top, 3, 1, 3, TRUE),    \* screened: too large
   File(pack, 1, 1, 1, TRUE),   \* a file where others need a directory
   [File(main, 0, 0, 0, TRUE) EXCEPT !.kind = "refused"],
   [File(vendor, 0, 0, 0, TRUE) EXCEPT !.kind = "dir"]}

Packed(members) == [size |-> 1, readable |-> TRUE, members |-> members]

MCArchives ==
  {Packed(s) : s \in BoundedSeq(MCMembers, 3)}
    \cup {[size |-> 9, readable |-> TRUE, members |-> <<>>],
          [size |-> 1, readable |-> FALSE, members |-> <<>>],
          Packed([i \in 1..4 |-> File(main, 1, 1, 1, TRUE)]),
          Packed(<<File(main, 2, 0, 0, TRUE), File(lib, 2, 0, 0, TRUE)>>)}

=============================================================================
