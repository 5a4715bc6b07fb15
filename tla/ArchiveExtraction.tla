------------------------- MODULE ArchiveExtraction -------------------------
(***************************************************************************)
(* SafeZipExtractor of ingestion/archive.py: an archive is checked, then   *)
(* its members are screened and written one after the other, against a     *)
(* budget that is enforced on the bytes that arrive and not on those that  *)
(* the archive declares.                                                   *)
(*                                                                         *)
(* Sizes are in chunks.  A member's real size may differ from the declared *)
(* one, and its data may turn out to be broken after that.                 *)
(***************************************************************************)
EXTENDS Workspace, Sequences, SequencesExt

CONSTANTS
  Archives,         \* the uploads a project may have
  MaxArchive,       \* max_archive_bytes
  MaxUncompressed,  \* max_uncompressed_bytes
  MaxMember,        \* max_member_bytes
  MaxMembers,       \* max_members
  MaxRatio          \* max_compression_ratio

\* kind "refused" stands for the names and file types _screen turns down.
Member == [path : Path, kind : {"file", "dir", "refused"}, declared : Nat,
           packed : Nat, real : Nat, sound : BOOLEAN]

ASSUME ArchiveAssumption ==
  /\ Archives \subseteq [size : Nat, readable : BOOLEAN, members : Seq(Member)]
  /\ MaxArchive \in 1..MaxUncompressed /\ MaxMember \in 1..MaxUncompressed
  /\ MaxUncompressed \in Nat /\ MaxMembers \in Nat /\ MaxRatio \in Nat

VARIABLES
  upload,   \* the stored upload of the project
  pos,      \* the member at hand
  written,  \* chunks of it that were written
  total,    \* bytes_written
  refused   \* the positions of the rejections

extraction == <<upload, pos, written, total, refused>>

Members == upload.members
Current == Members[pos]

\* files_written.
Stored == {i \in 1..pos - 1 : i \notin refused /\ Members[i].kind = "file"}

-----------------------------------------------------------------------------
SumOf(field) == FoldLeft(LAMBDA n, m : n + m[field], 0, Members)

Explodes(declared, packed) == packed > 0 /\ declared > MaxRatio * packed

\* _check_archive_size, ZipFile(), _check_member_count, _check_declared_totals.
Acceptable ==
  /\ upload.size \in 1..MaxArchive
  /\ upload.readable
  /\ Len(Members) <= MaxMembers
  /\ SumOf("declared") <= MaxUncompressed
  /\ ~Explodes(SumOf("declared"), SumOf("packed"))

OpenArchive ==
  /\ \/ Acceptable /\ Goto("extract", "member") /\ UNCHANGED result
     \/ ~Acceptable /\ Fail("extract")
  /\ pos' = 1 /\ written' = 0 /\ total' = 0 /\ refused' = {}
  /\ UNCHANGED <<place, disk, upload>>

\* _screen.
Screened(m) ==
  \/ m.kind = "refused"
  \/ /\ m.kind = "file"
     /\ m.declared > MaxMember \/ Explodes(m.declared, m.packed)

RefuseMember ==
  /\ at = "member" /\ pos <= Len(Members)
  /\ Screened(Current)
  /\ refused' = refused \cup {pos}
  /\ pos' = pos + 1
  /\ UNCHANGED <<at, result, place, disk, upload, written, total>>

\* mkdir raises on a file in the way: not an error the extractor expects.
MakeDirectory ==
  /\ at = "member" /\ pos <= Len(Members)
  /\ ~Screened(Current) /\ Current.kind = "dir"
  /\ \/ /\ Blocked(Current.path)
        /\ Fail("member")
        /\ UNCHANGED <<disk, pos>>
     \/ /\ ~Blocked(Current.path)
        /\ disk' = WithDirs(disk, {Current.path} \cup Above[Current.path])
        /\ pos' = pos + 1
        /\ UNCHANGED <<at, result>>
  /\ UNCHANGED <<place, upload, written, total, refused>>

\* _write_member: mkdir for the parent, and open(), which truncates a file of
\* that name and raises on a directory.
OpenMember ==
  /\ at = "member" /\ pos <= Len(Members)
  /\ ~Screened(Current) /\ Current.kind = "file"
  /\ \/ /\ ~Writable(Current.path)
        /\ Fail("member")
        /\ UNCHANGED disk
     \/ /\ Writable(Current.path)
        /\ Goto("member", "copy")
        /\ disk' = WithFile(Current.path, 0)
        /\ UNCHANGED result
  /\ written' = 0
  /\ UNCHANGED <<place, upload, pos, total, refused>>

\* Mutant of Excessive: the total is not looked at while writing.
ExcessiveMember(n) == n > MaxMember

\* Would n chunks of this member be too much for it, or for what is left?
Excessive(n) == n > MaxMember \/ n > MaxUncompressed - total

\* One round of the copying loop: the check comes before the write.
CopyChunk ==
  /\ at = "copy" /\ written < Current.real
  /\ \/ /\ Excessive(written + 1)
        /\ Fail("copy")
        /\ disk' = Without(Current.path)
        /\ UNCHANGED written
     \/ /\ ~Excessive(written + 1)
        /\ disk' = WithFile(Current.path, written + 1)
        /\ written' = written + 1
        /\ UNCHANGED <<at, result>>
  /\ UNCHANGED <<place, upload, pos, total, refused>>

\* zipfile compares the checksum after the last chunk.
CloseMember ==
  /\ at = "copy" /\ written = Current.real
  /\ \/ /\ Current.sound
        /\ Goto("copy", "member")
        /\ total' = total + written
        /\ pos' = pos + 1
        /\ UNCHANGED <<disk, result>>
     \/ /\ ~Current.sound
        /\ Fail("copy")
        /\ disk' = Without(Current.path)
        /\ UNCHANGED <<total, pos>>
  /\ UNCHANGED <<place, upload, written, refused>>

\* The end of extract, and ingest_archive's check for an empty project.
EndExtraction ==
  /\ at = "member" /\ pos > Len(Members)
  /\ \/ Stored # {} /\ Goto("member", "scan") /\ UNCHANGED result
     \/ Stored = {} /\ Fail("member")
  /\ UNCHANGED <<place, disk, extraction>>

Extract == \/ OpenArchive \/ RefuseMember \/ MakeDirectory \/ OpenMember
           \/ CopyChunk \/ CloseMember \/ EndExtraction

=============================================================================
