---------------------------- MODULE ArchiveReader ----------------------------
(***************************************************************************)
(* The archive reader of the controller: tar() extracts the service's      *)
(* files from the embedded archive, one block at a time.  A step is one    *)
(* turn of its loop.                                                       *)
(*                                                                         *)
(* The archive holds a few members and may end early, also within a block. *)
(* A block is a header, a name or a part of a member's data; sizes count   *)
(* blocks.                                                                 *)
(* Headers of records that GNU tar does not write, modes and times are     *)
(* left out.                                                               *)
(*                                                                         *)
(* members and refused are history variables.                              *)
(***************************************************************************)
EXTENDS Naturals, Sequences

CONSTANTS
  MaxMembers,     \* bound: members of the archive
  MaxBlocks,      \* bound: blocks of a member's data
  MaxFailures     \* bound: calls of the system that fail

ASSUME ReaderAssumption == MaxMembers \in Nat /\ MaxBlocks \in Nat /\ MaxFailures \in Nat

VARIABLES
  members,        \* what was put into the archive
  cut, partial,   \* the block where the archive ends; whether part of it is there
  here,           \* the block that is read next
  getheader,      \* 0: data are expected, 1: a header, 2: the header after a long name
  remaining,      \* blocks of data of the member
  fname, fpathname, \* the last name, the last path
  outfile,        \* the file at fpathname is open
  directories, folder, \* what has been extracted
  attributes,     \* paths to be given their mode and time in the end
  restored,       \* and those that were
  result, failures,
  refused         \* paths that the system refused to create or to write

archive == <<members, cut, partial, here>>
reader == <<getheader, remaining, fname, fpathname, outfile>>
disk == <<directories, folder>>
readerVars == <<archive, reader, disk, attributes, restored, result, failures, refused>>

-----------------------------------------------------------------------------
(* The format.  A path is a directory and a name, which for the directory   *)
(* itself is 0.  A long name stands in a record of its own, a header and a  *)
(* block, before the member's header, which has but its start; the long     *)
(* target of a link stands in the same form.  A record begins like the name *)
(* of the header behind it ("same"), or not ("other": a target, with or     *)
(* without a long name behind it), or does not fit into its block ("over":  *)
(* it takes more blocks than are counted here).                             *)
(* A place in the archive is a member and one of its blocks; the mark of    *)
(* the end stands behind the last member.                                   *)
Top == "."
NoPath == <<"", 0>>
NoPart == <<0, 0>>
LongLink == <<"././@LongLink", 0>>     \* the name in the header of such a record
Parent(path) == IF path = LongLink THEN Top ELSE path[1]

Block(type, name, size, part) == [type |-> type, name |-> name, size |-> size, part |-> part]
Path(i) == <<members[i].directory, i>>
Name(i) == IF members[i].kind = "directory" THEN <<members[i].directory, 0>> ELSE Path(i)
Announced(i) == IF members[i].record = "other" THEN NoPath ELSE Name(i)
Content(i) == [k \in 1..members[i].size |-> <<i, k>>]

Headers(i) == IF members[i].record = "none" THEN 1 ELSE 3
Blocks(i) == IF i > Len(members) THEN 1 ELSE Headers(i) + members[i].size

BlockAt(place) ==
  LET i == place[1]  k == place[2]
  IN CASE i > Len(members) -> Block("end", NoPath, 0, NoPart)
       [] i <= Len(members) /\ k > Headers(i) -> Block("data", NoPath, 0, <<i, k - Headers(i)>>)
       [] i <= Len(members) /\ k = Headers(i) ->
            Block(members[i].kind, Name(i), members[i].size, NoPart)
       [] i <= Len(members) /\ k < Headers(i) ->
            IF k = 1 THEN Block("long", LongLink, IF members[i].record = "over" THEN 2 ELSE 1, NoPart)
                     ELSE Block("name", Announced(i), 0, NoPart)

After(place) == IF place[2] < Blocks(place[1]) THEN <<place[1], place[2] + 1>>
                                               ELSE <<place[1] + 1, 1>>

Member ==
  [kind : {"file"}, record : {"none"}, directory : {Top, "d"}, size : 0..MaxBlocks] \cup
  [kind : {"file"}, record : {"same"}, directory : {"d"}, size : 0..MaxBlocks] \cup
  [kind : {"directory", "link"}, record : {"none", "same"}, directory : {"d"}, size : {0}] \cup
  [kind : {"link"}, record : {"other", "over"}, directory : {"d"}, size : {0}]

ReaderInit ==
  /\ \E n \in 0..MaxMembers : members \in [1..n -> Member]
  /\ \E i \in 1..Len(members) + 1 : \E k \in 1..Blocks(i) : cut \in {<<i, k>>, After(<<i, k>>)}
  /\ partial \in BOOLEAN /\ (partial => cut[1] <= Len(members) + 1)
  /\ here = <<1, 1>>
  /\ getheader = 1 /\ remaining = 0
  /\ fname = NoPath /\ fpathname = NoPath /\ outfile = FALSE
  /\ directories = {Top} /\ folder = << >>
  /\ attributes = {} /\ restored = {}
  /\ result = "reading" /\ failures = 0 /\ refused = {}

Fails(happens) == /\ happens => failures < MaxFailures
                  /\ failures' = IF happens THEN failures + 1 ELSE failures
Refuses(happens) == refused' = IF happens THEN refused \cup {fpathname'} ELSE refused
Holds(path, content) ==
  folder' = [p \in DOMAIN folder \cup {path} |-> IF p = path THEN content ELSE folder[p]]

-----------------------------------------------------------------------------
This == BlockAt(here)

Reads(type) == /\ result = "reading" /\ here # cut /\ This.type = type
               /\ here' = After(here)
               /\ UNCHANGED <<members, cut, partial, restored, result>>

(* The header after a long name must begin like it; the path stays the one *)
(* of the header that announced the name.                                  *)
Titled == /\ getheader >= 1
          /\ getheader = 2 => This.name = fname
          /\ fname' = IF getheader = 1 THEN This.name ELSE fname
          /\ fpathname' = IF getheader = 1 THEN This.name ELSE fpathname

(* A slip used to check that the properties bite: a member without data does *)
(* not end.                                                                  *)
TurnEndsLate(left, header, open) ==
  /\ remaining' = left
  /\ getheader' = IF left = 0 /\ header # 0 THEN 1 ELSE header
  /\ outfile' = (left # 0 /\ open)
  /\ attributes' = IF left = 0 /\ open THEN attributes \cup {fpathname'} ELSE attributes

(* The end of a turn: after the last of the data the file is closed. *)
TurnEnds(left, header, open) ==
  /\ remaining' = left
  /\ getheader' = IF left = 0 THEN 1 ELSE header
  /\ outfile' = (left # 0 /\ open)
  /\ attributes' = IF left = 0 /\ open THEN attributes \cup {fpathname'} ELSE attributes

MakeDirectory(ok) ==
  /\ Reads("directory") /\ Titled
  /\ Fails(~ok)
  /\ directories' = IF ok /\ fpathname' \notin DOMAIN folder THEN directories \cup {fpathname'[1]}
                                                           ELSE directories
  /\ remaining' = remaining /\ getheader' = 1 /\ outfile' = FALSE
  /\ attributes' = attributes \cup {fpathname'}
  /\ UNCHANGED <<folder, refused>>

Occupied(path) == path[2] = 0 /\ path[1] \in directories    \* by a directory

(* A slip: a file that is there is not emptied. *)
OpenFileAgain(ok) ==
  /\ Reads("file") /\ Titled
  /\ Fails(~ok /\ ~Occupied(fpathname')) /\ Refuses(~ok) /\ (ok => ~Occupied(fpathname'))
  /\ directories' = IF ok THEN directories \cup {Parent(fpathname')} ELSE directories
  /\ IF ok /\ fpathname' \notin DOMAIN folder THEN Holds(fpathname', << >>) ELSE UNCHANGED folder
  /\ TurnEnds(This.size, 0, ok)

(* A file that cannot be created, not even after its directory, is skipped. *)
(* The directory with a long name takes the path of the files with one.      *)
OpenFile(ok) ==
  /\ Reads("file") /\ Titled
  /\ Fails(~ok /\ ~Occupied(fpathname')) /\ Refuses(~ok) /\ (ok => ~Occupied(fpathname'))
  /\ directories' = IF ok THEN directories \cup {Parent(fpathname')} ELSE directories
  /\ IF ok THEN Holds(fpathname', << >>) ELSE UNCHANGED folder
  /\ TurnEnds(This.size, 0, ok)

(* A slip: the path is not touched at all. *)
LongNameOnly ==
  /\ result = "reading" /\ here # cut /\ This.type = "long" /\ This.size = 1 /\ getheader = 1
  /\ here' = IF After(here) = cut THEN cut ELSE After(After(here))
  /\ fname' = IF After(here) = cut THEN This.name ELSE BlockAt(After(here)).name
  /\ remaining' = This.size /\ getheader' = 2
  /\ UNCHANGED <<members, cut, partial, fpathname, outfile, disk, attributes, restored, result, failures, refused>>

(* The name's own block is read in the same turn, if it is there. *)
LongName ==
  /\ result = "reading" /\ here # cut /\ This.type = "long" /\ This.size = 1 /\ getheader = 1
  /\ here' = IF After(here) = cut THEN cut ELSE After(After(here))
  /\ fpathname' = This.name
  /\ fname' = IF After(here) = cut THEN This.name ELSE BlockAt(After(here)).name
  /\ remaining' = This.size /\ getheader' = 2
  /\ UNCHANGED <<members, cut, partial, outfile, disk, attributes, restored, result, failures, refused>>

SkipMember ==
  /\ Reads("link") /\ Titled
  /\ TurnEnds(remaining, 1, FALSE)
  /\ UNCHANGED <<disk, failures, refused>>

(* A file that cannot be written is closed, and something else removed; that *)
(* the buffer cannot be written in the end is not noticed.                   *)
WriteData(ok, noticed) ==
  /\ Reads("data") /\ getheader = 0
  /\ Fails(~ok) /\ (~ok => outfile) /\ (ok => noticed)
  /\ UNCHANGED <<fname, fpathname, directories>>
  /\ Refuses(~ok)
  /\ IF outfile /\ ok THEN Holds(fpathname, Append(folder[fpathname], This.part))
                      ELSE UNCHANGED folder
  /\ TurnEnds(remaining - 1, 0, outfile /\ (ok \/ ~noticed))

(* The archive ends before a header or within the name of a record, or its  *)
(* mark begins; restore_attr.  The archive cannot be closed also if it is   *)
(* the compressed file that is broken off.                                  *)
Return(closed) ==
  /\ result = "reading" /\ getheader >= 1
  /\ This.type = "end" \/ (here = cut /\ (partial => This.type = "name"))
  /\ Fails(~closed /\ here # cut)
  /\ result' = IF closed THEN "returned" ELSE "exited"
  /\ restored' = attributes
  /\ UNCHANGED <<archive, reader, disk, attributes, refused>>

(* Data or a header end early; or a part of a name has behind it what is     *)
(* left of a longer one.                                                     *)
EndsEarly ==
  /\ here = cut
  /\ \/ getheader = 0
     \/ partial /\ This.type \notin {"end", "name"}
     \/ partial /\ This.type = "name" /\ \E j \in 1..here[1] - 1 : members[j].record = "same"

(* A name that is too long, or that the next header does not begin like. *)
BadName ==
  /\ here # cut
  /\ \/ getheader = 1 /\ This.type = "long" /\ This.size > 1
     \/ getheader = 2 /\ This.name # fname

(* error() ends the controller, also after a read that fails and for a      *)
(* numeral that does not parse.                                             *)
Exit ==
  /\ result = "reading"
  /\ Fails(TRUE) \/ ((EndsEarly \/ BadName) /\ UNCHANGED failures)
  /\ result' = "exited" /\ outfile' = FALSE
  /\ UNCHANGED <<archive, getheader, remaining, fname, fpathname, disk, attributes, restored, refused>>

Done == result # "reading" /\ UNCHANGED readerVars

ReaderNext ==
  \/ \E ok \in BOOLEAN : \/ MakeDirectory(ok) \/ OpenFile(ok) \/ Return(ok)
                         \/ \E noticed \in BOOLEAN : WriteData(ok, noticed)
  \/ LongName \/ SkipMember \/ Exit \/ Done

ReaderSpec == ReaderInit /\ [][ReaderNext]_readerVars

-----------------------------------------------------------------------------
ReaderTypeOK ==
  /\ getheader \in 0..2 /\ remaining \in 0..MaxBlocks + 1     \* a name is one block
  /\ getheader = 0 => remaining > 0
  /\ outfile => getheader = 0 /\ fpathname \in DOMAIN folder
  /\ \A path \in DOMAIN folder : Parent(path) \in directories /\ ~Occupied(path)
  /\ result \in {"reading", "returned", "exited"} /\ failures \in 0..MaxFailures
  /\ restored \subseteq attributes

Files(record) ==
  {i \in 1..Len(members) : members[i].kind = "file" /\ members[i].record = record}
Extracted(path, i) == path \in refused \/ (path \in DOMAIN folder /\ folder[path] = Content(i))

(* tar: when it has returned, each file in the folder is one member's data, *)
(* from the first block to the last, and has its time, unless the system    *)
(* refused to create or to write it; also when the archive ended early.     *)
FilesAreWhole ==
  result = "returned" =>
    \A path \in DOMAIN folder \ refused :
      /\ path \in restored
      /\ \E i \in Files("none") \cup Files("same") : folder[path] = Content(i)

(* tar: when it has returned from an archive with its end mark, every       *)
(* member is there, but for those the system refused: a file at its path,   *)
(* a file with a long name at the path of its record, and of several such   *)
(* files only the last.  A directory at that path is a refusal.             *)
NothingIsMissed ==
  result = "returned" /\ here # cut =>
    /\ \A i \in Files("none") : Extracted(Path(i), i)
    /\ \A i \in Files("same") : (\A j \in Files("same") : j <= i) => Extracted(LongLink, i)
=============================================================================
