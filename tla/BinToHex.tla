------------------------------ MODULE BinToHex ------------------------------
(***************************************************************************)
(* src/BinToHexBatch.c: for every file of the directory it is run in, a    *)
(* header with its bytes (bintohex), and then, for every header, an array  *)
(* in target.h and an element of a table in target2.h (createcode).  Both  *)
(* passes walk the directory that they write to.                           *)
(*                                                                         *)
(* Line breaks in the headers and text on the console are left out.        *)
(***************************************************************************)
EXTENDS Directory

CONSTANTS
  HWords,        \* the words that begin with an h or an H
  MaxOpen,       \* how many descriptors the program may open
  MaxRuns        \* bound: how often the program is run

ASSUME ConverterAssumption ==
  /\ "h" \in HWords
  /\ MaxOpen \in Nat \ {0} /\ MaxRuns \in Nat

VARIABLES
  given,     \* history: the files that were there at first
  at,        \* "idle", "walk", "convert" or "declare"
  pass,      \* the function dirwalk calls: "bintohex" or "createcode"
  listed,    \* the names that opendir found
  seen,      \* the names that readdir reported
  name,      \* what the function was called with
  pos,       \* how many bytes of it were read
  leaked,    \* the files that were opened and never closed
  from,      \* history: the name from which each header was last written
  had,       \* history: the tables when createcode began
  runs       \* how often the program was started

walkVars == <<listed, seen, name>>
binVars == <<at, pass, walkVars, pos, leaked, from, had, runs>>

-----------------------------------------------------------------------------
(* Names.  dirwalk puts "./" in front. *)
Path(n) == <<".", "/">> \o n

Dots(s) == {k \in DOMAIN s : s[k] = "."}

(* Everything before the last dot. *)
Stem(s) == SubSeq(s, 1, Max(Dots(s)) - 1)

Underscored(s) == [k \in DOMAIN s |-> IF s[k] = "-" THEN "_" ELSE s[k]]

(* Slip: the extension stays. *)
replaceadixKept(path) == Underscored(path)

(* The dot of "./" stands first: a name that has no other keeps all of it. *)
replaceadix(path) ==
  Underscored((IF Dots(path) = {1} THEN path ELSE Stem(path)) \o <<".", "h">>)

(* The name of the header for n, without the "./". *)
Target(n) == SubSeq(replaceadix(Path(n)), 3, Len(replaceadix(Path(n))))

(* strcasestr(name, ".h") *)
LooksLikeHeader(n) == \E k \in Dots(n) \ {Len(n)} : n[k + 1] \in HWords

target_h == <<"target", ".", "h">>
target2_h == <<"target2", ".", "h">>

Tables == [n \in {target_h, target2_h} |-> Decls(n)]

-----------------------------------------------------------------------------
(* What fprintf writes for the EOF that fgetc returned. *)
EofByte == "ff"

(* n more descriptors can be opened beside those that leaked. *)
Room(n) == leaked + n <= MaxOpen

(* One descriptor is the directory's.  A directory can be opened for       *)
(* reading too.                                                            *)
OpensToRead(n) == n \notin Unreadable /\ Room(2)
OpensToWrite(n, k) == n \notin ReadOnly \cup dirs /\ Room(k)

(* A header is opened to be read as well ("w+"). *)
OpensAnew(n, k) == OpensToWrite(n, k) /\ n \notin Unreadable

-----------------------------------------------------------------------------
(* dirwalk.  readdir reports what opendir found, once each; of what was    *)
(* made since it may report some or nothing.  The names "." and ".." are   *)
(* not in files, and no name is too long for the buffer of dirwalk.        *)

Opendir(fcn) ==
  /\ pass' = fcn
  /\ listed' = Present /\ seen' = {}

(* Slip: the directory is opened again for the next entry. *)
ReportedFromStart(n) ==
  /\ at = "walk"
  /\ n \in Present \ seen
  /\ seen' = {}
  /\ name' = n
  /\ UNCHANGED listed

Reported(n) ==
  /\ at = "walk"
  /\ n \in Present \ seen
  /\ seen' = seen \cup {n}
  /\ name' = n
  /\ UNCHANGED listed

Start ==
  /\ at = "idle" /\ runs < MaxRuns
  /\ runs' = runs + 1
  /\ leaked' = 0
  /\ at' = "walk"
  /\ Opendir("bintohex")
  /\ from' = <<>>
  /\ UNCHANGED <<files, name, pos, had>>

(* The first walk is over and the second begins: the descriptor of the     *)
(* directory was closed, and no leak can take it.                          *)
SecondWalk ==
  /\ at = "walk" /\ pass = "bintohex" /\ listed \subseteq seen
  /\ Opendir("createcode")
  /\ had' = Tables
  /\ UNCHANGED <<files, at, name, pos, leaked, from, runs>>

WalksDone ==
  /\ at = "walk" /\ pass = "createcode" /\ listed \subseteq seen
  /\ at' = "idle"
  /\ UNCHANGED <<files, pass, walkVars, pos, leaked, from, had, runs>>

-----------------------------------------------------------------------------
(* bintohex: the source cannot be opened ... *)
SourceFails(n) ==
  /\ pass = "bintohex" /\ Reported(n) /\ ~OpensToRead(n)
  /\ UNCHANGED <<files, at, pass, pos, leaked, from, had, runs>>

(* ... or the header, and then the source stays open ...                   *)
HeaderFails(n) ==
  /\ pass = "bintohex" /\ Reported(n)
  /\ OpensToRead(n) /\ ~OpensAnew(Target(n), 3)
  /\ leaked' = leaked + 1
  /\ UNCHANGED <<files, at, pass, pos, from, had, runs>>

(* ... or the header is emptied, which may be the source itself.           *)
OpenBoth(n) ==
  /\ pass = "bintohex" /\ Reported(n)
  /\ OpensToRead(n) /\ OpensAnew(Target(n), 3)
  /\ files' = Put(Target(n), EmptyFile)
  /\ from' = [t \in DOMAIN from \cup {Target(n)} |-> IF t = Target(n) THEN n ELSE from[t]]
  /\ pos' = 0
  /\ at' = "convert"
  /\ UNCHANGED <<pass, leaked, had, runs>>

ReadByte ==
  /\ at = "convert" /\ name \notin dirs
  /\ name # Target(name) /\ pos < Len(files[name].bytes)
  /\ files' = PutByte(Target(name), files[name].bytes[pos + 1])
  /\ pos' = pos + 1
  /\ UNCHANGED <<at, pass, walkVars, leaked, from, had, runs>>

AtEnd == name = Target(name) \/ pos = Len(files[name].bytes)

(* feof is tested before fgetc: the EOF is written as one more byte.  A    *)
(* file that is its own header was emptied: it is at its end at once, long *)
(* before what is written to it leaves the buffer.                         *)
ReadEnd ==
  /\ at = "convert" /\ name \notin dirs /\ AtEnd
  /\ files' = PutByte(Target(name), EofByte)
  /\ at' = "walk"
  /\ UNCHANGED <<pass, walkVars, pos, leaked, from, had, runs>>

(* Reading a directory fails, which is not the end of a file: the loop     *)
(* goes on for ever, and what it writes is the same byte (kept once here). *)
ReadDirectory ==
  /\ at = "convert" /\ name \in dirs
  /\ files' = Put(Target(name), [bytes |-> <<EofByte>>, decls |-> files[Target(name)].decls])
  /\ UNCHANGED <<at, pass, walkVars, pos, leaked, from, had, runs>>

-----------------------------------------------------------------------------
(* createcode: only names with a ".h" in them ... *)
NoHeader(n) ==
  /\ pass = "createcode" /\ Reported(n)
  /\ ~LooksLikeHeader(n) \/ ~OpensToWrite(target_h, 2)
  /\ UNCHANGED <<files, at, pass, pos, leaked, from, had, runs>>

Declaration(n) == [array |-> Stem(n), file |-> n]

(* ... are declared in target.h, which the walk may report as well ...     *)
Declare(n) ==
  /\ pass = "createcode" /\ Reported(n)
  /\ LooksLikeHeader(n) /\ OpensToWrite(target_h, 2)
  /\ files' = PutDecl(target_h, Declaration(n))
  /\ at' = "declare"
  /\ UNCHANGED <<pass, pos, leaked, from, had, runs>>

(* Slip: target.h is still open and takes the element too. *)
EnlistTwice ==
  /\ at = "declare"
  /\ files' = PutDecl(target_h, Declaration(name))
  /\ at' = "walk"
  /\ UNCHANGED <<pass, walkVars, pos, leaked, from, had, runs>>

(* ... and then enter the table in target2.h, if it can be opened.         *)
Enlist ==
  /\ at = "declare"
  /\ IF OpensToWrite(target2_h, 2)
       THEN files' = PutDecl(target2_h, Declaration(name))
       ELSE UNCHANGED files
  /\ at' = "walk"
  /\ UNCHANGED <<pass, walkVars, pos, leaked, from, had, runs>>

-----------------------------------------------------------------------------
binNext ==
  /\ \/ Start \/ SecondWalk \/ WalksDone
     \/ \E n \in Present : SourceFails(n) \/ HeaderFails(n) \/ OpenBoth(n)
     \/ ReadByte \/ ReadEnd \/ ReadDirectory
     \/ \E n \in Present : NoHeader(n) \/ Declare(n)
     \/ Enlist
  /\ UNCHANGED <<dirs, given>>

-----------------------------------------------------------------------------
(* When the headers are written, each one holds the bytes of the file that *)
(* was converted last under its name, as that file was before the program  *)
(* ever ran, and one byte ff more.  A header that was met by the walk as a *)
(* file itself holds that byte only.  No other file is touched, although   *)
(* all of them are read and written under one directory and two files may  *)
(* have one header.                                                        *)
Original(n) == IF n \in DOMAIN given THEN given[n].bytes ELSE files[n].bytes

HeadersHold ==
  /\ at # "idle" /\ pass = "createcode" =>
       \A t \in DOMAIN from :
         files[t].bytes = IF from[t] = t THEN <<EofByte>>
                                         ELSE Append(Original(from[t]), EofByte)
  /\ \A n \in DOMAIN given :
       files[n] = given[n] \/ IsSuffix(<<".", "h">>, n)

(* The table in target2.h refers to arrays that target.h declares: what    *)
(* createcode appends to both is the same, in one order, but for the one   *)
(* that it is at, and what they held before stays.  Only a target2.h that  *)
(* cannot be opened stays without any.                                     *)
Added(n) == SubSeq(Decls(n), Len(had[n]) + 1, Len(Decls(n)))

TablesAgree ==
  pass = "createcode" =>
    /\ \A n \in {target_h, target2_h} : IsPrefix(had[n], Decls(n))
    /\ \/ Added(target2_h) = IF at = "declare" THEN Front(Added(target_h)) ELSE Added(target_h)
       \/ Added(target2_h) = <<>> /\ ~OpensToWrite(target2_h, 2)

(* The program ends, although it makes new entries for its own walk to     *)
(* meet, unless it reads a subdirectory.                                   *)
WalksEnd == at # "idle" ~> at = "idle" \/ (at = "convert" /\ name \in dirs)
=============================================================================
