----------------------------- MODULE Directory -----------------------------
(***************************************************************************)
(* The directory in which the converters of src/hexbin run.  A name is the *)
(* sequence of its parts: dots, dashes, underscores and the words between  *)
(* them.  A file holds bytes, some of which stand for the text of a        *)
(* header, and the declarations that createcode appended to it.            *)
(***************************************************************************)
EXTENDS Naturals, Sequences, SequencesExt, FiniteSetsExt

CONSTANTS
  Words,         \* the parts of names, and what stands for a byte
  Unreadable,    \* names of files that cannot be opened for reading
  ReadOnly       \* names of files that cannot be opened for writing

VARIABLES
  files,     \* the regular files, by name
  dirs       \* the names of the subdirectories

Present == DOMAIN files \cup dirs

EmptyFile == [bytes |-> <<>>, decls |-> <<>>]

Decls(n) == IF n \in DOMAIN files THEN files[n].decls ELSE <<>>

Put(n, content) == [f \in DOMAIN files \cup {n} |-> IF f = n THEN content ELSE files[f]]

PutByte(n, byte) ==
  Put(n, [bytes |-> Append(files[n].bytes, byte), decls |-> files[n].decls])

PutDecl(n, decl) ==
  Put(n, [bytes |-> IF n \in DOMAIN files THEN files[n].bytes ELSE <<>>,
          decls |-> Append(Decls(n), decl)])
=============================================================================
