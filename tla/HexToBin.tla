------------------------------ MODULE HexToBin ------------------------------
(***************************************************************************)
(* src/hexbin/HexToBinBatch.c: the numbers of RGB.txt become the words of  *)
(* RGB.bmp.  The bytes of RGB.txt are taken number by number; "ws" stands  *)
(* for space after the last one, "junk" for text that is not a number.     *)
(***************************************************************************)
EXTENDS Directory

VARIABLES
  hexAt,     \* "none", "scan", "done", "exited", or "endless"
  word,      \* the local i
  read       \* how much of RGB.txt was read

hexVars == <<hexAt, word, read>>

RGB_txt == <<"RGB", ".", "txt">>
RGB_bmp == <<"RGB", ".", "bmp">>

Numbers == files[RGB_txt].bytes

Rest == SubSeq(Numbers, read + 1, Len(Numbers))

(* If one of the files cannot be opened, nothing is done.  RGB.bmp is      *)
(* opened to be read as well; a directory RGB.txt can be opened.           *)
OpenHex ==
  /\ hexAt = "none"
  /\ RGB_txt \in Present \ Unreadable
  /\ RGB_bmp \notin ReadOnly \cup Unreadable \cup dirs
  /\ files' = Put(RGB_bmp, EmptyFile)
  /\ hexAt' = IF RGB_txt \in dirs THEN "endless" ELSE "scan"
  /\ word' = "0" /\ read' = 0

(* Reading a directory fails, which is not the end of a file: what i holds *)
(* is written, again and again (the last word is kept here).               *)
ScanDirectory ==
  /\ hexAt = "endless"
  /\ files' = Put(RGB_bmp, [bytes |-> <<word>>, decls |-> <<>>])
  /\ word' = "1" /\ UNCHANGED <<hexAt, read>>

(* The end is seen with the number when nothing follows it. *)
AfterNumber == IF Len(Rest) = 1 THEN "done" ELSE "scan"

Number(w) == w \notin {"ws", "junk"}

(* Slip: the result of fwrite goes elsewhere. *)
ScanNumberKept ==
  /\ hexAt = "scan" /\ Rest # <<>> /\ Number(Head(Rest))
  /\ files' = PutByte(RGB_bmp, Head(Rest))
  /\ word' = Head(Rest) /\ read' = read + 1
  /\ hexAt' = AfterNumber

(* The number is written, and fwrite's result, 1, replaces it in i. *)
ScanNumber ==
  /\ hexAt = "scan" /\ Rest # <<>> /\ Number(Head(Rest))
  /\ files' = PutByte(RGB_bmp, Head(Rest))
  /\ word' = "1" /\ read' = read + 1
  /\ hexAt' = AfterNumber

(* fscanf returns EOF, which is not 0 either: what i holds is written.     *)
ScanEnd ==
  /\ hexAt = "scan" /\ Rest \in {<<>>, <<"ws">>}
  /\ files' = PutByte(RGB_bmp, word)
  /\ hexAt' = "done"
  /\ word' = "1" /\ UNCHANGED read

(* No number: exit(1), which writes the buffers out. *)
ScanJunk ==
  /\ hexAt = "scan" /\ Rest # <<>> /\ Head(Rest) = "junk"
  /\ hexAt' = "exited"
  /\ UNCHANGED <<files, word, read>>

hexNext == OpenHex \/ ScanDirectory \/ ScanNumber \/ ScanEnd \/ ScanJunk

-----------------------------------------------------------------------------
(* Every number up to the first text that is none is in RGB.bmp, in order. *)
(* One word more is written when the end of RGB.txt is not seen with the   *)
(* last number: 1 after space, 0 for a file without numbers.               *)
WordsWritten ==
  LET words == files[RGB_bmp].bytes
      numbers == IF Numbers # <<>> /\ Last(Numbers) = "ws" THEN Front(Numbers) ELSE Numbers
  IN /\ hexAt = "exited" =>
          \E n \in 0..Len(Numbers) - 1 :
            /\ Numbers[n + 1] = "junk"
            /\ words = SubSeq(Numbers, 1, n) /\ \A k \in 1..n : Number(words[k])
     /\ hexAt = "done" =>
          /\ \A k \in DOMAIN numbers : Number(numbers[k])
          /\ words = numbers \o (IF numbers = <<>> THEN <<"0">>
                                 ELSE IF numbers # Numbers THEN <<"1">> ELSE <<>>)
=============================================================================
