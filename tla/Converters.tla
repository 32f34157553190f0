----------------------------- MODULE Converters -----------------------------
(***************************************************************************)
(* The two converters in one directory: a user runs one or the other, each *)
(* to its end.  HexToBin leaves RGB.bmp, which BinToHex then converts into *)
(* the same header as RGB.txt.                                             *)
(***************************************************************************)
EXTENDS BinToHex, HexToBin

CONSTANTS
  Directories,   \* the directories to start with: their names
  Subdirs,       \* the names that may be subdirectories
  Contents,      \* what a file holds at first
  HexInputs      \* what RGB.txt holds at first

ASSUME DirectoriesAssumption ==
  /\ {".", "/", "_", "h", "target", "target2", "RGB", "bmp", EofByte, "0", "1"} \subseteq Words
  /\ \A names \in Directories : \A n \in names : n \in Seq(Words)
  /\ Contents \in Seq(Words)
  /\ HexInputs # {} /\ \A input \in HexInputs : input \in Seq(Words)

converterVars == <<files, dirs, given, binVars, hexVars>>

ConverterInit ==
  \E names \in Directories, input \in HexInputs :
    /\ dirs \in SUBSET (names \cap Subdirs)
    /\ files = [n \in names \ dirs |->
                  [bytes |-> IF n = RGB_txt THEN input ELSE Contents, decls |-> <<>>]]
    /\ RGB_txt \notin names \ dirs => input = CHOOSE i \in HexInputs : TRUE
    /\ given = files
    /\ at = "idle" /\ pass = "bintohex" /\ listed = {} /\ seen = {}
    /\ name = <<>> /\ pos = 0 /\ leaked = 0 /\ from = <<>> /\ had = Tables /\ runs = 0
    /\ hexAt = "none" /\ word = "0" /\ read = 0

BinToHexRuns == hexAt \notin {"scan", "endless"} /\ binNext /\ UNCHANGED hexVars

(* RGB.bmp is overwritten, whatever it was. *)
HexToBinRuns ==
  /\ at = "idle" /\ hexNext
  /\ given' = [n \in DOMAIN given \ {RGB_bmp} |-> given[n]]
  /\ UNCHANGED <<dirs, binVars>>

ConverterNext == BinToHexRuns \/ HexToBinRuns

(* A program that was started goes on. *)
ConverterSpec ==
  /\ ConverterInit /\ [][ConverterNext]_converterVars
  /\ WF_converterVars(at # "idle" /\ BinToHexRuns)
=============================================================================
