---------------------------- MODULE MCConverters ----------------------------
(***************************************************************************)
(* Instances of Converters for TLC.                                        *)
(***************************************************************************)
EXTENDS Converters

dashed == <<"a", "-", "b", ".", "bin">>
dashed_h == <<"a", "-", "b", ".", "h">>
plain == <<"a", "_", "b", ".", "txt">>
plain_h == <<"a", "_", "b", ".", "h">>
html == <<"page", ".", "html">>
undotted == <<"README">>
hidden == <<".", "x">>
subdir == <<"sub">>
locked == <<"ro", ".", "bin">>
locked_h == <<"ro", ".", "h">>
other == <<"x", ".", "txt">>
other_h == <<"x", ".", "h">>

\* Two files with one header; a file beside its header; a header that has
\* another header; names with ".h" inside, without a dot and unreadable;
\* headers that cannot be written or read; a subdirectory, which may have the
\* name of the second table; and the input of HexToBin, a file or a directory.
SmallDirectories ==
  {{}, {dashed, plain}, {dashed, plain_h}, {dashed_h, plain},
   {html}, {undotted, hidden}, {locked, locked_h}, {other, other_h},
   {subdir, dashed}, {target2_h, html}, {RGB_txt}}

AllWords ==
  {".", "-", "_", "/", "h", "a", "b", "bin", "txt", "page", "html", "README", "x", "sub", "ro",
   "target", "target2", "RGB", "bmp", "00", "01", "02", "10", "ff", "0", "1", "ws", "junk"}
SubdirNames == {subdir, target2_h, RGB_txt}
ReadOnlyNames == {locked_h}
UnreadableNames == {hidden, other_h}
SomeBytes == <<"01", "ff">>
HexTexts == {<<>>, <<"ws">>, <<"10", "02">>, <<"10", "ws">>, <<"10", "junk", "02">>}
=============================================================================
