------------------------------ MODULE MCLists ------------------------------
(***************************************************************************)
(* Names for PathLists: all of one or two characters, and one that looks   *)
(* like two entries of a file list.                                        *)
(***************************************************************************)
EXTENDS PathLists

Char == {"a", "5", ";", " ", "\n"}

MCName == {<<x>> : x \in Char} \cup {<<x, y>> : x, y \in Char}
              \cup {<<"a", "\n", "5", ";", " ", "b">>}

MCTime == {<<"1">>, <<"2", "5">>}

MCRoot == <<"..", ".", "r">>

MCComponent == {"r", "s"}
=============================================================================
