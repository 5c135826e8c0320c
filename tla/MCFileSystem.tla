--------------------------- MODULE MCFileSystem ----------------------------
(***************************************************************************)
(* Two files in the ramdisk, two open at a time; a name that is not there  *)
(* and one slash too many.  The modes scan possible_modes to the first, a  *)
(* middle and past the last entry.                                         *)
(***************************************************************************)
EXTENDS FileSystem

MCInodes == <<[name |-> "task", size |-> 1], [name |-> "readme", size |-> 2]>>

MCPaths == {[slashes |-> 1, name |-> "task"], [slashes |-> 0, name |-> "readme"],
            [slashes |-> 2, name |-> "task"], [slashes |-> 1, name |-> "none"]}

MCModes == {<<"r">>, <<"w", "+", "b">>, <<"x">>}
=============================================================================
