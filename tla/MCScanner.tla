------------------------------ MODULE MCScanner ------------------------------
(***************************************************************************)
(* The scanner for TLC: two files of one name in different directories, a  *)
(* system file's name, and a text.                                         *)
(***************************************************************************)
EXTENDS Scanner

MCPaths ==
    {[dir |-> "a", name |-> "x.dll"], [dir |-> "b", name |-> "x.dll"],
     [dir |-> "a", name |-> "ntdll.dll"], [dir |-> "a", name |-> "y.txt"]}
=============================================================================
