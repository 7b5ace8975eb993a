------------------------- MODULE MCDictionaryRestart ------------------------
(* One dictionary imported twice, on the system that lets open files be      *)
(* replaced, and a process that ends once.                                   *)
EXTENDS DictionaryManager

MCPlatforms == {FALSE}
=============================================================================
