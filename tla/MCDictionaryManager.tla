------------------------- MODULE MCDictionaryManager ------------------------
(* One dictionary, on a system that refuses to touch open files and on one   *)
(* that does not.                                                            *)
EXTENDS DictionaryManager

MCPlatforms == BOOLEAN
=============================================================================
