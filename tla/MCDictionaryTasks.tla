-------------------------- MODULE MCDictionaryTasks -------------------------
(* One dictionary that a server publishes and one custom list.               *)
EXTENDS DictionaryTasks

CONSTANTS dump, list

TheDownloads == {dump}
TheLists == {list}
=============================================================================
