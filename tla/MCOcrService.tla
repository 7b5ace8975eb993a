---------------------------- MODULE MCOcrService ----------------------------
(* Three requests: one running, one in the mailbox and one that replaces it, *)
(* with two engine selections to race with them.                             *)
EXTENDS OcrService

MCMaxRequests == 3
MCMaxSelections == 2
=============================================================================
