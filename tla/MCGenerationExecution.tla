----------------------- MODULE MCGenerationExecution -----------------------
(***************************************************************************)
(* Small instances of GenerationExecution for TLC: a queue of one job, an  *)
(* urgent and one or more ordinary events.                                 *)
(***************************************************************************)
EXTENDS GenerationExecution, TLC

CONSTANTS donation, chat, chat2

MCEvents == {donation, chat}
MCRank == (donation :> 1) @@ (chat :> 3)

MCEvents1 == {chat}
MCRank1 == chat :> 3

MCEvents3 == {donation, chat, chat2}
MCRank3 == (donation :> 1) @@ (chat :> 3) @@ (chat2 :> 3)
=============================================================================
