-------------------------- MODULE MCReplyPipeline --------------------------
(* Small instances of the reply pipeline: an ordinary message, a question  *)
(* and a super chat; the console, the host and the narrator as guests.     *)
EXTENDS ReplyPipeline

CONSTANTS ordinary, question, superChat, console, host, narrator, singer

MCRank == [r \in Reply |-> CASE r = superChat -> 0 [] r = question -> 2 [] OTHER -> 3]
MCGuestRank == [g \in Guest |-> CASE g = singer -> 5 [] g = console -> 10
                                  [] g = narrator -> 50 [] OTHER -> 60]
=============================================================================
