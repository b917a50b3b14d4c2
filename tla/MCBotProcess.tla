---------------------------- MODULE MCBotProcess ----------------------------
(* A small instance of BotProcess: two migration files.                    *)
EXTENDS BotProcess
MCStmts == <<2, 1>>
=============================================================================
