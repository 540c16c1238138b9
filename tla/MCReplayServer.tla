--------------------------- MODULE MCReplayServer ---------------------------
EXTENDS ReplayServer

(* An odd log, an even one, and one with a line that holds no message.     *)
MCLogs == {<<"snapshot42", "incremental", "incremental">>,
           <<"other", "snapshot42", "snapshot", "incremental">>,
           <<"incremental", "snapshot42", "junk", "incremental">>}
=============================================================================
