-------------------------- MODULE MCServerSessions --------------------------
(***************************************************************************)
(* ServerSessions with a session of a client and one of a socket, and a    *)
(* tool of each policy.                                                    *)
(***************************************************************************)
EXTENDS ServerSessions, TLC

CONSTANTS client, socket, read, write

TwoSessions == {client, socket}
OneSocket == {socket}
TwoKeys == {read, write}
Policies == read :> "auto" @@ write :> "ask"
Limits == read :> 1 @@ write :> 1
=============================================================================
