-------------------------- MODULE MCRemoteManager --------------------------
(***************************************************************************)
(* TLC instances of RemoteManager.                                         *)
(***************************************************************************)
EXTENDS RemoteManager, TLC

\* Every client may see everything.
EverythingVisible == [c \in Clients |-> Remotes \cup Objects]

CONSTANTS c1, c2

\* One client uses the reliable event and the object, the other the sequenced
\* event.
SplitVisible == (c1 :> Events \cup Objects) @@ (c2 :> Sequenced)

\* Bound: sequenced events go one way over a connection, reliable ones to the server.
OneWay ==
    \A c \in Clients :
        /\ trace[<<c, "server">>].sent = 0
        /\ datagrams[<<c, "client">>] = {} \/ datagrams[<<c, "server">>] = {}
=============================================================================
