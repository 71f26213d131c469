------------------------------ MODULE PacketProxy ------------------------------
(***************************************************************************)
(* The proxy between a game and its server (packet_proxy.rs): one thread per   *)
(* connection takes the first bytes of the server for itself, makes of them    *)
(* the byte that it then puts over everything the game sends, and starts a     *)
(* second thread that copies the other direction as it is.  The two directions *)
(* end at different times.  A peer is open, has ended (sends no more, reads),  *)
(* or is gone.                                                                 *)
(***************************************************************************)
EXTENDS Naturals, Sequences, SequencesExt

CONSTANTS
    AuthLength,  \* bytes of the server that are the proxy's
    GameBytes,   \* what the game sends
    ServerBytes, \* what the server sends, the first AuthLength for the proxy
    Room         \* of the buffer

ProxyAssumption ==
    /\ AuthLength \in Nat \ {0} /\ Room \in Nat \ {0}
    /\ GameBytes \in Seq(0 .. 255) /\ ServerBytes \in Seq(0 .. 255) /\ Len(ServerBytes) >= AuthLength

VARIABLES
    listening, \* the thread that accepts
    game,      \* the peers: at, and how many bytes they have sent
    server,
    up,        \* the thread of the connection: at, read so far, its buffer, the key
    down,      \* the thread of the other direction
    got,       \* what has come to the game and to the server
    told,      \* which of them has been told that there is no more
    failed     \* history: directions that ended with an error

vars == <<listening, game, server, up, down, got, told, failed>>

Peers == {"game", "server"}
NotThere == [at |-> "absent", sent |-> 0]
Idle == [at |-> "none", read |-> 0, buffer |-> <<>>, key |-> <<>>]

TypeOK ==
    /\ listening \in BOOLEAN
    /\ game.at \in {"absent", "open", "ended", "gone"} /\ game.sent \in 0 .. Len(GameBytes)
    /\ server.at \in {"absent", "open", "ended", "gone"} /\ server.sent \in 0 .. Len(ServerBytes)
    /\ up.at \in {"none", "connects", "auth", "reads", "writes", "tells", "joins", "ended"}
    /\ down.at \in {"none", "reads", "writes", "tells", "ended"}
    /\ up.read <= game.sent /\ down.read <= server.sent
    /\ told \subseteq Peers /\ failed \subseteq Peers

Init ==
    /\ listening = TRUE /\ game = NotThere /\ server = NotThere
    /\ up = Idle /\ down = Idle
    /\ got = [p \in Peers |-> <<>>] /\ told = {} /\ failed = {}

-------------------------------------------------------------------------------
(* The peers.                                                                  *)

\* The listening thread stops at the first connection it cannot accept.
GameConnects(accepted) ==
    /\ listening /\ game.at = "absent"
    /\ listening' = accepted
    /\ game' = [game EXCEPT !.at = IF accepted THEN "open" ELSE @]
    /\ up' = [up EXCEPT !.at = IF accepted THEN "connects" ELSE @]
    /\ UNCHANGED <<server, down, got, told, failed>>

GameSends ==
    /\ game.at = "open" /\ game.sent < Len(GameBytes)
    /\ game' = [game EXCEPT !.sent = @ + 1]
    /\ UNCHANGED <<listening, server, up, down, got, told, failed>>
ServerSends ==
    /\ server.at = "open" /\ server.sent < Len(ServerBytes)
    /\ server' = [server EXCEPT !.sent = @ + 1]
    /\ UNCHANGED <<listening, game, up, down, got, told, failed>>

GameLeaves(at) ==
    /\ game.at \in {"open", "ended"} \ {at} /\ game' = [game EXCEPT !.at = at]
    /\ UNCHANGED <<listening, server, up, down, got, told, failed>>
ServerLeaves(at) ==
    /\ server.at \in {"open", "ended"} \ {at} /\ server' = [server EXCEPT !.at = at]
    /\ UNCHANGED <<listening, game, up, down, got, told, failed>>

-------------------------------------------------------------------------------
(* The thread of the connection (handle_game_connection).                      *)

Connect(succeeds) ==
    /\ up.at = "connects"
    /\ up' = [up EXCEPT !.at = IF succeeds THEN "auth" ELSE "ended"]
    /\ server' = [server EXCEPT !.at = IF succeeds THEN "open" ELSE @]
    /\ told' = IF succeeds THEN told ELSE Peers
    /\ UNCHANGED <<listening, game, down, got, failed>>

\* A wrong version, to show that the properties below can fail.
WhatIsThere == server.sent > 0

\* read_exact.
AuthComplete == server.sent >= AuthLength

Keyed == SubSeq(ServerBytes, 1, IF server.sent < AuthLength THEN server.sent ELSE AuthLength)

\* The key; from here on there are two threads.
Authenticates ==
    /\ up.at = "auth" /\ AuthComplete
    /\ up' = [up EXCEPT !.at = "reads", !.key = Keyed]
    /\ down' = [down EXCEPT !.at = "reads", !.read = Len(Keyed)]
    /\ UNCHANGED <<listening, game, server, got, told, failed>>

\* A server that leaves before: both connections are dropped.
NoAuth ==
    /\ up.at = "auth" /\ ~AuthComplete /\ server.at \in {"ended", "gone"}
    /\ up' = [up EXCEPT !.at = "ended"] /\ told' = Peers
    /\ UNCHANGED <<listening, game, server, down, got, failed>>

\* A wrong version, to show that the properties below can fail.
ShortRead(n) == n < Room

\* No byte is read: the peer has ended and all that it sent has been read.
NothingRead(n) == n = 0

Chunk(read, n, sent) == n <= Room /\ n <= sent - read

\* One read of copy_xor.
ReadsGame(n) ==
    /\ up.at = "reads" /\ Chunk(up.read, n, game.sent)
    /\ n > 0 \/ (up.read = game.sent /\ game.at \in {"ended", "gone"})
    /\ up' = [up EXCEPT !.read = @ + n,
                        !.buffer = [i \in 1 .. n |-> <<GameBytes[up.read + i], up.key>>],
                        !.at = IF NothingRead(n) THEN "tells" ELSE "writes"]
    /\ UNCHANGED <<listening, game, server, down, got, told, failed>>

\* What was not read when the game went away may be lost.
ReadFails ==
    /\ up.at = "reads" /\ game.at = "gone"
    /\ up' = [up EXCEPT !.at = "tells"] /\ failed' = failed \cup {"server"}
    /\ UNCHANGED <<listening, game, server, down, got, told>>

\* write_all; a server that is gone gets a part of it.
WritesServer(n) ==
    /\ up.at = "writes" /\ n <= Len(up.buffer)
    /\ got' = [got EXCEPT !["server"] = @ \o SubSeq(up.buffer, 1, n)]
    /\ \/ n = Len(up.buffer) /\ up' = [up EXCEPT !.at = "reads", !.buffer = <<>>] /\ UNCHANGED failed
       \/ /\ server.at = "gone" /\ failed' = failed \cup {"server"}
          /\ up' = [up EXCEPT !.at = "tells", !.buffer = <<>>]
    /\ UNCHANGED <<listening, game, server, down, told>>

\* A wrong version, to show that the properties below can fail.
OnlyJoins ==
    /\ up.at = "tells" /\ up' = [up EXCEPT !.at = "joins"]
    /\ UNCHANGED <<listening, game, server, down, got, told, failed>>

\* server.shutdown(Write), also after an error.
TellsServer ==
    /\ up.at = "tells" /\ up' = [up EXCEPT !.at = "joins"] /\ told' = told \cup {"server"}
    /\ UNCHANGED <<listening, game, server, down, got, failed>>

\* The sockets are dropped when both directions have ended.
Joins ==
    /\ up.at = "joins" /\ down.at = "ended"
    /\ up' = [up EXCEPT !.at = "ended"] /\ told' = Peers
    /\ UNCHANGED <<listening, game, server, down, got, failed>>

-------------------------------------------------------------------------------
(* The other direction: io::copy.                                              *)

ReadsServer(n) ==
    /\ down.at = "reads" /\ Chunk(down.read, n, server.sent)
    /\ n > 0 \/ (down.read = server.sent /\ server.at \in {"ended", "gone"})
    /\ down' = [down EXCEPT !.read = @ + n, !.buffer = SubSeq(ServerBytes, down.read + 1, down.read + n),
                            !.at = IF n = 0 THEN "tells" ELSE "writes"]
    /\ UNCHANGED <<listening, game, server, up, got, told, failed>>

WritesGame(n) ==
    /\ down.at = "writes" /\ n <= Len(down.buffer)
    /\ got' = [got EXCEPT !["game"] = @ \o SubSeq(down.buffer, 1, n)]
    /\ \/ n = Len(down.buffer) /\ down' = [down EXCEPT !.at = "reads", !.buffer = <<>>] /\ UNCHANGED failed
       \/ /\ game.at = "gone" /\ failed' = failed \cup {"game"}
          /\ down' = [down EXCEPT !.at = "tells", !.buffer = <<>>]
    /\ UNCHANGED <<listening, game, server, up, told>>

TellsGame ==
    /\ down.at = "tells" /\ down' = [down EXCEPT !.at = "ended"] /\ told' = told \cup {"game"}
    /\ UNCHANGED <<listening, game, server, up, got, failed>>

Up ==
    \/ Authenticates \/ NoAuth \/ ReadFails \/ TellsServer \/ Joins
    \/ \E s \in BOOLEAN : Connect(s)
    \/ \E n \in 0 .. Room : ReadsGame(n) \/ WritesServer(n)
Down == TellsGame \/ \E n \in 0 .. Room : ReadsServer(n) \/ WritesGame(n)
World ==
    \/ GameSends \/ ServerSends
    \/ \E b \in BOOLEAN : GameConnects(b)
    \/ \E at \in {"ended", "gone"} : GameLeaves(at) \/ ServerLeaves(at)
Next == Up \/ Down \/ World

\* A server that is told that there is no more ends its side as well.
Answer == "server" \in told /\ ServerLeaves("ended")

Spec == Init /\ [][Next]_vars /\ WF_vars(Up) /\ WF_vars(Down) /\ WF_vars(Answer)

-------------------------------------------------------------------------------
\* The server gets what the game sent, in its order, every byte under the key of
\* its own first bytes; the game gets what follows those, unchanged.
KeyIs == SubSeq(ServerBytes, 1, AuthLength)
PassesOn ==
    /\ IsPrefix(got["server"], [i \in 1 .. Len(GameBytes) |-> <<GameBytes[i], KeyIs>>])
    /\ IsPrefix(got["game"], SubSeq(ServerBytes, AuthLength + 1, Len(ServerBytes)))

\* Who is told that there is no more has everything, in a connection without
\* errors in that direction.
EndAfterAll ==
    up.at \in {"joins", "ended"} /\ down.at # "none" =>
        /\ "server" \in told \ failed => Len(got["server"]) = game.sent /\ game.at # "open"
        /\ "game" \in told \ failed => Len(got["game"]) = server.sent - AuthLength /\ server.at # "open"

\* When the game leaves, the server is told and the connection ends, and so it
\* does when both leave: neither direction keeps the other alive for ever.
Leaving == up.at \in {"reads", "writes", "tells", "joins"} /\ game.at \in {"ended", "gone"}
Ended == up.at = "ended"
===============================================================================
