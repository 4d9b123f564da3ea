-------------------------------- MODULE Ipc ---------------------------------
(***************************************************************************)
(* Requests between adapters and the daemon (src/src/ipc.ts): RpcClient    *)
(* sends a request and waits for its reply, a deadline or the end of the   *)
(* connection; listenRpc runs a handler per request, aborts it when it is  *)
(* cancelled or its connection ends, releases the session of a connection  *)
(* once its handlers are through, and drains all of it before storage may  *)
(* close. A client never repeats a request.                                *)
(*                                                                         *)
(* Handlers are the rest of the daemon: one may have its effect or not and *)
(* end well or with an error, stopped or not.                              *)
(***************************************************************************)
EXTENDS Naturals, Sequences, FiniteSets

CONSTANTS
    Requests,     \* ids of requests; every call makes a new one
    Connections

VARIABLES
    conn,     \* the connection each request was sent on
    pending,  \* requests whose caller waits for an answer
    response, \* what each caller was told
    overdue,  \* requests whose deadline passed before their reply
    up, down, \* frames under way on each connection, to the daemon and back
    client,   \* each connection as its client sees it
    server,   \* and as the daemon sees it
    running,  \* requests whose handler runs
    stopped,  \* requests whose handler was told to stop
    effect,   \* requests that have had their effect
    serving     \* of the daemon's server

rpcVars == <<conn, pending, response, overdue>>
wireVars == <<up, down, client>>
jobVars == <<running, stopped, effect>>
ipcVars == <<rpcVars, wireVars, server, jobVars, serving>>

NoConnection == "none"
ASSUME ConnectionsAssumption == NoConnection \notin Connections

Responses == {"none", "result", "error", "unknown", "closed", "cancelled"}

IpcTypeOK ==
    /\ conn \in [Requests -> Connections \cup {NoConnection}]
    /\ pending \subseteq Requests /\ overdue \subseteq Requests
    /\ response \in [Requests -> Responses]
    /\ client \in [Connections -> {"open", "closed"}]
    /\ server \in [Connections -> {"open", "ending", "disconnecting", "released"}]
    /\ running \subseteq Requests /\ stopped \subseteq Requests /\ effect \subseteq Requests
    /\ serving \in {"listening", "closing", "drained"}

IpcInit ==
    /\ conn = [r \in Requests |-> NoConnection]
    /\ pending = {} /\ overdue = {}
    /\ response = [r \in Requests |-> "none"]
    /\ up = [c \in Connections |-> <<>>] /\ down = [c \in Connections |-> <<>>]
    /\ client = [c \in Connections |-> "open"]
    /\ server = [c \in Connections |-> "open"]
    /\ running = {} /\ stopped = {} /\ effect = {}
    /\ serving = "listening"

Of(c) == {r \in Requests : conn[r] = c}
Settle(rs, what) ==
    /\ response' = [r \in Requests |-> IF r \in rs THEN what ELSE response[r]]
    /\ pending' = pending \ rs

-----------------------------------------------------------------------------
(* The client. *)

\* call(): refused on a closed connection, otherwise sent.
SendCall(r, c) ==
    /\ conn[r] = NoConnection
    /\ conn' = [conn EXCEPT ![r] = c]
    /\ IF client[c] = "open"
       THEN /\ pending' = pending \cup {r}
            /\ up' = [up EXCEPT ![c] = Append(@, [kind |-> "request", id |-> r])]
            /\ UNCHANGED response
       ELSE response' = [response EXCEPT ![r] = "closed"] /\ UNCHANGED <<pending, up>>
    /\ UNCHANGED <<overdue, down, client, server, jobVars, serving>>

\* A signal that is already stopped submits nothing.
CallAborted(r, c) ==
    /\ conn[r] = NoConnection
    /\ conn' = [conn EXCEPT ![r] = c]
    /\ response' = [response EXCEPT ![r] = "cancelled"]
    /\ UNCHANGED <<pending, overdue, wireVars, server, jobVars, serving>>

\* The caller gives up: the daemon is asked to stop, the call waits for what it says.
Cancel(r) ==
    LET frame == [kind |-> "cancel", id |-> r] IN
    /\ r \in pending /\ client[conn[r]] = "open"
    /\ frame \notin {up[conn[r]][i] : i \in DOMAIN up[conn[r]]} /\ r \notin stopped
    /\ up' = [up EXCEPT ![conn[r]] = Append(@, frame)]
    /\ UNCHANGED <<rpcVars, down, client, server, jobVars, serving>>

\* The deadline of a response. The request itself goes on.
Deadline(r) ==
    /\ r \in pending
    /\ Settle({r}, "unknown")
    /\ overdue' = overdue \cup {r}
    /\ UNCHANGED <<conn, wireVars, server, jobVars, serving>>

\* Mutation of Receive: a reply settles whatever call is waiting.
ReceiveAny(c) ==
    /\ client[c] = "open" /\ down[c] # <<>>
    /\ \E r \in pending \cap Of(c) : Settle({r}, Head(down[c]).outcome)
    /\ down' = [down EXCEPT ![c] = Tail(@)]
    /\ UNCHANGED <<conn, overdue, up, client, server, jobVars, serving>>

\* A reply settles its call; one that comes too late is only noted.
Receive(c) ==
    /\ client[c] = "open" /\ down[c] # <<>>
    /\ LET reply == Head(down[c]) IN
       IF reply.id \in pending
       THEN Settle({reply.id}, reply.outcome) /\ UNCHANGED overdue
       ELSE overdue' = overdue \ {reply.id} /\ UNCHANGED <<response, pending>>
    /\ down' = [down EXCEPT ![c] = Tail(@)]
    /\ UNCHANGED <<conn, up, client, server, jobVars, serving>>

\* The client closes the connection, or learns that it is gone: no call is retried.
ClientCloses(c) ==
    /\ client[c] = "open"
    /\ client' = [client EXCEPT ![c] = "closed"]
    /\ Settle(pending \cap Of(c), "unknown")
    /\ down' = [down EXCEPT ![c] = <<>>]
    /\ UNCHANGED <<conn, overdue, up, server, jobVars, serving>>

-----------------------------------------------------------------------------
(* The daemon. *)

Serve(c) ==
    /\ server[c] = "open" /\ up[c] # <<>>
    /\ LET frame == Head(up[c]) IN
       IF frame.kind = "request"
       THEN running' = running \cup {frame.id} /\ UNCHANGED stopped
       ELSE stopped' = stopped \cup ({frame.id} \cap running) /\ UNCHANGED running
    /\ up' = [up EXCEPT ![c] = Tail(@)]
    /\ UNCHANGED <<rpcVars, down, client, server, effect, serving>>

\* A handler has its effect; its result comes later.
Act(r) ==
    /\ r \in running /\ r \notin effect
    /\ effect' = effect \cup {r}
    /\ UNCHANGED <<rpcVars, wireVars, server, running, stopped, serving>>

\* A handler ends: with a result once it has had its effect, or with an error, which
\* says nothing of that. Nobody is told when the connection is gone.
Finish(r) ==
    LET c == conn[r] IN
    /\ r \in running
    /\ running' = running \ {r}
    /\ \E outcome \in {"error"} \cup (IF r \in effect THEN {"result"} ELSE {}) :
         down' = IF server[c] = "open" /\ client[c] = "open"
                 THEN [down EXCEPT ![c] = Append(@, [id |-> r, outcome |-> outcome])] ELSE down
    /\ UNCHANGED <<rpcVars, up, client, server, stopped, effect, serving>>

\* Mutation of SocketCloses: running handlers are not told.
SocketClosesSilently(c) ==
    /\ server[c] = "open"
    /\ server' = [server EXCEPT ![c] = "ending"]
    /\ up' = [up EXCEPT ![c] = <<>>]
    /\ UNCHANGED <<rpcVars, down, client, jobVars, serving>>

\* The socket closes, because the client closed it, it broke, or the daemon destroys it.
SocketCloses(c) ==
    /\ server[c] = "open"
    /\ server' = [server EXCEPT ![c] = "ending"]
    /\ stopped' = stopped \cup (running \cap Of(c))
    /\ up' = [up EXCEPT ![c] = <<>>]
    /\ UNCHANGED <<rpcVars, down, client, running, effect, serving>>

\* Mutation of Disconnect: the handlers are not waited for.
DisconnectAtOnce(c) ==
    /\ server[c] = "ending"
    /\ server' = [server EXCEPT ![c] = "disconnecting"]
    /\ UNCHANGED <<rpcVars, wireVars, jobVars, serving>>

\* Once the connection's handlers are through its session is released.
Disconnect(c) ==
    /\ server[c] = "ending" /\ running \cap Of(c) = {}
    /\ server' = [server EXCEPT ![c] = "disconnecting"]
    /\ UNCHANGED <<rpcVars, wireVars, jobVars, serving>>

Disconnected(c) ==
    /\ server[c] = "disconnecting"
    /\ server' = [server EXCEPT ![c] = "released"]
    /\ UNCHANGED <<rpcVars, wireVars, jobVars, serving>>

\* close(): every socket is destroyed.
ServerCloses ==
    /\ serving = "listening"
    /\ serving' = "closing"
    /\ server' = [c \in Connections |-> IF server[c] = "open" THEN "ending" ELSE server[c]]
    /\ stopped' = stopped \cup {r \in running : server[conn[r]] = "open"}
    /\ up' = [c \in Connections |-> IF server[c] = "open" THEN <<>> ELSE up[c]]
    /\ UNCHANGED <<rpcVars, down, client, running, effect>>

\* Handlers and disconnects are all through.
Drain ==
    /\ serving = "closing" /\ running = {} /\ \A c \in Connections : server[c] = "released"
    /\ serving' = "drained"
    /\ UNCHANGED <<rpcVars, wireVars, server, jobVars>>

-----------------------------------------------------------------------------
IpcNext ==
    \/ ServerCloses \/ Drain
    \/ \E r \in Requests :
          \/ Cancel(r) \/ Deadline(r) \/ Act(r) \/ Finish(r)
          \/ \E c \in Connections : SendCall(r, c) \/ CallAborted(r, c)
    \/ \E c \in Connections :
          \/ Receive(c) \/ ClientCloses(c) \/ Serve(c) \/ SocketCloses(c)
          \/ Disconnect(c) \/ Disconnected(c)

IpcSpec == IpcInit /\ [][IpcNext]_ipcVars

\* Timers fire, an stopped handler ends, and a release of a session ends. Handlers
\* that nobody stopped need not end.
IpcFairness ==
    /\ WF_ipcVars(Drain)
    /\ \A r \in Requests : WF_ipcVars(Deadline(r)) /\ WF_ipcVars(r \in stopped /\ Finish(r))
    /\ \A c \in Connections : WF_ipcVars(Disconnect(c)) /\ WF_ipcVars(Disconnected(c))

IpcFairSpec == IpcSpec /\ IpcFairness

-----------------------------------------------------------------------------
(* Properties. *)

\* A caller that is told "result" had its own request carried out; one that is told
\* "closed" or "cancelled" had not, nor ever will, also when others were in flight.
ResponsesAreTrue ==
    \A r \in Requests :
        /\ response[r] = "result" => r \in effect
        /\ response[r] \in {"closed", "cancelled"} => r \notin effect \cup running

\* A session is released after the last handler of its connection has ended, and no
\* handler begins on a connection that is being released.
ReleasedLast ==
    \A c \in Connections : server[c] \in {"disconnecting", "released"} => running \cap Of(c) = {}

\* When the server has drained, nothing that uses storage is left: no handler and no
\* release of a session.
DrainedIsQuiet ==
    serving = "drained" => running = {} /\ \A c \in Connections : server[c] = "released"

\* Handlers of a connection that is gone have been told to stop.
OrphansAreAborted == \A r \in running : server[conn[r]] # "open" => r \in stopped

\* A session is released when its handlers are through, and the server has drained when
\* all sessions are released: what uses storage ends before storage is closed.
SessionsEndLast == ReleasedLast /\ DrainedIsQuiet /\ OrphansAreAborted

\* Neither end is deceived about what the other still does.
EndsAgree == ResponsesAreTrue /\ SessionsEndLast

\* Every call is answered, whatever becomes of the daemon or the connection.
CallsSettle == \A r \in Requests : r \in pending ~> response[r] # "none"

\* A server that starts to close gets to the end, also with requests in flight.
ServerDrains == serving = "closing" ~> serving = "drained"

\* Neither a caller nor a server that closes waits for ever on the other's end.
ConnectionSettles == CallsSettle /\ ServerDrains
=============================================================================
