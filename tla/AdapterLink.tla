------------------------------ MODULE AdapterLink ------------------------------
(***************************************************************************)
(* The connection of an MCP adapter to the daemon (runMcp in               *)
(* src/src/mcp.ts). It is made when a call needs it, shared by calls that  *)
(* come meanwhile, kept alive by a heartbeat, and made anew when its       *)
(* socket is gone. A stop of the adapter may come at any time, also while  *)
(* it connects; so may the end of a socket, of which the daemon learns     *)
(* later, and then closes the session that was opened over it. A call may  *)
(* get no answer in time: it ends with an unknown outcome, the socket      *)
(* lives on, the daemon may still do what was asked for, and an answer     *)
(* that comes after the deadline is dropped.                               *)
(*                                                                         *)
(* The adapter's session has a name: the one it was started with, the one  *)
(* the daemon gave it, or what setAgentName asked for. The daemon and its  *)
(* sessions are external here: HostSessions and Turns have them. The       *)
(* adapter is of no native host: for those preferredName is not kept, and  *)
(* only their identities may have several attachments.                     *)
(***************************************************************************)
EXTENDS Naturals

CONSTANTS
    Links,      \* sockets, each used once
    ToolCalls,  \* calls of the agent under way at one time
    AgentNames  \* names of agents

VARIABLES
    link,        \* sockets: unused, connected, dead
    session,     \* the daemon's session of each socket: its name, or none
    connecting,  \* the attempt under way: its socket, how far it is, the name it was given
    linkInUse,   \* the socket calls go over
    heartbeat,   \* the socket the timer beats for
    adapterStopped,  \* no, closing, yes
    preferred,   \* preferredName
    toolCall,    \* each call: idle, waits for the connection, is sent over a socket, done, ...
    doubt        \* history: whether the name may have got lost: no, yes, or yes unless the one
                 \* change of name that is under way is answered
linkVars ==
    <<link, session, connecting, linkInUse, heartbeat, adapterStopped, preferred, toolCall, doubt>>

NoLink == "no link"
NoName == "no name"
ASSUME LinksAssumption == NoLink \notin Links /\ NoName \notin AgentNames

NotConnecting == [at |-> "no", over |-> NoLink, name |-> NoName]
NoToolCall == [at |-> "idle", name |-> NoName]

LinkInit ==
    /\ link = [l \in Links |-> "unused"]
    /\ session = [l \in Links |-> NoName]
    /\ connecting = NotConnecting
    /\ linkInUse = NoLink /\ heartbeat = NoLink
    /\ adapterStopped = "no"
    /\ preferred = NoName
    /\ toolCall = [c \in ToolCalls |-> NoToolCall]
    /\ doubt = "no"

Usable == linkInUse # NoLink /\ link[linkInUse] = "connected"

-----------------------------------------------------------------------------
(* Calls. *)

SentOver(l, want) == [at |-> "sent", over |-> l, name |-> want]

\* The changes of name that the daemon has got, or may have.
Renaming == {c \in ToolCalls : toolCall[c].at \notin {"idle", "waits"} /\ toolCall[c].name # NoName}

\* A call takes the connection, or waits for one.
Calling(c, want) ==
    /\ adapterStopped = "no" /\ toolCall[c] = NoToolCall
    /\ toolCall' = [toolCall EXCEPT ![c] =
          IF Usable THEN SentOver(linkInUse, want) ELSE [at |-> "waits", name |-> want]]
    /\ doubt' = IF want = NoName \/ ~Usable THEN doubt
                ELSE IF Renaming # {} THEN "yes"
                ELSE IF doubt = "no" THEN "no" ELSE "pending"
    /\ UNCHANGED <<link, session, connecting, linkInUse, heartbeat, adapterStopped, preferred>>

\* Mutation of MayConnect: each call that finds no connection makes one.
MayConnectAlways == ~Usable

\* The attempt that is under way is everybody's.
MayConnect == ~Usable /\ connecting = NotConnecting

\* Calls still wait when the adapter stops, and connect for nothing.
Connects(l) ==
    /\ MayConnect
    /\ \E c \in ToolCalls : toolCall[c].at = "waits"
    /\ link[l] = "unused"
    /\ connecting' = [at |-> "daemon", over |-> l, name |-> NoName]
    /\ UNCHANGED <<link, session, linkInUse, heartbeat, adapterStopped, preferred, toolCall, doubt>>

\* All that wait for the attempt.
AllWaiting(then) ==
    [c \in ToolCalls |-> IF toolCall[c].at = "waits" THEN then[c] ELSE toolCall[c]]

\* ensureDaemon and connectDaemon; each may fail.
Connected ==
    /\ connecting.at = "daemon"
    /\ link' = [link EXCEPT ![connecting.over] = "connected"]
    /\ connecting' = [connecting EXCEPT !.at = "opening"]
    /\ UNCHANGED <<session, linkInUse, heartbeat, adapterStopped, preferred, toolCall, doubt>>

\* The daemon opens a session, under the preferred name if there is one.
SessionOpens(name) ==
    /\ connecting.at = "opening" /\ link[connecting.over] = "connected"
    /\ preferred \in {name, NoName}
    /\ session' = [session EXCEPT ![connecting.over] = name]
    /\ connecting' = [connecting EXCEPT !.at = "opened", !.name = name]
    /\ UNCHANGED <<link, linkInUse, heartbeat, adapterStopped, preferred, toolCall, doubt>>

\* Mutation of TakesLink: whether the adapter was stopped meanwhile is not asked.
TakesLinkAnyway == connecting.at = "opened" /\ link[connecting.over] = "connected"

TakesLink == TakesLinkAnyway /\ adapterStopped = "no"

LinkTaken ==
    /\ TakesLink
    /\ preferred' = connecting.name
    /\ linkInUse' = connecting.over
    /\ heartbeat' = connecting.over
    /\ connecting' = NotConnecting
    /\ toolCall' =
          AllWaiting([c \in ToolCalls |-> SentOver(connecting.over, toolCall[c].name)])
    /\ doubt' = IF \E c, d \in ToolCalls :
                      c # d /\ toolCall[c].name # NoName /\ toolCall[d].name # NoName
                THEN "yes" ELSE "no"
    /\ UNCHANGED <<link, session, adapterStopped>>

\* The adapter was stopped: the session is closed again.
LinkGivenUp ==
    /\ connecting.at = "opened" /\ link[connecting.over] = "connected" /\ ~TakesLink
    /\ session' = [session EXCEPT ![connecting.over] = NoName]
    /\ connecting' = [connecting EXCEPT !.at = "failed"]
    /\ UNCHANGED <<link, linkInUse, heartbeat, adapterStopped, preferred, toolCall, doubt>>

\* The attempt fails: the daemon does not start, the socket is gone, or a call over it is
\* refused or not answered in time. The socket is closed, and whoever waited gets the error.
ConnectFails ==
    /\ connecting # NotConnecting
    /\ link' = [link EXCEPT ![connecting.over] = "dead"]
    /\ connecting' = NotConnecting
    /\ toolCall' = AllWaiting([c \in ToolCalls |-> NoToolCall])
    /\ UNCHANGED <<session, linkInUse, heartbeat, adapterStopped, preferred, doubt>>

-----------------------------------------------------------------------------
(* The daemon's answers, and the end of a socket. *)

CarriedOut(call) ==
    IF call.at = "late" THEN NoToolCall
    ELSE [call EXCEPT !.at = IF call.name = NoName THEN "answered" ELSE "done"]

\* The daemon does what the call asks for; a change of name shows in the session. What nobody
\* waits for any more is done all the same.
CallDone(c) ==
    /\ toolCall[c].at \in {"sent", "late"} /\ link[toolCall[c].over] = "connected"
    /\ session[toolCall[c].over] # NoName
    /\ session' = IF toolCall[c].name = NoName THEN session
                  ELSE [session EXCEPT ![toolCall[c].over] = toolCall[c].name]
    /\ toolCall' = [toolCall EXCEPT ![c] = CarriedOut(toolCall[c])]
    /\ UNCHANGED <<link, connecting, linkInUse, heartbeat, adapterStopped, preferred, doubt>>

\* The daemon answers a change of name with what the agent is called by then.
CallAnswered(c) ==
    /\ toolCall[c].at = "done" /\ link[toolCall[c].over] = "connected"
    /\ session[toolCall[c].over] # NoName
    /\ toolCall' = [toolCall EXCEPT ![c].at = "answered", ![c].name = session[toolCall[c].over]]
    /\ UNCHANGED <<link, session, connecting, linkInUse, heartbeat, adapterStopped, preferred,
                   doubt>>

\* The daemon refuses the call.
Refused(c) ==
    /\ toolCall[c].at \in {"sent", "late"} /\ link[toolCall[c].over] = "connected"
    /\ toolCall' = [toolCall EXCEPT ![c] = NoToolCall]
    /\ doubt' = IF doubt = "pending" /\ toolCall[c].name # NoName THEN "yes" ELSE doubt
    /\ UNCHANGED <<link, session, connecting, linkInUse, heartbeat, adapterStopped, preferred>>

\* Mutation of NewName: the adapter keeps the name it was started with.
NewNameNever(c) == preferred

NewName(c) == IF toolCall[c].name = NoName THEN preferred ELSE toolCall[c].name

Replied(c) ==
    /\ toolCall[c].at = "answered" /\ link[toolCall[c].over] = "connected"
    /\ preferred' = NewName(c)
    /\ toolCall' = [toolCall EXCEPT ![c] = NoToolCall]
    /\ doubt' = IF doubt = "pending" /\ toolCall[c].name # NoName THEN "no" ELSE doubt
    /\ UNCHANGED <<link, session, connecting, linkInUse, heartbeat, adapterStopped>>

\* The response deadline of the call elapses, or an error comes for what was done. The caller
\* is told that the outcome is unknown; the socket stays, and so does what the daemon is at.
NoAnswer(c) ==
    /\ toolCall[c].at \in {"sent", "done", "answered"} /\ link[toolCall[c].over] = "connected"
    /\ toolCall' = [toolCall EXCEPT ![c] =
          IF toolCall[c].at = "sent" /\ toolCall[c].name # NoName
          THEN [toolCall[c] EXCEPT !.at = "late"] ELSE NoToolCall]
    /\ doubt' = IF toolCall[c].name = NoName THEN doubt ELSE "yes"
    /\ UNCHANGED <<link, session, connecting, linkInUse, heartbeat, adapterStopped, preferred>>

\* The calls on a socket fail with it; none is tried again.
Without(l) ==
    [c \in ToolCalls |->
        IF toolCall[c].at \notin {"idle", "waits"} /\ toolCall[c].over = l THEN NoToolCall
        ELSE toolCall[c]]

\* The socket is gone. The heartbeat learns of it with its next call, when it stops.
SocketEnds(l) ==
    /\ link[l] = "connected"
    /\ link' = [link EXCEPT ![l] = "dead"]
    /\ toolCall' = Without(l)
    /\ UNCHANGED <<session, connecting, linkInUse, heartbeat, adapterStopped, preferred, doubt>>

\* A heartbeat fails, over a dead socket or a live one: the timer ends and so does the socket.
HeartbeatFails ==
    /\ heartbeat # NoLink
    /\ heartbeat' = NoLink
    /\ link' = [link EXCEPT ![heartbeat] = "dead"]
    /\ toolCall' = Without(heartbeat)
    /\ UNCHANGED <<session, connecting, linkInUse, adapterStopped, preferred, doubt>>

\* The daemon closes a session: it has noticed the end of the socket, or missed heartbeats.
DaemonNotices(l) ==
    /\ session[l] # NoName
    /\ session' = [session EXCEPT ![l] = NoName]
    /\ UNCHANGED <<link, connecting, linkInUse, heartbeat, adapterStopped, preferred, toolCall,
                   doubt>>

-----------------------------------------------------------------------------
(* The end of the adapter. *)

StopAdapter ==
    /\ adapterStopped = "no"
    /\ adapterStopped' = IF Usable THEN "closing" ELSE "yes"
    /\ heartbeat' = NoLink
    /\ UNCHANGED <<link, session, connecting, linkInUse, preferred, toolCall, doubt>>

\* closeSession is answered, or fails; then the socket is closed.
CloseAdapter(answered) ==
    /\ adapterStopped = "closing"
    /\ adapterStopped' = "yes"
    /\ session' = IF answered /\ Usable THEN [session EXCEPT ![linkInUse] = NoName] ELSE session
    /\ link' = [link EXCEPT ![linkInUse] = "dead"]
    /\ toolCall' = Without(linkInUse)
    /\ UNCHANGED <<connecting, linkInUse, heartbeat, preferred, doubt>>

LinkNext ==
    \/ \E c \in ToolCalls :
          \/ \E want \in AgentNames \cup {NoName} : Calling(c, want)
          \/ CallDone(c) \/ CallAnswered(c) \/ Refused(c) \/ Replied(c) \/ NoAnswer(c)
    \/ \E l \in Links : Connects(l) \/ SocketEnds(l) \/ DaemonNotices(l)
    \/ \E name \in AgentNames : SessionOpens(name)
    \/ Connected \/ LinkTaken \/ LinkGivenUp \/ ConnectFails \/ HeartbeatFails \/ StopAdapter
    \/ \E answered \in BOOLEAN : CloseAdapter(answered)

LinkSpec == LinkInit /\ [][LinkNext]_linkVars

-----------------------------------------------------------------------------
(* Properties. *)

\* The adapter has one session at a time, as far as sockets tell; the one its calls use is
\* kept alive; and after it was stopped none is left, once attempts are over and the daemon has
\* noticed what became of the sockets.
OneLiveSession ==
    /\ \A l, k \in Links :
          link[l] = "connected" /\ link[k] = "connected" => l = k
    /\ Usable /\ adapterStopped = "no" => heartbeat = linkInUse
    /\ adapterStopped = "yes" /\ connecting = NotConnecting =>
          \A l \in Links : session[l] # NoName => link[l] = "dead"

\* A session that is made anew has the name of the one before, and the adapter knows its name
\* while no change of name is under way: unless it got no answer to one, or overlapped two; and
\* then it knows it again with the next that is answered, or with the next connection.
NameIsKnown ==
    Usable /\ Renaming = {} /\ doubt = "no" => session[linkInUse] \in {preferred, NoName}

LinkIsSound == OneLiveSession /\ NameIsKnown

\* Does not hold: the adapter knows its name when no change of name is under way. The answer to
\* one may come after its deadline, when nobody asks for it any more, and the socket lives on.
NameStaysKnown == Usable /\ Renaming = {} => session[linkInUse] \in {preferred, NoName}

\* Does not hold: a change of name outlives the connection. If the answer is lost, the adapter
\* comes back under the name before.
NamesStay ==
    [][\A l \in Links :
          session'[l] # session[l] /\ session[l] = NoName /\ preferred # NoName =>
              \A k \in Links : session[k] # NoName => session[k] = preferred]_linkVars
=============================================================================
