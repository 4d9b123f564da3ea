----------------------------- MODULE HostSessions -----------------------------
(***************************************************************************)
(* The daemon's side of one adapter connection of a native host            *)
(* (openSession to closeNativeHostSession in src/src/daemon.ts): host      *)
(* sessions, for each of which the service has an instance whose handle    *)
(* the connection keeps. Requests of a connection are not in each other's  *)
(* way: while one awaits the service, others go on, and the connection may *)
(* end. The host's hooks reach it by connections of their own.             *)
(*                                                                         *)
(* What an instance holds is in Turns; here it is live or not.             *)
(***************************************************************************)
EXTENDS Naturals

CONSTANTS
    HostIds,    \* host sessions
    Handles,    \* of instances, each of which is opened once
    Works,      \* requests at a time
    MaxWorks    \* bound on requests

ASSUME HostsAssumption == "none" \notin HostIds /\ "no handle" \notin Handles

VARIABLES
    linked,    \* the connection: open, closing, closed
    kept,      \* its handles, by host session
    bound,     \* defaultHostSessionId
    idle,      \* idleHostSessions
    leaving,   \* handles the end of the connection has still to disconnect
    instance,  \* at the service: the host session of each, and whether it is live
    request,   \* the requests under way
    begun      \* how many there have been

hostVars == <<linked, kept, bound, idle, leaving, instance, request, begun>>

NoId == "none"
NoHandle == "no handle"
NoWork == [at |-> "none"]

HostInit ==
    /\ linked = "open"
    /\ kept = [s \in HostIds |-> NoHandle]
    /\ bound = NoId /\ idle = {} /\ leaving = {}
    /\ instance = [h \in Handles |-> [of |-> NoId, live |-> FALSE]]
    /\ request = [w \in Works |-> NoWork] /\ begun = 0

Left(h) == [instance EXCEPT ![h].live = FALSE]

\* Where a request goes on: ensureHostHandle beats for the handle that is kept, or opens one.
EnsuringFrom(handles, r) ==
    IF handles[r.of] # NoHandle THEN [r EXCEPT !.at = "beating", !.handle = handles[r.of]]
    ELSE [r EXCEPT !.at = "opening", !.handle = NoHandle]
Ensuring(r) == EnsuringFrom(kept, r)
\* closeHandle of a session that has no handle does nothing.
Closing(r, s) == [r EXCEPT !.at = "closing", !.old = s, !.handle = kept[s]]

-----------------------------------------------------------------------------
(* Requests. *)

\* History: a request has met another one that is under way for its session.
Under(s) == {w \in Works : request[w] # NoWork /\ s \in {request[w].of, request[w].old}}

\* callTool and its like, for the host session that is named or bound; bindHostSession, and
\* takeHostDelivery at an idle or an active moment, which close what was bound before;
\* waitNativeDelivery, for a session that is idle; closeNativeHostSession.
Begin(w, kind, s) ==
    /\ request[w] = NoWork /\ linked = "open" /\ begun < MaxWorks
    /\ begun' = begun + 1
    /\ kind = "wake" => s \in idle
    /\ kind = "close" => kept[s] # NoHandle
    /\ LET unbinds == kind \in {"bind", "idle", "active"} /\ bound \notin {NoId, s}
           r == [at |-> "new", kind |-> kind, of |-> s, old |-> s, handle |-> NoHandle,
                 met |-> FALSE, again |-> unbinds /\ kind # "bind"]
           new == IF kind = "close" THEN Closing(r, s)
                  ELSE IF unbinds /\ kept[bound] # NoHandle THEN Closing(r, bound)
                  ELSE Ensuring(r)
           met == Under(new.of) \cup Under(new.old)
       IN  request' = [v \in Works |->
              IF v = w THEN [new EXCEPT !.met = met # {}]
              ELSE IF v \in met THEN [request[v] EXCEPT !.met = TRUE] ELSE request[v]]
    /\ UNCHANGED <<linked, kept, bound, idle, leaving, instance>>

\* The service's transactions: disconnect, heartbeat, open.
Disconnects(w) ==
    /\ request[w].at = "closing"
    /\ instance' = Left(request[w].handle)
    /\ request' = [request EXCEPT ![w].at = "closed"]
    /\ UNCHANGED <<linked, kept, bound, idle, leaving, begun>>
Beats(w) ==
    /\ request[w].at = "beating"
    /\ request' = [request EXCEPT ![w].at =
          IF instance[request[w].handle].live THEN "alive" ELSE "expired"]
    /\ UNCHANGED <<linked, kept, bound, idle, leaving, instance, begun>>
Opens(w, h) ==
    /\ request[w].at = "opening" /\ instance[h].of = NoId
    /\ instance' = [instance EXCEPT ![h] = [of |-> request[w].of, live |-> TRUE]]
    /\ request' = [request EXCEPT ![w].at = "opened", ![w].handle = h]
    /\ UNCHANGED <<linked, kept, bound, idle, leaving, begun>>
\* The sweep, after a silence.
Expires(h) ==
    /\ instance[h].live
    /\ instance' = Left(h)
    /\ UNCHANGED <<linked, kept, bound, idle, leaving, request, begun>>

\* closeHandle forgets the session, whatever handle it has by now.
Forgets(w) ==
    /\ request[w].at = "closed"
    /\ LET r == request[w]  s == r.old  now == [kept EXCEPT ![s] = NoHandle] IN
          /\ kept' = now
          /\ idle' = idle \ {s}
          /\ bound' = IF bound = s THEN NoId ELSE bound
          /\ request' = [request EXCEPT ![w] =
                IF r.kind = "close" THEN NoWork ELSE EnsuringFrom(now, r)]
    /\ UNCHANGED <<linked, leaving, instance, begun>>
\* SESSION_EXPIRED: ensureHostHandle opens another.
Reopens(w) ==
    /\ request[w].at = "expired"
    /\ kept' = [kept EXCEPT ![request[w].of] = NoHandle]
    /\ request' = [request EXCEPT ![w].at = "opening", ![w].handle = NoHandle]
    /\ UNCHANGED <<linked, bound, idle, leaving, instance, begun>>

\* Mutation of KeptFor: under the session that is bound by now.
KeptForBound(r) == [kept EXCEPT ![IF bound = NoId THEN r.of ELSE bound] = r.handle]

KeptFor(r) == [kept EXCEPT ![r.of] = r.handle]

\* A new handle is kept; with it, or the old one, the request goes on. A delivery that had to
\* bind first asks for the handle once more.
Proceeds(w) ==
    /\ request[w].at \in {"opened", "alive"}
    /\ LET r == request[w]  binds == r.kind \in {"bind", "idle", "active"}
           now == IF r.at = "opened" THEN KeptFor(r) ELSE kept
       IN  /\ kept' = now
           /\ bound' = IF binds THEN r.of ELSE bound
           /\ idle' = IF r.kind = "idle" /\ ~r.again THEN idle \cup {r.of}
                      ELSE IF r.kind \in {"active", "wake"} /\ ~r.again THEN idle \ {r.of} ELSE idle
           /\ request' = [request EXCEPT ![w] =
                 IF r.again THEN EnsuringFrom(now, [r EXCEPT !.again = FALSE]) ELSE NoWork]
    /\ UNCHANGED <<linked, leaving, instance, begun>>

-----------------------------------------------------------------------------
(* The end of the connection: closeSession, or its socket's. *)

KeptHandles == {kept[s] : s \in HostIds} \ {NoHandle}

\* Mutation of EndBegins: only the bound session is closed.
EndBeginsBound ==
    /\ linked = "open"
    /\ linked' = "closing"
    /\ leaving' = IF bound = NoId THEN {} ELSE {kept[bound]} \ {NoHandle}
    /\ UNCHANGED <<kept, bound, idle, instance, request, begun>>

\* closeAdapter.
EndBegins ==
    /\ linked = "open"
    /\ linked' = "closing" /\ leaving' = KeptHandles
    /\ UNCHANGED <<kept, bound, idle, instance, request, begun>>
EndDisconnects(h) ==
    /\ h \in leaving
    /\ leaving' = leaving \ {h}
    /\ instance' = Left(h)
    /\ UNCHANGED <<linked, kept, bound, idle, request, begun>>
EndIsThrough ==
    /\ linked = "closing" /\ leaving = {}
    /\ linked' = "closed"
    /\ kept' = [s \in HostIds |-> NoHandle]
    /\ bound' = NoId /\ idle' = {}
    /\ UNCHANGED <<leaving, instance, request, begun>>

HostNext ==
    \/ \E w \in Works :
          \/ \E s \in HostIds :
                \E kind \in {"bind", "idle", "active", "call", "wake", "close"} : Begin(w, kind, s)
          \/ \E h \in Handles : Opens(w, h)
          \/ Disconnects(w) \/ Beats(w) \/ Forgets(w) \/ Reopens(w) \/ Proceeds(w)
    \/ \E h \in Handles : Expires(h) \/ EndDisconnects(h)
    \/ EndBegins \/ EndIsThrough

HostSpec == HostInit /\ [][HostNext]_hostVars

-----------------------------------------------------------------------------
(* Properties. *)

\* Each handle is kept for its session, and each request runs as an instance of the host
\* session it was for when it came, though bindings, ends and expiries come between its steps.
HandlesAreOfTheirSessions == \A s \in HostIds : kept[s] # NoHandle => instance[kept[s]].of = s
RequestsRunAsTheirSessions ==
    \A w \in Works :
        request[w].at \in {"opened", "alive"} => instance[request[w].handle].of = request[w].of

\* A live instance that nobody keeps and no request holds will not be closed: only the sweep
\* ends it, when it has been silent for long.
Abandoned(h) ==
    /\ instance[h].live /\ h \notin leaving
    /\ linked = "open" => h \notin KeptHandles
    /\ \A w \in Works : request[w].at \in {"opened", "closing"} => request[w].handle # h

\* That comes of requests for one session that overlap, or of one that overlaps the end of
\* the connection, and of nothing else.
Overlap(s) == \E w \in Under(s) : request[w].met \/ linked # "open"
AbandonedByOverlap ==
    [][\A h \in Handles : Abandoned(h)' /\ ~Abandoned(h) => Overlap(instance'[h].of)]_hostVars
SessionsAreKept ==
    [](HandlesAreOfTheirSessions /\ RequestsRunAsTheirSessions) /\ AbandonedByOverlap

\* Does not hold: no instance is ever abandoned. Two calls open one each for a session that has
\* none, or a handle is kept when the connection has ended.
NoneIsAbandoned == \A h \in Handles : ~Abandoned(h)
=============================================================================
