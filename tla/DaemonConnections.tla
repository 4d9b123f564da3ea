-------------------------- MODULE DaemonConnections ---------------------------
(***************************************************************************)
(* Who is at the other end of a connection to the daemon                   *)
(* (src/src/daemon.ts): an observer, which only reads, or an adapter,      *)
(* which has one session at the service. The requests of a connection run  *)
(* side by side, and each may be cancelled. When the connection ends all   *)
(* of its requests are, and what it had is given up once they are through  *)
(* (src/src/ipc.ts). The adapters are those without a host plugin, which   *)
(* have one instance at the service; of the others HostSessions tells.     *)
(***************************************************************************)
EXTENDS Naturals

CONSTANTS
    Sockets,     \* connections, each of which is made once
    Serves,      \* requests at a time
    Presences,   \* instances at the service, each of which is opened once
    MaxServed    \* bound on requests

ASSUME PresencesAssumption == "none" \notin Presences

VARIABLES
    ends,        \* of a connection: open, ended, cleaning up, gone
    halting,     \* `closing`: the daemon stops
    viewers,     \* observerSockets
    observers,   \* observers
    opening,     \* connections on which an openObserver or an openSession is under way
    adapters,    \* sessions: the instance of each connection
    asked,       \* the requests under way
    present,     \* the instances of the service
    unclosed,    \* instances whose disconnect failed, which are left to the sweep
    served       \* how many requests there have been

connectionVars ==
    <<ends, halting, viewers, observers, opening, adapters, asked, present, unclosed, served>>

NoPresence == "none"
NotServing == [at |-> "none"]

ConnectionsInit ==
    /\ ends = [s \in Sockets |-> "open"] /\ halting = FALSE
    /\ viewers = {} /\ observers = {} /\ opening = {}
    /\ adapters = [s \in Sockets |-> NoPresence]
    /\ asked = [q \in Serves |-> NotServing]
    /\ present = {} /\ unclosed = {} /\ served = 0

IsAsked(q) == asked[q] # NotServing
Through(q) == asked' = [asked EXCEPT ![q] = NotServing]
Reaches(q, at) == asked' = [asked EXCEPT ![q].at = at]

-----------------------------------------------------------------------------
(* Requests. One that is refused changes nothing. *)

\* The checks before any request.
Admitted(s, kind) ==
    /\ ends[s] = "open" /\ ~halting
    /\ s \in viewers => kind \in {"look", "leave"}

Ask(q, s, kind, at, presence) ==
    /\ ~IsAsked(q) /\ served < MaxServed /\ Admitted(s, kind)
    /\ served' = served + 1
    /\ asked' = [asked EXCEPT ![q] =
          [at |-> at, of |-> s, kind |-> kind, presence |-> presence, cancelled |-> FALSE]]

\* Mutation of Free: the second of two that open at once is not turned away.
FreeOfSessions(s) == adapters[s] = NoPresence

Free(s) == adapters[s] = NoPresence /\ s \notin opening

\* openObserver, up to the lookup of the repository.
OpensObserver(q, s) ==
    /\ Free(s) /\ Ask(q, s, "view", "resolving", NoPresence)
    /\ viewers' = viewers \cup {s} /\ opening' = opening \cup {s}
    /\ UNCHANGED <<ends, halting, observers, adapters, present, unclosed>>
\* readObservation, waitObservation.
Observes(q, s) ==
    /\ s \in observers /\ Ask(q, s, "look", "reading", NoPresence)
    /\ UNCHANGED <<ends, halting, viewers, observers, opening, adapters, present, unclosed>>
\* closeObserver.
ClosesObserver(s) ==
    /\ Admitted(s, "leave") /\ s \in observers
    /\ observers' = observers \ {s}
    /\ UNCHANGED <<ends, halting, viewers, opening, adapters, asked, present, unclosed, served>>

\* openSession, up to the lookup of the repository.
OpensSession(q, s) ==
    /\ Free(s) /\ Ask(q, s, "open", "resolving", NoPresence)
    /\ opening' = opening \cup {s}
    /\ UNCHANGED <<ends, halting, viewers, observers, adapters, present, unclosed>>
\* callTool and the others that need a session: whose it is is looked up at once.
UsesSession(q, s) ==
    /\ adapters[s] # NoPresence /\ Ask(q, s, "use", "using", adapters[s])
    /\ UNCHANGED <<ends, halting, viewers, observers, opening, adapters, present, unclosed>>
\* closeSession: clients ask for it once at a time.
ClosesSession(q, s) ==
    /\ adapters[s] # NoPresence /\ Ask(q, s, "shut", "shutting", adapters[s])
    /\ \A p \in Serves : IsAsked(p) /\ asked[p].of = s => asked[p].kind # "shut"
    /\ UNCHANGED <<ends, halting, viewers, observers, opening, adapters, present, unclosed>>

\* The repository is known.
Resolves(q) ==
    /\ asked[q].at = "resolving"
    /\ LET r == asked[q] IN
          IF r.kind = "open" /\ ~r.cancelled
          THEN Reaches(q, "opening") /\ UNCHANGED <<observers, opening>>
          ELSE /\ Through(q) /\ opening' = opening \ {r.of}
               /\ observers' = IF r.cancelled THEN observers ELSE observers \cup {r.of}
    /\ UNCHANGED <<ends, halting, viewers, adapters, present, unclosed, served>>
\* service.open.
OpensInstance(q, i) ==
    /\ asked[q].at = "opening" /\ i \notin present \cup unclosed
    /\ \A p \in Serves : IsAsked(p) => asked[p].presence # i
    /\ \A s \in Sockets : adapters[s] # i
    /\ present' = present \cup {i}
    /\ asked' = [asked EXCEPT ![q].at = "opened", ![q].presence = i]
    /\ UNCHANGED <<ends, halting, viewers, observers, opening, adapters, unclosed, served>>
\* Who has left meanwhile has no session: it is closed again.
Keeps(q) ==
    /\ asked[q].at = "opened"
    /\ LET r == asked[q] IN
          IF r.cancelled THEN Reaches(q, "undoing") /\ UNCHANGED <<opening, adapters>>
          ELSE /\ adapters' = [adapters EXCEPT ![r.of] = r.presence]
               /\ opening' = opening \ {r.of} /\ Through(q)
    /\ UNCHANGED <<ends, halting, viewers, observers, present, unclosed, served>>
\* closeAdapter, in a transaction that may fail.
ClosesAdapter(q, fails) ==
    /\ asked[q].at \in {"undoing", "shutting"}
    /\ LET r == asked[q] IN
          /\ present' = IF fails THEN present ELSE present \ {r.presence}
          /\ unclosed' = unclosed \cup (IF fails THEN {r.presence} \cap present ELSE {})
          /\ opening' = IF r.at = "undoing" THEN opening \ {r.of} ELSE opening
          /\ IF fails \/ r.at = "undoing" THEN Through(q) ELSE Reaches(q, "shut")
    /\ UNCHANGED <<ends, halting, viewers, observers, adapters, served>>
ForgetsSession(q) ==
    /\ asked[q].at = "shut" /\ Through(q)
    /\ adapters' = [adapters EXCEPT ![asked[q].of] = NoPresence]
    /\ UNCHANGED <<ends, halting, viewers, observers, opening, present, unclosed, served>>
\* The answer of a read or of a use, or an error of the lookup or of the service.
EndsRequest(q) ==
    /\ asked[q].at \in {"reading", "using", "resolving", "opening"} /\ Through(q)
    /\ opening' = IF asked[q].kind \in {"view", "open"} THEN opening \ {asked[q].of}
                  ELSE opening
    /\ UNCHANGED <<ends, halting, viewers, observers, adapters, present, unclosed, served>>

-----------------------------------------------------------------------------
(* Connections. *)

Withdraws(q) ==
    /\ IsAsked(q) /\ ~asked[q].cancelled
    /\ asked' = [asked EXCEPT ![q].cancelled = TRUE]
    /\ UNCHANGED <<ends, halting, viewers, observers, opening, adapters, present, unclosed, served>>
\* The socket closes; stop() closes all of them.
Leaves(s) ==
    /\ ends[s] = "open"
    /\ ends' = [ends EXCEPT ![s] = "ended"]
    /\ asked' = [q \in Serves |->
          IF IsAsked(q) /\ asked[q].of = s THEN [asked[q] EXCEPT !.cancelled = TRUE]
          ELSE asked[q]]
    /\ UNCHANGED <<halting, viewers, observers, opening, adapters, present, unclosed, served>>

\* The handler of the end waits for the connection's requests.
AllAnswered(s) == \A q \in Serves : IsAsked(q) => asked[q].of # s
CleansUp(s) ==
    /\ ends[s] = "ended" /\ AllAnswered(s)
    /\ observers' = observers \ {s}
    /\ ends' = [ends EXCEPT ![s] = IF adapters[s] = NoPresence THEN "gone" ELSE "cleaning"]
    /\ UNCHANGED <<halting, viewers, opening, adapters, asked, present, unclosed, served>>
\* If the disconnect fails the session is not taken off the map either.
CleanedUp(s, fails) ==
    /\ ends[s] = "cleaning"
    /\ ends' = [ends EXCEPT ![s] = "gone"]
    /\ present' = IF fails THEN present ELSE present \ {adapters[s]}
    /\ unclosed' = unclosed \cup (IF fails THEN {adapters[s]} \cap present ELSE {})
    /\ adapters' = IF fails THEN adapters ELSE [adapters EXCEPT ![s] = NoPresence]
    /\ UNCHANGED <<halting, viewers, observers, opening, asked, served>>
\* The sweep, after a silence.
Falls(i) ==
    /\ i \in present
    /\ present' = present \ {i} /\ unclosed' = unclosed \ {i}
    /\ UNCHANGED <<ends, halting, viewers, observers, opening, adapters, asked, served>>
Stops ==
    /\ ~halting /\ halting' = TRUE
    /\ UNCHANGED <<ends, viewers, observers, opening, adapters, asked, present, unclosed, served>>

ConnectionsNext ==
    \/ \E q \in Serves, s \in Sockets :
          \/ OpensObserver(q, s) \/ Observes(q, s) \/ OpensSession(q, s)
          \/ UsesSession(q, s) \/ ClosesSession(q, s)
    \/ \E q \in Serves :
          \/ Resolves(q) \/ Keeps(q) \/ ForgetsSession(q) \/ EndsRequest(q) \/ Withdraws(q)
          \/ \E i \in Presences : OpensInstance(q, i)
          \/ \E fails \in BOOLEAN : ClosesAdapter(q, fails)
    \/ \E s \in Sockets :
          \/ ClosesObserver(s) \/ Leaves(s) \/ CleansUp(s)
          \/ \E fails \in BOOLEAN : CleanedUp(s, fails)
    \/ \E i \in Presences : Falls(i)
    \/ Stops

ConnectionsSpec == ConnectionsInit /\ [][ConnectionsNext]_connectionVars

-----------------------------------------------------------------------------
(* Properties. *)

\* An observer only reads: it has no session, and no request that opens, uses or closes one. A
\* use may outlast the session that was closed before the connection became an observer.
ObserversOnlyRead ==
    \A s \in viewers :
        /\ adapters[s] = NoPresence
        /\ \A q \in Serves :
              IsAsked(q) /\ asked[q].of = s =>
                  asked[q].kind \in {"view", "look"} \/ asked[q].presence \notin present

\* An instance that is present is some connection's, which has not gone, or will be in a moment;
\* or its disconnect has failed.
IsTended(i) ==
    \/ \E s \in Sockets : adapters[s] = i /\ ends[s] # "gone"
    \/ \E q \in Serves : /\ IsAsked(q) /\ asked[q].presence = i
                         /\ asked[q].at \in {"opened", "undoing"}
    \/ i \in unclosed
NoneIsForgotten == \A i \in present : IsTended(i)

\* Who has gone leaves nothing, but a session whose disconnect failed.
NothingIsLeft ==
    \A s \in Sockets :
        ends[s] = "gone" =>
            /\ AllAnswered(s) /\ s \notin observers \cup opening
            /\ adapters[s] \in present => adapters[s] \in unclosed

ConnectionsAreClean == ObserversOnlyRead /\ NoneIsForgotten /\ NothingIsLeft
=============================================================================
