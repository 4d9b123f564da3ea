-------------------------------- MODULE Sonar ---------------------------------
(***************************************************************************)
(* The live monitor (src/src/sonar/client.ts, and what app.tsx does with   *)
(* a conversation). A loop connects, waits for news and reads a snapshot;  *)
(* a filter that is chosen meanwhile reads one of its own. Answers of one  *)
(* connection come in any order. The screen asks for the conversation it   *)
(* selects, and for older pages of it. One key press is one step; what is  *)
(* drawn is left out, the daemon's side is in ActivityLog.                 *)
(***************************************************************************)
EXTENDS Naturals, FiniteSets

CONSTANTS
    Filters,
    Conversations,
    MaxNews,       \* bound on what happens in the project
    MaxEpochs,     \* bound on runs of the daemon
    MaxRefreshes,  \* bound on snapshots asked for
    MaxDetails     \* bound on conversations asked for

ASSUME SonarAssumption == Filters # {} /\ Conversations # {}

VARIABLES
    observed,   \* the daemon: whether it is up, its epoch, and the number of the last event
    sonar,      \* the client: its loop, connection, filter and state
    refreshes,  \* snapshots asked for
    screen,     \* what is selected and shown of conversations
    details     \* conversations asked for

MaxGenerations == 2 * MaxEpochs  \* bound on connections and their ends

sonarVars == <<observed, sonar, refreshes, screen, details>>

NoSnapshot == [epoch |-> 0, cursor |-> 0, filter |-> "none"]
NoDetail == [of |-> "none", cursor |-> 0, older |-> FALSE]

SonarInit ==
    /\ observed = [up |-> TRUE, epoch |-> 1, cursor |-> 0]
    /\ sonar = [loop |-> "connecting", connected |-> FALSE, generation |-> 0,
                refreshId |-> 0, filter |-> CHOOSE f \in Filters : TRUE,
                phase |-> "connecting", snapshot |-> NoSnapshot, gap |-> FALSE,
                waited |-> 0]   \* the cursor of the wait
    /\ refreshes = {}
    /\ screen = [selected |-> CHOOSE c \in Conversations : TRUE, atEnd |-> TRUE,
                 detail |-> NoDetail, error |-> FALSE, asked |-> 0]
    /\ details = {}

-----------------------------------------------------------------------------
(* The daemon. *)

NewsHappens ==
    /\ observed.up /\ observed.cursor < MaxNews
    /\ observed' = [observed EXCEPT !.cursor = @ + 1]
    /\ UNCHANGED <<sonar, refreshes, screen, details>>

\* Its epoch is new whenever it starts, its events are kept.
DaemonRestarts ==
    /\ IF observed.up THEN observed' = [observed EXCEPT !.up = FALSE]
       ELSE observed.epoch < MaxEpochs /\ observed' = [observed EXCEPT !.up = TRUE, !.epoch = @ + 1]
    /\ UNCHANGED <<sonar, refreshes, screen, details>>

-----------------------------------------------------------------------------
(* read(): an answer of a connection that is not the client's any more is an error, which  *)
(* is the same as no answer. The generation changes when the connection does.              *)

Current(r) == sonar.connected /\ r.generation = sonar.generation

\* Whose answer is out is of no use: forgotten here.
Kept(generation) == refreshes' = {r \in refreshes : r.generation = generation}
                 /\ details' = {d \in details : d.generation = generation}

\* refresh(): asks for a snapshot, unless there is no connection; one asked for before is dated.
Refreshing(s, by) ==
    /\ s.refreshId < MaxRefreshes
    /\ sonar' = [s EXCEPT !.refreshId = @ + 1]
    /\ refreshes' = IF ~s.connected THEN refreshes
                    ELSE refreshes \cup {[id |-> s.refreshId + 1, generation |-> s.generation,
                                          by |-> by, filter |-> s.filter, taken |-> NoSnapshot]}

\* The daemon reads the snapshot in one transaction; the rest of the answer takes its time.
Capture(r) ==
    /\ observed.up /\ Current(r) /\ r.taken = NoSnapshot
    /\ refreshes' = (refreshes \ {r}) \cup
           {[r EXCEPT !.taken = [epoch |-> observed.epoch, cursor |-> observed.cursor,
                                 filter |-> r.filter]]}
    /\ UNCHANGED <<observed, sonar, screen, details>>

\* Mutation of Dated: whatever arrives is shown.
DatedNever(r) == FALSE
Dated(r) == r.id # sonar.refreshId

\* Mutation of Showing: the gap is of the last news only.
ShowingAfresh(s, taken) == [s EXCEPT !.phase = "live", !.snapshot = taken, !.gap = FALSE]
Showing(s, taken) ==
    [s EXCEPT !.phase = "live", !.snapshot = taken,
              !.gap = \/ @
                      \/ s.snapshot # NoSnapshot /\ s.snapshot.epoch # taken.epoch]

\* useEffect of the conversation: when what is shown, selected or followed changes, what was
\* asked for is not waited for any more, and the selected conversation is asked for again.
Looks(s, connected, generation, shown, more) ==
    LET follows == shown # NoSnapshot /\ s.atEnd
        left == {[d EXCEPT !.cancelled = @ \/ ~d.older] : d \in more}
    IN  IF follows /\ connected
        THEN /\ s.asked < MaxDetails
             /\ screen' = [s EXCEPT !.asked = @ + 1]
             /\ details' = left \cup {[id |-> s.asked + 1, generation |-> generation,
                                       of |-> s.selected, cursor |-> shown.cursor,
                                       older |-> FALSE, cancelled |-> FALSE]}
        ELSE screen' = s /\ details' = left

SnapshotArrives(r) ==
    /\ Current(r) /\ r.taken # NoSnapshot
    /\ refreshes' = refreshes \ {r}
    /\ LET next == [sonar EXCEPT !.loop = IF r.by = "loop" THEN "waits" ELSE @]
       IN  IF Dated(r)
           THEN sonar' = next /\ UNCHANGED <<screen, details>>
           ELSE /\ sonar' = Showing(next, r.taken)
                /\ Looks(screen, TRUE, sonar.generation, r.taken, details)
    /\ UNCHANGED observed

\* The read of a chosen filter fails: the screen says so.
SnapshotFails(r) ==
    /\ Current(r) /\ r.by = "key"
    /\ refreshes' = refreshes \ {r}
    /\ UNCHANGED <<observed, sonar, screen, details>>

-----------------------------------------------------------------------------
(* run(). *)

Connect ==
    /\ sonar.loop = "connecting" /\ observed.up
    /\ sonar' = [sonar EXCEPT !.loop = "opening", !.connected = TRUE, !.generation = @ + 1]
    /\ UNCHANGED <<observed, refreshes, screen, details>>

\* The observer is open; or its news were waited for, and a while longer.
Refresh ==
    /\ sonar.loop \in {"opening", "told"} /\ observed.up
    /\ Refreshing([sonar EXCEPT !.loop = "reads"], "loop")
    /\ UNCHANGED <<observed, screen, details>>

WaitForNews ==
    /\ sonar.loop = "waits"
    /\ sonar' = [sonar EXCEPT !.loop = "asleep", !.waited = sonar.snapshot.cursor]
    /\ UNCHANGED <<observed, refreshes, screen, details>>

\* News, or none for 20 s. Events past the cursor may have been pruned.
WaitReturns(pruned) ==
    /\ sonar.loop = "asleep" /\ observed.up
    /\ pruned => observed.cursor > sonar.waited
    /\ sonar' = [sonar EXCEPT !.loop = "told", !.gap = @ \/ pruned]
    /\ UNCHANGED <<observed, refreshes, screen, details>>

\* Anything fails. What is shown stays, and is said not to be live.
ConnectionFails ==
    /\ sonar.loop \notin {"backoff", "ends"}
    /\ sonar' = [sonar EXCEPT !.loop = "backoff", !.connected = FALSE,
                              !.generation = @ + 1,
                              !.phase = IF sonar.snapshot # NoSnapshot THEN "reconnecting"
                                        ELSE "waiting"]
    /\ Kept(sonar.generation + 1)
    /\ UNCHANGED <<observed, screen>>

\* The daemon does not support Sonar, or the workspace is no repository.
GivesUpForGood ==
    /\ sonar.loop \in {"opening", "reads", "asleep"}
    /\ sonar' = [sonar EXCEPT !.loop = "ends", !.connected = FALSE, !.generation = @ + 1,
                              !.phase = "error"]
    /\ Kept(sonar.generation + 1)
    /\ UNCHANGED <<observed, screen>>

\* A failed attempt that had no connection leaves nothing, and is not counted against Backoff.
Backoff ==
    /\ sonar.loop = "backoff" /\ observed.up /\ sonar.generation < MaxGenerations
    /\ sonar' = [sonar EXCEPT !.loop = "connecting"]
    /\ UNCHANGED <<observed, refreshes, screen, details>>

-----------------------------------------------------------------------------
(* Keys. *)

\* Choosing a filter replaces all of the last one.
ChooseFilter(f) ==
    /\ f # sonar.filter /\ sonar.loop # "ends"
    /\ Refreshing([sonar EXCEPT !.filter = f], "key")
    /\ UNCHANGED <<observed, screen, details>>

Looking(s) == /\ Looks(s, sonar.connected, sonar.generation, sonar.snapshot, details)
           /\ UNCHANGED <<observed, sonar, refreshes>>
SelectConversation(c) ==
    c # screen.selected /\ Looking([screen EXCEPT !.selected = c, !.atEnd = TRUE])
\* Scrolling up pins what is read; End follows again.
ScrollUp ==
    screen.atEnd /\ screen.detail # NoDetail /\ Looking([screen EXCEPT !.atEnd = FALSE])
PressEnd == Looking([screen EXCEPT !.atEnd = TRUE])

\* older(): a page before the one that is shown, at its revision.
Older ==
    /\ sonar.connected /\ screen.detail # NoDetail /\ screen.asked < MaxDetails
    /\ screen' = [screen EXCEPT !.asked = @ + 1]
    /\ details' = details \cup {[id |-> screen.asked + 1, generation |-> sonar.generation,
                                 of |-> screen.selected, cursor |-> screen.detail.cursor,
                                 older |-> TRUE, cancelled |-> FALSE]}
    /\ UNCHANGED <<observed, sonar, refreshes>>

\* Mutation of Awaited: an answer is shown whatever happened since.
AwaitedAlways(d) == TRUE
Awaited(d) == IF d.older THEN d.of = screen.selected ELSE ~d.cancelled

DetailArrives(d) ==
    /\ Current(d)
    /\ details' = details \ {d}
    /\ IF ~Awaited(d) THEN UNCHANGED screen
       ELSE screen' = [screen EXCEPT
                         !.detail = [of |-> d.of, cursor |-> d.cursor, older |-> d.older],
                         !.atEnd = @ /\ ~d.older, !.error = @ /\ d.older]
    /\ UNCHANGED <<observed, sonar, refreshes>>

DetailFails(d) ==
    /\ Current(d)
    /\ details' = details \ {d}
    /\ screen' = [screen EXCEPT !.error = @ \/ ~d.cancelled]
    /\ UNCHANGED <<observed, sonar, refreshes>>

SonarNext ==
    \/ NewsHappens \/ DaemonRestarts
    \/ \E r \in refreshes : Capture(r) \/ SnapshotArrives(r) \/ SnapshotFails(r)
    \/ Connect \/ Refresh \/ WaitForNews \/ (\E pruned \in BOOLEAN : WaitReturns(pruned))
    \/ ConnectionFails \/ GivesUpForGood \/ Backoff
    \/ \E f \in Filters : ChooseFilter(f)
    \/ \E c \in Conversations : SelectConversation(c)
    \/ ScrollUp \/ PressEnd \/ Older
    \/ \E d \in details : DetailArrives(d) \/ DetailFails(d)

SonarSpec == SonarInit /\ [][SonarNext]_sonarVars

-----------------------------------------------------------------------------
(* Properties. *)

\* What is shown never goes back; when the daemon was another one, a gap is shown from then on.
Forward ==
    [][/\ sonar'.snapshot.cursor >= sonar.snapshot.cursor
       /\ sonar'.snapshot.epoch >= sonar.snapshot.epoch
       /\ sonar.gap => sonar'.gap
       /\ (sonar.snapshot # NoSnapshot /\ sonar'.snapshot.epoch # sonar.snapshot.epoch)
             => sonar'.gap]_sonarVars

\* What is called live came over the connection there is: nothing else is asked for or shown.
LiveIsConnected == sonar.phase = "live" => sonar.connected

\* A conversation that is followed is the selected one as of the snapshot shown; or it is on
\* its way, or an error is shown.
Follows ==
    (screen.atEnd /\ sonar.phase = "live" /\ screen.detail # NoDetail) =>
        \/ screen.detail = [of |-> screen.selected, cursor |-> sonar.snapshot.cursor,
                            older |-> FALSE]
        \/ screen.error
        \/ \E d \in details : ~d.cancelled /\ ~d.older /\ d.of = screen.selected

\* The screen is honest about what it shows (docs/sonar.md:50).
ScreenIsHonest == Forward /\ []LiveIsConnected /\ []Follows

\* Does not hold: an older page that arrives after End takes the reader back to it.
EndStays ==
    [][\A d \in details : (d.older /\ DetailArrives(d)) => ~screen.atEnd]_sonarVars
=============================================================================
