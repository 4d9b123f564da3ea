----------------------------- MODULE TicketGraph ------------------------------
(***************************************************************************)
(* The dependency graph of tickets on the terminal: what the daemon sends  *)
(* of it (observeGraph of src/src/storage/content.ts), where its tickets   *)
(* stand and how the reader moves among them (src/src/sonar/graph.ts, and  *)
(* the graph's part of src/src/sonar/app.tsx).                             *)
(*                                                                         *)
(* A ticket is a number, which is also the order of the ids. Layouts are   *)
(* external (dagre): any places in columns from prerequisites to           *)
(* dependents. Tickets keep their dependencies while they are looked at.   *)
(***************************************************************************)
EXTENDS Integers, FiniteSets, Sequences, SequencesExt

CONSTANTS
    GraphTickets,  \* numbers
    GraphLimit,    \* tickets of a graph, 200
    HopLimit,      \* how far a focused graph goes, 2
    Columns,       \* left ends of the tickets' boxes
    Lines,         \* their upper ends
    ViewWidth, ViewHeight,  \* the part of the graph that is on the screen, in cells
    MaxPans        \* bound on the moves of the viewport

\* A box fits on the screen, with the two lines that are left above it.
ASSUME GraphAssumption ==
    /\ Columns \subseteq Nat /\ IsFiniteSet(Columns)
    /\ Lines \subseteq Nat /\ IsFiniteSet(Lines)
    /\ ViewWidth \in Nat /\ ViewWidth >= 24 /\ ViewHeight \in Nat /\ ViewHeight >= 7

VARIABLES
    dependsOn,    \* of each ticket
    graphRoot,    \* the ticket whose graph is shown, or NoTicket
    focused,      \* only what is near
    onTicket,     \* the selected ticket
    ticketsInView, graphPaused, \* whether the view of tickets is shown; whether the screen is held
    graphReads,   \* reads under way
    graphFailed,  \* the read that was made last ended with an error, and none was made since
    graph,        \* what is shown: tickets, and how many next to them are not
    places,       \* where its tickets stand
    pan, pans

lookingVars == <<ticketsInView, graphPaused>>
readingVars == <<graphReads, graphFailed>>
shownVars == <<graph, places, pan, pans>>
graphVars ==
    <<dependsOn, graphRoot, focused, onTicket, lookingVars, readingVars, shownVars>>

NoTicket == 0
BoxWidth == 24
BoxHeight == 5
NoGraph == [tickets |-> {}, hidden |-> 0]
CancelledRead == [root |-> NoTicket, focused |-> FALSE, cancelled |-> TRUE]

-----------------------------------------------------------------------------
(* Graphs. *)

BlocksOf(deps, t) == {u \in DOMAIN deps : t \in deps[u]}
Adjacent(deps, t) == deps[t] \cup BlocksOf(deps, t)

\* Every ticket that is reached along next, in the order of its discovery.
WalkStep(next, s) ==
    IF s.queue = <<>> THEN s
    ELSE IF Head(s.queue) \in s.found THEN [s EXCEPT !.queue = Tail(@)]
    ELSE [queue |-> Tail(s.queue) \o SetToSortSeq(next[Head(s.queue)], <),
          found |-> s.found \cup {Head(s.queue)}]

Walked(next, t) ==
    LET after[n \in Nat] ==
            IF n = 0 THEN [queue |-> SetToSortSeq(next[t], <), found |-> {}]
            ELSE WalkStep(next, after[n - 1])
    IN after[(Cardinality(DOMAIN next) + 1) * (Cardinality(DOMAIN next) + 1)].found

\* graphRelations: the prerequisites of a ticket; its dependents are found along "blocks".
Prerequisites(deps, t) == Walked(deps, t)
Downstream(deps, t) == Walked([u \in DOMAIN deps |-> BlocksOf(deps, u)], t)

\* Mutation of ObserveStep: what was found last is looked at first.
ObserveStepLastFirst(deps, near, s) ==
    IF s.frontier = <<>> THEN s
    ELSE LET next == Head(s.frontier)
             rest == Tail(s.frontier)
         IN IF next.id \in s.selected THEN [s EXCEPT !.frontier = rest]
            ELSE IF Cardinality(s.selected) >= GraphLimit \/ (near /\ next.depth > HopLimit)
            THEN [s EXCEPT !.frontier = rest, !.omitted = @ \cup {next.id}]
            ELSE LET found == SetToSortSeq(Adjacent(deps, next.id) \ s.selected, <)
                 IN [s EXCEPT !.selected = @ \cup {next.id},
                        !.frontier = [n \in DOMAIN found |->
                            [id |-> found[n], depth |-> next.depth + 1]] \o rest]

\* The graph around a ticket, breadth first, as far as the limits let it go.
ObserveStep(deps, near, s) ==
    IF s.frontier = <<>> THEN s
    ELSE LET next == Head(s.frontier)
             rest == Tail(s.frontier)
         IN IF next.id \in s.selected THEN [s EXCEPT !.frontier = rest]
            ELSE IF Cardinality(s.selected) >= GraphLimit \/ (near /\ next.depth > HopLimit)
            THEN [s EXCEPT !.frontier = rest, !.omitted = @ \cup {next.id}]
            ELSE LET found == SetToSortSeq(Adjacent(deps, next.id) \ s.selected, <)
                 IN [s EXCEPT !.selected = @ \cup {next.id},
                        !.frontier = rest \o [n \in DOMAIN found |->
                            [id |-> found[n], depth |-> next.depth + 1]]]

Observed(deps, t, near) ==
    LET after[n \in Nat] ==
            IF n = 0
            THEN [frontier |-> <<[id |-> t, depth |-> 0]>>, selected |-> {}, omitted |-> {}]
            ELSE ObserveStep(deps, near, after[n - 1])
        end == after[(Cardinality(DOMAIN deps) + 1) * (Cardinality(DOMAIN deps) + 1)]
    IN [tickets |-> end.selected, hidden |-> Cardinality(end.omitted \ end.selected)]

-----------------------------------------------------------------------------
(* Places and arrows. *)

Layouts(deps, shown) ==
    {at \in [shown -> [x : Columns, y : Lines]] :
        /\ \A t, u \in shown : t # u => at[t] # at[u]
        /\ \A t \in shown : \A u \in deps[t] \cap shown : at[u].x < at[t].x}

Furthest(numbers) == CHOOSE n \in numbers : \A k \in numbers : k <= n
LayoutWidth(at) == Furthest({at[t].x : t \in DOMAIN at}) + BoxWidth + 1
LayoutHeight(at) == Furthest({at[t].y : t \in DOMAIN at}) + BoxHeight + 1

Abs(n) == IF n < 0 THEN -n ELSE n
Sign(n) == IF n > 0 THEN 1 ELSE IF n < 0 THEN -1 ELSE 0
Directions == {<<1, 0>>, <<-1, 0>>, <<0, 1>>, <<0, -1>>}

\* Mutation of Ahead: only what stands in the same line or column.
AheadInLine(at, t, d) ==
    {u \in DOMAIN at :
        IF d[1] # 0 THEN (at[u].x - at[t].x) * d[1] > 0 /\ at[u].y = at[t].y
        ELSE (at[u].y - at[t].y) * d[2] > 0 /\ at[u].x = at[t].x}

Ahead(at, t, d) ==
    {u \in DOMAIN at :
        IF d[1] # 0 THEN (at[u].x - at[t].x) * d[1] > 0 ELSE (at[u].y - at[t].y) * d[2] > 0}

\* Distance across the direction counts three times.
Distance(at, t, u, d) ==
    Abs(at[u].x - at[t].x) * (IF d[1] # 0 THEN 1 ELSE 3)
    + Abs(at[u].y - at[t].y) * (IF d[2] # 0 THEN 1 ELSE 3)

\* graphNeighbor.
Neighbor(at, t, d) ==
    LET ahead == Ahead(at, t, d)
        nearest == {u \in ahead : \A v \in ahead :
                        Distance(at, t, u, d) <= Distance(at, t, v, d)}
    IN IF at = <<>> THEN NoTicket
       ELSE IF t \notin DOMAIN at THEN CHOOSE u \in DOMAIN at : \A v \in DOMAIN at : u <= v
       ELSE IF ahead = {} THEN t
       ELSE CHOOSE u \in nearest : \A v \in nearest : u <= v

AtLeast0(n) == IF n < 0 THEN 0 ELSE n
Lesser(m, n) == IF m < n THEN m ELSE n
MiddleX(at, t) ==
    AtLeast0(Lesser(LayoutWidth(at) - ViewWidth, at[t].x - ViewWidth \div 2 + 12))
MiddleY(at, t) ==
    AtLeast0(Lesser(LayoutHeight(at) - ViewHeight, at[t].y - ViewHeight \div 2 + 2))

\* Mutation of FitsAcross: the left end of the box is enough.
FitsAcrossByEnd(at, t, p) == at[t].x >= p.x /\ at[t].x <= p.x + ViewWidth

FitsAcross(at, t, p) == at[t].x >= p.x /\ at[t].x + BoxWidth <= p.x + ViewWidth
FitsDown(at, t, p) == at[t].y >= p.y /\ at[t].y + BoxHeight <= p.y + ViewHeight

\* center(id).
Centered(at, t, p) ==
    IF t \notin DOMAIN at THEN p
    ELSE [x |-> IF FitsAcross(at, t, p) THEN p.x ELSE MiddleX(at, t),
          y |-> IF FitsDown(at, t, p) THEN p.y ELSE AtLeast0(at[t].y - 2)]

-----------------------------------------------------------------------------
(* Lines from prerequisites to dependents: paintGraph. A stroke leaves a   *)
(* cell at one of its sides.                                               *)

\* Mutation of Strokes: the last cell of a line has no stroke back.
StrokesOpen(a, b) ==
    LET dx == Sign(b[1] - a[1])
        dy == Sign(b[2] - a[2])
        length == IF dx # 0 THEN Abs(b[1] - a[1]) ELSE Abs(b[2] - a[2])
    IN {<<<<a[1] + dx * i, a[2] + dy * i>>, <<dx, dy>>>> : i \in 0..(length - 1)}
       \cup {<<<<a[1] + dx * i, a[2] + dy * i>>, <<-dx, -dy>>>> : i \in 1..(length - 1)}

\* A straight line from a to b.
Strokes(a, b) ==
    LET dx == Sign(b[1] - a[1])
        dy == Sign(b[2] - a[2])
        length == IF dx # 0 THEN Abs(b[1] - a[1]) ELSE Abs(b[2] - a[2])
    IN {<<<<a[1] + dx * i, a[2] + dy * i>>, <<dx, dy>>>> : i \in 0..(length - 1)}
       \cup {<<<<a[1] + dx * i, a[2] + dy * i>>, <<-dx, -dy>>>> : i \in 1..length}

\* From one point to the next: half of the way across, all the way down or up, and the rest.
Bent(a, b) ==
    LET middle == (a[1] + b[1] + 1) \div 2
    IN Strokes(a, <<middle, a[2]>>) \cup Strokes(<<middle, a[2]>>, <<middle, b[2]>>)
       \cup Strokes(<<middle, b[2]>>, b)

\* The strokes of an edge: from the box of a ticket by the points of its layout to the other box.
EdgeStrokes(points) == UNION {Bent(points[n], points[n + 1]) : n \in 1..(Len(points) - 1)}

SidesOf(strokes, cell) == {s[2] : s \in {r \in strokes : r[1] = cell}}

\* An edge that is highlighted when a ticket is selected.
Related(deps, t, from, to) ==
    \/ from \in Prerequisites(deps, t) /\ (to \in Prerequisites(deps, t) \/ to = t)
    \/ (from = t \/ from \in Downstream(deps, t)) /\ to \in Downstream(deps, t)

-----------------------------------------------------------------------------
(* The reader. *)

RootOf(r, selected) == IF r # NoTicket THEN r ELSE selected

\* The graph is read for a reader who looks at it.
LooksAtGraph == ticketsInView /\ ~graphPaused

Dags(ids) ==
    {deps \in [ids -> SUBSET ids] :
        \A t \in ids : \A u \in deps[t] : u < t}

\* Sonar is opened at its tickets, and the first snapshot is there.
GraphInit ==
    /\ dependsOn \in Dags(GraphTickets)
    /\ graphRoot = NoTicket /\ focused = FALSE
    /\ onTicket \in GraphTickets
    /\ ticketsInView = TRUE /\ graphPaused = FALSE
    /\ graphReads = {[root |-> onTicket, focused |-> FALSE, cancelled |-> FALSE]}
    /\ graphFailed = FALSE
    /\ graph = NoGraph /\ places = <<>>
    /\ pan = [x |-> 0, y |-> 0] /\ pans = 0

\* Mutation of Asking: what was asked before is not cancelled.
AskingAlso(r, f) ==
    graphReads \cup
        (IF r = NoTicket \/ ~LooksAtGraph' THEN {}
         ELSE {[root |-> r, focused |-> f, cancelled |-> FALSE]})

\* The effect that reads the graph: it cancels the read it made before, and makes another one
\* unless nobody looks. What a cancelled read was for does not matter any more.
Asking(r, f) ==
    {CancelledRead : a \in graphReads}
        \cup (IF r = NoTicket \/ ~LooksAtGraph' THEN {}
              ELSE {[root |-> r, focused |-> f, cancelled |-> FALSE]})

Reread ==
    /\ graphReads' = Asking(RootOf(graphRoot', onTicket'), focused')
    /\ graphFailed' = FALSE

\* The effect runs when something it depends on is another one than before.
RereadIfChanged ==
    IF /\ RootOf(graphRoot', onTicket') = RootOf(graphRoot, onTicket)
       /\ focused' = focused /\ LooksAtGraph' = LooksAtGraph
    THEN UNCHANGED readingVars
    ELSE Reread

\* A snapshot comes to a screen that is not held: when its list has not got the selected ticket
\* another one is selected, or none; and the graph is read again.
SnapshotComes ==
    /\ ~graphPaused
    /\ onTicket' \in GraphTickets \cup {NoTicket}
    /\ UNCHANGED <<dependsOn, graphRoot, focused, lookingVars, shownVars>>
    /\ Reread

CancelledArrives(a) ==
    /\ a.cancelled
    /\ graphReads' = graphReads \ {a}
    /\ UNCHANGED <<dependsOn, graphRoot, focused, onTicket, lookingVars, graphFailed, shownVars>>

\* The graph arrives; when it is another one, it gets a layout, around the selected ticket.
GraphArrives(a) ==
    /\ ~a.cancelled
    /\ graphReads' = graphReads \ {a}
    /\ graphRoot' = RootOf(graphRoot, a.root)
    /\ graph' = Observed(dependsOn, a.root, a.focused)
    /\ IF graph'.tickets = graph.tickets THEN UNCHANGED <<places, pan>>
       ELSE \E at \in Layouts(dependsOn, graph'.tickets) :
              /\ places' = at
              /\ pan' = IF onTicket \notin DOMAIN at THEN pan
                        ELSE [x |-> MiddleX(at, onTicket), y |-> MiddleY(at, onTicket)]
    /\ UNCHANGED <<dependsOn, focused, onTicket, lookingVars, graphFailed, pans>>

\* The read fails: an error is shown, and with it the graph that was there.
GraphFails(a) ==
    /\ ~a.cancelled
    /\ graphReads' = graphReads \ {a} /\ graphFailed' = TRUE
    /\ UNCHANGED <<dependsOn, graphRoot, focused, onTicket, lookingVars, shownVars>>

\* Before there is a graph an arrow selects nothing.
ArrowKey(d) ==
    /\ ticketsInView
    /\ onTicket' = Neighbor(places, onTicket, d)
    /\ pan' = Centered(places, onTicket', pan)
    /\ UNCHANGED <<dependsOn, graphRoot, focused, lookingVars, graph, places, pans>>
    /\ RereadIfChanged

ShiftArrow(d) ==
    /\ ticketsInView /\ graph # NoGraph /\ pans < MaxPans
    /\ pans' = pans + 1
    /\ pan' = [x |-> AtLeast0(Lesser(LayoutWidth(places), pan.x + 8 * d[1])),
               y |-> AtLeast0(Lesser(LayoutHeight(places), pan.y + 3 * d[2]))]
    /\ UNCHANGED <<dependsOn, graphRoot, focused, onTicket, lookingVars, readingVars, graph, places>>

\* The key f: the neighbourhood of the selected ticket, or all again.
ToggleFocus ==
    /\ ticketsInView
    /\ graphRoot' = onTicket /\ focused' = ~focused
    /\ UNCHANGED <<dependsOn, onTicket, lookingVars, shownVars>>
    /\ RereadIfChanged

\* A ticket is picked from the list of components or of dependencies, or from the activity of
\* another view.
PickTicket(t) ==
    /\ graphRoot' = t /\ onTicket' = t /\ ticketsInView' = TRUE
    /\ UNCHANGED <<dependsOn, focused, graphPaused, shownVars>>
    /\ RereadIfChanged

\* The list's own keys, and a filter that leaves the selected ticket out of the list.
ListMoves(t) ==
    /\ onTicket' = t
    /\ UNCHANGED <<dependsOn, graphRoot, focused, lookingVars, shownVars>>
    /\ RereadIfChanged

\* The space key holds the screen as it is, or lets it go on.
PauseKey ==
    /\ graphPaused' = ~graphPaused
    /\ UNCHANGED <<dependsOn, graphRoot, focused, onTicket, ticketsInView, shownVars>>
    /\ RereadIfChanged

SwitchView ==
    /\ ticketsInView' = ~ticketsInView
    /\ UNCHANGED <<dependsOn, graphRoot, focused, onTicket, graphPaused, shownVars>>
    /\ RereadIfChanged

GraphNext ==
    \/ SnapshotComes \/ ToggleFocus \/ PauseKey \/ SwitchView
    \/ \E a \in graphReads : CancelledArrives(a) \/ GraphArrives(a) \/ GraphFails(a)
    \/ \E d \in Directions : ArrowKey(d) \/ ShiftArrow(d)
    \/ \E t \in GraphTickets : PickTicket(t)
    \/ \E t \in GraphTickets \cup {NoTicket} : ListMoves(t)

GraphSpec == GraphInit /\ [][GraphNext]_graphVars

-----------------------------------------------------------------------------
(* Properties. *)

\* Tickets by their distance from one.
Within(deps, t) ==
    LET ring[n \in Nat] ==
            IF n = 0 THEN {t} ELSE ring[n - 1] \cup UNION {Adjacent(deps, u) : u \in ring[n - 1]}
    IN ring
Hops(deps, t, u) == CHOOSE n \in 0..Cardinality(DOMAIN deps) :
    u \in Within(deps, t)[n] /\ (n > 0 => u \notin Within(deps, t)[n - 1])

\* A graph is the whole neighbourhood of its ticket or as many tickets as it may have, the
\* nearest first; and each ticket that stands next to it and is not in it is counted, once.
GraphsAreWhole(dags) ==
    \A deps \in dags : \A t \in DOMAIN deps, near \in BOOLEAN :
        LET all == Within(deps, t)[IF near THEN HopLimit ELSE Cardinality(DOMAIN deps)]
            got == Observed(deps, t, near)
        IN /\ got.tickets \subseteq all
           /\ got.tickets = all \/ Cardinality(got.tickets) = GraphLimit
           /\ \A u \in got.tickets, v \in all \ got.tickets : Hops(deps, t, u) <= Hops(deps, t, v)
           /\ got.hidden = Cardinality({u \in DOMAIN deps \ got.tickets :
                                          Adjacent(deps, u) \cap got.tickets # {}})

\* What is highlighted of a graph are the ways to the selected ticket and from it, all of them.
WaysAreHighlighted(dags) ==
    \A deps \in dags : \A t, to \in DOMAIN deps : \A from \in deps[to] :
        Related(deps, t, from, to) <=>
            t \in Downstream(deps, to) \cup {to} \/ from \in Downstream(deps, t) \cup {t}

\* An edge can be followed on the screen, from the one box to the other and back: each stroke
\* meets one of the next cell.
EdgesCanBeFollowed(points) ==
    \A a, b, c \in points :
        LET strokes == EdgeStrokes(<<a, b, c>>)
            open == {s \in strokes : <<<<s[1][1] + s[2][1], s[1][2] + s[2][2]>>,
                                      <<-s[2][1], -s[2][2]>>>> \notin strokes}
            reached[n \in Nat] ==
                IF n = 0 THEN {a}
                ELSE LET old == reached[n - 1]
                     IN old \cup {<<s[1][1] + s[2][1], s[1][2] + s[2][2]>> :
                                    s \in {r \in strokes : r[1] \in old}}
        IN open = {} /\ c \in reached[Cardinality(strokes)]

\* Does not hold: edges that have no end in common meet at junctions, which look as if they had,
\* unless they cross at a right angle.
EdgesAreApart(points) ==
    \A a, b, c, d \in points :
        LET one == EdgeStrokes(<<a, b>>)
            other == EdgeStrokes(<<c, d>>)
        IN Cardinality({a, b, c, d}) = 4 =>
            \A cell \in {s[1] : s \in one} \cap {s[1] : s \in other} :
                SidesOf(one \cup other, cell) = Directions

\* To a reader who looks at it the graph on the screen is that of the ticket and of the focus that
\* were asked for last, unless it is being read or the last read of it failed.
GraphIsAsked ==
    /\ LooksAtGraph /\ RootOf(graphRoot, onTicket) # NoTicket /\ ~graphFailed
    /\ \A a \in graphReads : a.cancelled
    => graph = Observed(dependsOn, RootOf(graphRoot, onTicket), focused)

\* Every one of these tickets is reached from every other by arrows, wherever they stand in these
\* columns and on these lines. (There are columns and lines so far apart that it does not hold.)
ArrowsReachAll(tickets, columns, lines) ==
    \A at \in [tickets -> [x : columns, y : lines]] :
        Cardinality({at[t] : t \in tickets}) = Cardinality(tickets) =>
            LET next == [u \in tickets |-> {Neighbor(at, u, d) : d \in Directions}]
                reached[n \in Nat] ==
                    IF n = 0 THEN [t \in tickets |-> {t}]
                    ELSE LET old == reached[n - 1]
                         IN [t \in tickets |-> old[t] \cup UNION {next[u] : u \in old[t]}]
            IN \A t \in tickets : reached[Cardinality(tickets)][t] = tickets

InView ==
    /\ onTicket \in DOMAIN places
    /\ LET box == places[onTicket]
       IN /\ pan.x <= box.x /\ box.x + BoxWidth <= pan.x + ViewWidth
          /\ pan.y <= box.y /\ box.y + BoxHeight <= pan.y + ViewHeight

\* After an arrow the whole box of the selected ticket is on the screen.
SelectionIsSeen ==
    [][places # <<>> /\ ~InView' => \A d \in Directions : ~ArrowKey(d)]_graphVars

\* Does not hold: a ticket picked from the same graph is selected where it stands, off the screen.
PickedIsSeen ==
    graphReads = {} /\ pans = 0 /\ onTicket \in DOMAIN places => InView
=============================================================================
