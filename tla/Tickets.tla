------------------------------- MODULE Tickets --------------------------------
(***************************************************************************)
(* The tickets of a project and the graph of their dependencies            *)
(* (src/src/ticket.ts, createTicket and commitTurn of src/src/service.ts). *)
(* A commit reads all tickets of its snapshot to judge the graph and who   *)
(* becomes ready, but writes the row of one; the graph lock of the project *)
(* is all that keeps two judgements apart. The store refuses the write of  *)
(* a row that changed since the snapshot, and the transaction runs again.  *)
(*                                                                         *)
(* Queues and claims of turns are in Turns: here the agent that commits    *)
(* has the ticket's turn, and nobody else commits to it meanwhile. An      *)
(* agent has one call in flight. A call that waits for its lock has read   *)
(* nothing yet and does not show. A body changes nothing that others judge *)
(* by, so none is kept; what a patch makes of one, and the outline of its  *)
(* headings, are functions at the end of the module.                       *)
(***************************************************************************)
EXTENDS Integers, SequencesExt

CONSTANTS
    Agents,    \* identities; `by` tells a name from the id of an identity
    TicketIds,
    MaxEdits   \* bound on the committed writes

VARIABLES
    tickets,   \* ticketContent: the rows that exist
    writer,    \* each agent's call: idle, or at work on the snapshot it has seen
    edits      \* writes committed so far, for the bound
ticketVars == <<tickets, writer, edits>>

NoWrite == [at |-> "idle"]

\* A project whose tickets, if any, wait for nothing.
TicketsInit ==
    /\ \E S \in SUBSET TicketIds :
          tickets \in [S -> [owner : Agents, state : {"todo"}, dependsOn : {{}}]]
    /\ edits = 0
    /\ writer = [a \in Agents |-> NoWrite]

-----------------------------------------------------------------------------
(* The graph. *)

\* validateTicketGraph: dependencies exist and there is no cycle, so every set of
\* tickets has one that depends on none of the others.
ValidGraph(g) ==
    /\ \A t \in DOMAIN g : g[t].dependsOn \subseteq DOMAIN g
    /\ \A S \in SUBSET DOMAIN g : S # {} => \E t \in S : g[t].dependsOn \cap S = {}

BlockedBy(g, t) == {d \in g[t].dependsOn : d \notin DOMAIN g \/ g[d].state # "done"}
Ready(g, t) == g[t].state = "todo" /\ BlockedBy(g, t) = {}

-----------------------------------------------------------------------------
(* Writes. *)

\* What a call asks for: fields it does not name stay as they are.
Creations ==
    [kind : {"createTicket"}, ticket : TicketIds,
     owner : [by : {"name"}, who : Agents], state : {"todo"}, dependsOn : SUBSET TicketIds]
Updates ==
    [kind : {"updateTicket"}, ticket : TicketIds, owner : [by : {"name"}, who : Agents]]
    \cup [kind : {"updateTicket"}, ticket : TicketIds, state : {"todo", "done"}]
    \cup [kind : {"updateTicket"}, ticket : TicketIds, dependsOn : SUBSET TicketIds]

Names(op, field) == field \in DOMAIN op

\* Mutation of LockOf: an update takes the lock of its turn, as other commits do.
LockOfTurn(op) == IF op.kind = "createTicket" THEN "graph" ELSE op.ticket

\* Which writes exclude each other: all that may change the graph.
LockOf(op) == "graph"

\* ticketOwner looks for the name; it does not know ids.
OwnerFound(op) == Names(op, "owner") => op.owner.by = "name"

\* prepareTicket, and the row createTicket makes.
Prepared(g, op) ==
    LET was == g[op.ticket] IN
    [owner |-> IF Names(op, "owner") THEN op.owner.who ELSE was.owner,
     state |-> IF Names(op, "state") THEN op.state ELSE was.state,
     dependsOn |-> IF Names(op, "dependsOn") THEN op.dependsOn ELSE was.dependsOn]

Edited(g, op) == [t \in DOMAIN g \cup {op.ticket} |-> IF t = op.ticket THEN Prepared(g, op) ELSE g[t]]

\* Whom the commit of a tells: the new owner, and the owners of tickets that become ready by it.
Notices(a) ==
    LET op == writer[a].op
        g == writer[a].seen
        after == Edited(g, op)
        assigned == {t \in {op.ticket} : t \in DOMAIN g => after[t].owner # g[t].owner}
        ready == {t \in DOMAIN g : ~Ready(g, t) /\ Ready(after, t)}
    IN {n \in {<<after[t].owner, t, "ticket_assigned">> : t \in assigned}
              \cup {<<after[t].owner, t, "ticket_ready">> : t \in ready} : n[1] # a}

-----------------------------------------------------------------------------
(* Calls. *)

Writing == {a \in Agents : writer[a].at # "idle"}

\* An agent makes a ticket, or changes one whose turn it has: its call has got the lock,
\* and its transaction begins on a snapshot of its own.
BeginWrite(a, op) ==
    /\ writer[a] = NoWrite /\ edits < MaxEdits
    /\ op.kind = "createTicket" <=> op.ticket \notin DOMAIN tickets
    /\ \A b \in Writing : writer[b].op.ticket # op.ticket /\ LockOf(writer[b].op) # LockOf(op)
    /\ writer' = [writer EXCEPT ![a] = [at |-> "working", op |-> op, seen |-> tickets]]
    /\ UNCHANGED <<tickets, edits>>

\* What the transaction demands: NO_CHANGE and the graph are judged by its snapshot.
Acceptable(a) ==
    LET op == writer[a].op
        seen == writer[a].seen IN
    /\ OwnerFound(op)
    /\ Edited(seen, op) # seen
    /\ ValidGraph(Edited(seen, op))

RefuseWrite(a) ==
    /\ writer[a].at = "working" /\ ~Acceptable(a)
    /\ writer' = [writer EXCEPT ![a] = NoWrite]
    /\ UNCHANGED <<tickets, edits>>

\* The commit writes the one row; the rows it judged by may have changed since.
CommitWrite(a) ==
    /\ writer[a].at = "working" /\ Acceptable(a)
    /\ edits < MaxEdits /\ edits' = edits + 1
    /\ LET op == writer[a].op IN
       tickets' = [t \in DOMAIN tickets \cup {op.ticket} |->
                      IF t = op.ticket THEN Prepared(writer[a].seen, op) ELSE tickets[t]]
    /\ writer' = [writer EXCEPT ![a] = NoWrite]

\* The commit meets a conflict on another row it wrote (a sweep is part of it). The store
\* runs the callback again, under the lock, on a new snapshot; the callback has replaced
\* the owner's name in its argument by the id it found.
RetryWrite(a) ==
    /\ writer[a].at = "working" /\ Acceptable(a)
    /\ writer' = [writer EXCEPT
          ![a].seen = tickets,
          ![a].op = IF @.kind = "updateTicket" /\ Names(@, "owner")
                    THEN [@ EXCEPT !.owner.by = "id"] ELSE @]
    /\ UNCHANGED <<tickets, edits>>

\* The attempts are used up, or the connection was lost.
GiveUpWrite(a) ==
    /\ writer[a].at = "working"
    /\ writer' = [writer EXCEPT ![a] = NoWrite]
    /\ UNCHANGED <<tickets, edits>>

TicketsNext ==
    \E a \in Agents :
        \/ \E op \in Creations \cup Updates : BeginWrite(a, op)
        \/ RefuseWrite(a) \/ CommitWrite(a) \/ RetryWrite(a) \/ GiveUpWrite(a)

TicketsSpec == TicketsInit /\ [][TicketsNext]_ticketVars

-----------------------------------------------------------------------------
(* Properties. *)

\* The tickets of a project never come to wait for each other in a circle, although two
\* agents may close one from two sides at the same time.
GraphIsAcyclic == ValidGraph(tickets)

\* Whoever finishes what a ticket was waiting for tells its owner, also when two of its
\* dependencies are finished at the same time and neither commit sees the other.
ReadyIsAnnounced ==
    [][\A t \in DOMAIN tickets : ~Ready(tickets, t) /\ Ready(tickets', t) =>
          \A a \in Agents : CommitWrite(a) =>
              \/ tickets'[t].owner = a
              \/ <<tickets'[t].owner, t, "ticket_ready">> \in Notices(a)]_ticketVars

\* The graph of tickets is judged as it is, although every commit sees a snapshot of it.
GraphIsJudged == []GraphIsAcyclic /\ ReadyIsAnnounced

\* An owner that exists is found, however often the store runs the transaction.
OwnersAreFound == \A a \in Writing : OwnerFound(writer[a].op)

-----------------------------------------------------------------------------
(* Bodies (src/src/markdown.ts). A body is the sequence of its lines, and of a line matters *)
(* what it is to the one who reads it.                                                       *)
(*                                                                                           *)
(* applyUnifiedPatch. A hunk is [start, old, new, rows], as its header has it; a row is      *)
(* [mark, text]. The start in the new body is read by nobody. A patch is its hunks, after a  *)
(* header that names the file, or without one.                                               *)

Rejected == <<>>  \* no body: even the empty one has a line

Old(h) == SelectSeq(h.rows, LAMBDA row : row.mark \in {" ", "-"})
New(h) == SelectSeq(h.rows, LAMBDA row : row.mark \in {" ", "+"})
TextsOf(rows) == [i \in DOMAIN rows |-> rows[i].text]

\* A row that takes away "-- x" looks like the header "--- x" of another file.
LooksLikeHeader(row) == row.mark = "-" /\ row.text = "-- x"
Headers(patch) ==
    (IF patch.header THEN 1 ELSE 0)
    + Len(SelectSeq(FlattenSeq([k \in DOMAIN patch.hunks |-> patch.hunks[k].rows]),
                    LooksLikeHeader))

\* What is left and what is removed must be there; what is added is not looked at.
TakeRow(body, s, row) ==
    IF ~s.ok THEN s
    ELSE IF row.mark = "+" THEN [s EXCEPT !.out = Append(@, row.text)]
    ELSE IF s.at < Len(body) /\ body[s.at + 1] = row.text
    THEN [s EXCEPT !.at = @ + 1, !.out = IF row.mark = " " THEN Append(@, row.text) ELSE @]
    ELSE [s EXCEPT !.ok = FALSE]

\* Mutation of InPlace: hunks may go back over what the one before has read.
InPlaceAnywhere(body, s, h) == h.start >= 1 /\ h.start <= Len(body) + 1

InPlace(body, s, h) == h.start > s.at /\ h.start <= Len(body) + 1

TakeHunk(body, s, h) ==
    LET begun == [ok |-> TRUE, at |-> h.start - 1,
                  out |-> s.out \o SubSeq(body, s.at + 1, h.start - 1)]
        taken == FoldLeft(LAMBDA t, row : TakeRow(body, t, row), begun, h.rows)
    IN  IF s.ok /\ InPlace(body, s, h)
        THEN [taken EXCEPT !.ok = @ /\ Len(Old(h)) = h.old /\ Len(New(h)) = h.new]
        ELSE [s EXCEPT !.ok = FALSE]

\* Without any line there is one, an empty one.
Joined(lines) == IF lines = <<>> THEN <<"">> ELSE lines

Applied(body, patch) ==
    LET s == FoldLeft(LAMBDA t, h : TakeHunk(body, t, h),
                      [ok |-> TRUE, at |-> 0, out |-> <<>>], patch.hunks)
    IN  IF s.ok /\ patch.hunks # <<>> /\ Headers(patch) <= 1
        THEN Joined(s.out \o SubSeq(body, s.at + 1, Len(body))) ELSE Rejected

-----------------------------------------------------------------------------
(* outline. Lines are told apart as headings, fences of code, underlines, blank lines and text. *)

AtxLevel(line) ==
    CASE line = "#" -> 1 [] line = "##" -> 2 [] line = "###" -> 3 [] OTHER -> 0
UnderlineLevel(line) == CASE line = "===" -> 1 [] line = "---" -> 2 [] OTHER -> 0
IsFence(line) == line \in {"ticks", "tildes"}

\* A line is a heading by itself, or by the one that underlines it, whatever else it is.
HeadingLevel(lines, i) ==
    IF AtxLevel(lines[i]) > 0 THEN AtxLevel(lines[i])
    ELSE IF i < Len(lines) /\ lines[i] # "" THEN UnderlineLevel(lines[i + 1]) ELSE 0

\* Mutation of Beneath: deeper headings stay on the stack.
BeneathAll(stack, level, i) ==
    [k \in 1..(IF Len(stack) > level THEN Len(stack) ELSE level) |->
        IF k = level THEN i ELSE IF k \in DOMAIN stack THEN stack[k] ELSE 0]

\* The headings above and including the one of line i; 0 where a level is skipped.
Beneath(stack, level, i) ==
    [k \in 1..level |-> IF k = level THEN i ELSE IF k \in DOMAIN stack THEN stack[k] ELSE 0]

\* One line; an underline was read with its heading. A fence ends with the next of its kind.
OutlineStep(lines, s, i) ==
    LET line == lines[i]
        level == HeadingLevel(lines, i)
        above == Beneath(s.stack, level, i)
    IN  CASE s.underline -> [s EXCEPT !.underline = FALSE]
          [] ~s.underline /\ IsFence(line) ->
                [s EXCEPT !.fence = IF @ = "" THEN line ELSE IF @ = line THEN "" ELSE @]
          [] ~s.underline /\ ~IsFence(line) ->
                IF s.fence # "" \/ level = 0 THEN s
                ELSE [s EXCEPT !.stack = above, !.underline = AtxLevel(line) = 0,
                               !.items = Append(@, [level |-> level, path |-> above,
                                                    startLine |-> i])]

\* A section ends before the next heading that is not beneath its own.
EndLine(lines, items, k) ==
    LET next == {j \in DOMAIN items : j > k /\ items[j].level <= items[k].level} IN
    IF next = {} THEN Len(lines)
    ELSE items[CHOOSE j \in next : \A l \in next : j <= l].startLine - 1

Outline(lines) ==
    LET items == FoldLeftDomain(LAMBDA s, i : OutlineStep(lines, s, i),
                     [items |-> <<>>, stack |-> <<>>, fence |-> "", underline |-> FALSE],
                     lines).items
    IN  [k \in DOMAIN items |->
            [level |-> items[k].level, path |-> items[k].path,
             startLine |-> items[k].startLine, endLine |-> EndLine(lines, items, k)]]

-----------------------------------------------------------------------------
(* What they promise, over given bodies and patches. *)

\* What a patch says: its hunks replace parts of the body that follow each other.
Fits(body, hunks) ==
    /\ hunks # <<>>
    /\ \A k \in DOMAIN hunks :
          LET h == hunks[k] IN
          /\ h.start \in 1..(Len(body) + 1)
          /\ h.old = Len(Old(h)) /\ h.new = Len(New(h))
          /\ h.start + h.old - 1 <= Len(body)
          /\ SubSeq(body, h.start, h.start + h.old - 1) = TextsOf(Old(h))
          /\ \A j \in 1..(k - 1) : hunks[j].start + hunks[j].old <= h.start
PatchedBy(body, hunks) ==
    LET n == Len(hunks)
        Kept(k) == SubSeq(body, IF k = 1 THEN 1 ELSE hunks[k - 1].start + hunks[k - 1].old,
                          IF k > n THEN Len(body) ELSE hunks[k].start - 1)
    IN  FlattenSeq([k \in 1..(n + 1) |->
            Kept(k) \o (IF k > n THEN <<>> ELSE TextsOf(New(hunks[k])))])

\* The patch that takes back another.
Undone(hunks) ==
    LET Grown(k) == FoldLeft(LAMBDA sum, h : sum + h.new - h.old, 0, SubSeq(hunks, 1, k - 1))
        Turned(row) == [row EXCEPT !.mark = CASE @ = "+" -> "-" [] @ = "-" -> "+" [] OTHER -> @]
    IN  [k \in DOMAIN hunks |->
            [start |-> hunks[k].start + Grown(k), old |-> hunks[k].new, new |-> hunks[k].old,
             rows |-> [i \in DOMAIN hunks[k].rows |-> Turned(hunks[k].rows[i])]]]

\* A patch does what it says or is rejected, one whose hunks overlap, count wrongly or do not
\* match included; and what it did can be taken back.
PatchesDoWhatTheySay(bodies, patches) ==
    \A body \in bodies, patch \in patches :
        LET after == Applied(body, patch)
            said == PatchedBy(body, patch.hunks)
            back == [header |-> FALSE, hunks |-> Undone(patch.hunks)]
        IN  Headers(patch) <= 1 =>
               /\ after = IF Fits(body, patch.hunks) THEN Joined(said) ELSE Rejected
               /\ after # Rejected /\ said # <<>> /\ Headers(back) <= 1 =>
                     Applied(after, back) = body

\* Sections lie in each other or apart; the path of a heading names those its section lies in;
\* and nothing in a block of code is a heading, as far as fences of one kind go.
SectionsNest(bodies) ==
    \A lines \in bodies :
        LET items == Outline(lines)
            Around(j) == {i \in DOMAIN items : items[i].startLine <= items[j].startLine
                                               /\ items[j].startLine <= items[i].endLine}
        IN  \A j \in DOMAIN items :
              /\ \A i \in Around(j) : items[j].endLine <= items[i].endLine
              /\ ToSet(items[j].path) \ {0} = {items[i].startLine : i \in Around(j)}
              /\ \A i \in Around(j) : items[j].path[items[i].level] = items[i].startLine
              /\ {"ticks", "tildes"} \subseteq ToSet(lines) \/
                    Len(SelectSeq(SubSeq(lines, 1, items[j].startLine), IsFence)) % 2 = 0

\* Do not hold. A hunk that only adds stands, in a unified patch, behind the line its header
\* names; here it goes before that line, and into an empty file not at all.
AdditionsFollow(bodies, hunks) ==
    \A body \in bodies, h \in hunks :
        h.old = 0 /\ Old(h) = <<>> /\ h.new = Len(New(h)) /\ h.start <= Len(body) =>
            Applied(body, [header |-> FALSE, hunks |-> <<h>>])
                = SubSeq(body, 1, h.start) \o TextsOf(New(h))
                  \o SubSeq(body, h.start + 1, Len(body))
\* A patch of one file is refused for naming several when it takes away a line that begins with
\* two dashes.
OneFileIsAccepted(bodies, patches) ==
    \A body \in bodies, patch \in patches :
        Fits(body, patch.hunks) => Applied(body, patch) # Rejected
=============================================================================
