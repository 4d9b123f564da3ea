----------------------------- MODULE Snapshots ------------------------------
(***************************************************************************)
(* The transactions of the coordination service as the store runs them:    *)
(* several at a time, each on the snapshot it began with, each writing     *)
(* only the rows it changed (CoordinationState in src/src/storage/rows.ts, *)
(* TursoControl.update in coordination.ts). The driver's MVCC, which is    *)
(* external, refuses a commit when a row it writes was written since its   *)
(* snapshot; it does not look at what the transaction read.                *)
(*                                                                         *)
(* What a transaction does to the tables is TurnState's; Turns takes the   *)
(* transactions as serial and has the clock, which is left out here: any   *)
(* deadline of a turn that is not held may pass at any time.               *)
(***************************************************************************)
EXTENDS TurnState, FiniteSets

CONSTANTS
    Clients,       \* transactions that may run client operations
    Sweepers,      \* transactions that may run sweeps
    MaxSequence    \* bound on the requests ever made of a target

Transactions == Clients \cup Sweepers

VARIABLES
    db,  \* the committed tables
    tx   \* each transaction: idle, or its operation, its snapshot and the rows
         \* others have written since
vars == <<db, tx>>

Idle == [op |-> [kind |-> "none"]]

Init ==
    /\ \E d \in Identities :
         db = [rq |-> [r \in {} |-> 0],
               inst |-> [i \in Instances |-> [active |-> FALSE, opened |-> FALSE, ident |-> d]],
               res |-> [t \in ContentTargets |-> [seq |-> 0, fence |-> 0]],
               fileSeq |-> 0]
    /\ tx = [t \in Transactions |-> Idle]

-----------------------------------------------------------------------------
(* What an operation does to the tables s it sees. *)

Connected(s) == {i \in Instances : s.inst[i].active}
FilesPromoted(s) == [s EXCEPT !.rq = PromoteFileRequests(@, Connected(s))]

\* Mutation of Promoted: only file requests are promoted.
PromotedFilesOnly(s) == FilesPromoted(s)

Promoted(s) == [s EXCEPT !.rq = PromoteRequests(@, Connected(s))]

Pending(s, i, files) ==
    {r \in DOMAIN s.rq : s.rq[r].inst = i /\ Active(s.rq[r]) /\ (IsFiles(s.rq[r]) = files)}

NewRow(s, op, seq) ==
    [state |-> "QUEUED", target |-> op.target, inst |-> op.i, ident |-> s.inst[op.i].ident,
     seq |-> seq, mode |-> "ticket", left |-> QueueMs, reconnect |-> NoDeadline,
     fence |-> 0, base |-> 0, task |-> "none", taskLeft |-> 0]

With(rq, r, row) == [q \in DOMAIN rq \cup {r} |-> IF q = r THEN row ELSE rq[q]]

\* The requests a new instance of identity d may take over: the oldest one moves. When they
\* were made is left out; between requests made at once the number decides.
Rebindable(s, d) ==
    {r \in DOMAIN s.rq : /\ s.rq[r].ident = d /\ ~IsFiles(s.rq[r])
                         /\ s.rq[r].state = "QUEUED" /\ s.rq[r].reconnect > 0}

Rebound(s, i, d) ==
    LET oldest == {r \in Rebindable(s, d) :
                     \A q \in Rebindable(s, d) : s.rq[r].seq <= s.rq[q].seq} IN
    IF oldest = {} THEN s
    ELSE [s EXCEPT !.rq[CHOOSE r \in oldest : TRUE] = [@ EXCEPT !.inst = i, !.reconnect = NoDeadline]]

Live(s, d) == {i \in Instances : s.inst[i].active /\ s.inst[i].ident = d}

\* Whether the operation goes ahead on the tables it sees.
Accepts(s, op) ==
    CASE op.kind = "open" -> ~s.inst[op.i].opened /\ Live(s, op.d) = {}
      [] op.kind = "disconnect" -> s.inst[op.i].active
      [] op.kind = "requestResourceTurn" ->
            /\ s.inst[op.i].active /\ op.r \notin DOMAIN s.rq
            /\ Pending(s, op.i, FALSE) = {} /\ s.res[op.target].seq < MaxSequence
      [] op.kind = "requestFileTurn" ->
            /\ s.inst[op.i].active /\ op.r \notin DOMAIN s.rq
            /\ Pending(s, op.i, TRUE) = {} /\ s.fileSeq < MaxSequence
      [] op.kind = "claim" ->
            /\ op.r \in DOMAIN s.rq /\ s.rq[op.r].inst = op.i
            /\ s.inst[op.i].active /\ s.rq[op.r].state = "OFFERED"
      [] op.kind = "release" ->
            /\ op.r \in DOMAIN s.rq /\ s.rq[op.r].inst = op.i
            /\ s.inst[op.i].active /\ s.rq[op.r].state = "CLAIMED"
      [] op.kind = "sweep" -> TRUE

\* The queue number of a resource, in the resource's own row.
TakeNumber(s, k) == [s EXCEPT !.res[k].seq = @ + 1]

\* The tables the operation leaves; a sweep lets `op.lapsed` expire.
Effect(s, op) ==
    CASE op.kind = "open" ->
            Promoted(Rebound([s EXCEPT !.inst[op.i] = [active |-> TRUE, opened |-> TRUE,
                                                       ident |-> op.d]], op.i, op.d))
      [] op.kind = "disconnect" ->
            Promoted([s EXCEPT !.inst[op.i].active = FALSE,
                               !.rq = DetachAll(@, {op.i}, op.clean, {})])
      [] op.kind = "requestResourceTurn" ->
            LET row == NewRow(s, op, s.res[op.target].seq + 1) IN
            Promoted([TakeNumber(s, op.target) EXCEPT !.rq = With(@, op.r, row)])
      [] op.kind = "requestFileTurn" ->
            FilesPromoted([s EXCEPT !.fileSeq = @ + 1,
                                    !.rq = With(@, op.r, NewRow(s, op, s.fileSeq + 1))])
      [] op.kind = "claim" ->
            IF IsFiles(s.rq[op.r])
            THEN [s EXCEPT !.rq[op.r].state = "CLAIMED"]
            ELSE [s EXCEPT !.rq[op.r].state = "CLAIMED",
                           !.res[s.rq[op.r].target].fence = @ + 1]
      [] op.kind = "release" ->
            Promoted([s EXCEPT !.rq[op.r] = Finish(@, "RELEASED")])
      [] op.kind = "sweep" ->
            Promoted([s EXCEPT !.rq = [r \in DOMAIN @ |->
                IF r \in op.lapsed /\ @[r].state \in {"QUEUED", "OFFERED"}
                THEN Finish(@[r], "EXPIRED") ELSE @[r]]])

-----------------------------------------------------------------------------
(* The rows a transaction writes. *)

RequestsChanged(s, e) == {r \in DOMAIN e.rq : r \notin DOMAIN s.rq \/ s.rq[r] # e.rq[r]}

\* Mutation of SharedRows: neither the guard of file sets nor their sequence is a row.
SharedRowsNone(s, e) == {}

\* One row is written by every transaction that changes a file request, another by
\* every one that makes one.
SharedRows(s, e) ==
    (IF \E r \in RequestsChanged(s, e) : IsFiles(e.rq[r]) THEN {"fileGuard"} ELSE {})
    \cup (IF s.fileSeq # e.fileSeq THEN {"fileQueueSequence"} ELSE {})

\* flush(): what differs from what was read, tagged with its table.
Written(s, e) ==
    {<<"request", r>> : r \in RequestsChanged(s, e)}
    \cup {<<"instance", i>> : i \in {j \in Instances : s.inst[j] # e.inst[j]}}
    \cup {<<"resource", k>> : k \in {c \in ContentTargets : s.res[c] # e.res[c]}}
    \cup {<<"meta", x>> : x \in SharedRows(s, e)}

\* The committed tables with the rows of e in `rows` in their place.
Merged(e, rows) ==
    [rq |-> [r \in DOMAIN db.rq \cup {q \in DOMAIN e.rq : <<"request", q>> \in rows} |->
               IF <<"request", r>> \in rows THEN e.rq[r] ELSE db.rq[r]],
     inst |-> [i \in Instances |-> IF <<"instance", i>> \in rows THEN e.inst[i] ELSE db.inst[i]],
     res |-> [k \in ContentTargets |-> IF <<"resource", k>> \in rows THEN e.res[k] ELSE db.res[k]],
     fileSeq |-> IF <<"meta", "fileQueueSequence">> \in rows THEN e.fileSeq ELSE db.fileSeq]

\* Mutation of UniqueIndexes: the schema has none.
UniqueIndexesDropped(s) == TRUE

\* one_content_request_per_instance and one_file_request_per_instance
UniqueIndexes(s) ==
    \A i \in Instances, files \in BOOLEAN : Cardinality(Pending(s, i, files)) <= 1

-----------------------------------------------------------------------------
Ops ==
    [kind : {"open"}, i : Instances, d : Identities]
    \cup [kind : {"disconnect"}, i : Instances, clean : BOOLEAN]
    \cup [kind : {"requestResourceTurn"}, i : Instances, r : Requests, target : ContentTargets]
    \cup [kind : {"requestFileTurn"}, i : Instances, r : Requests, target : FileTargets]
    \cup [kind : {"claim", "release"}, i : Instances, r : Requests]

\* One deadline passes at a time.
Sweeps == [kind : {"sweep"}, lapsed : {{}} \cup {{r} : r \in Requests}]

\* BEGIN CONCURRENT and the callback: what it does follows from its snapshot.
Begin(t, op) ==
    /\ tx[t] = Idle /\ Accepts(db, op)
    /\ tx' = [tx EXCEPT ![t] = [op |-> op, seen |-> db, stale |-> {}]]
    /\ UNCHANGED db

\* Two ids are never the same: a request another transaction is making is not it.
FreshId(op) ==
    op.kind \in {"requestResourceTurn", "requestFileTurn"} =>
        \A t \in Transactions : tx[t].op.kind \in {"requestResourceTurn", "requestFileTurn"} =>
            tx[t].op.r # op.r

\* COMMIT: refused when a row it writes was written by another since it began; a
\* refused transaction may begin again on what is there by then.
Commit(t) ==
    /\ tx[t] # Idle
    /\ \E e \in {Effect(tx[t].seen, tx[t].op)} :
       \E rows \in {Written(tx[t].seen, e)} :
       \E merged \in {Merged(e, rows)} :
          IF rows \cap tx[t].stale = {} /\ UniqueIndexes(merged)
          THEN /\ db' = merged
               /\ tx' = [u \in Transactions |->
                           IF u = t \/ tx[u] = Idle THEN Idle
                           ELSE [tx[u] EXCEPT !.stale = @ \cup rows]]
          ELSE tx' = [tx EXCEPT ![t] = Idle] /\ UNCHANGED db

Next ==
    \/ \E t \in Clients, op \in Ops : FreshId(op) /\ Begin(t, op)
    \/ \E t \in Sweepers, op \in Sweeps : Begin(t, op)
    \/ \E t \in Transactions : Commit(t)

Spec == Init /\ [][Next]_vars

-----------------------------------------------------------------------------
(* Properties. *)

\* No two requests hold, or are offered, what overlaps, although transactions that
\* grant run side by side and none reads what another writes: the rows they share
\* (the resource, the guard of file sets, the request itself) make them conflict.
ExclusiveTurns ==
    \A p, q \in DOMAIN db.rq :
        p # q /\ Reserved(db.rq[p]) /\ Reserved(db.rq[q]) => ~Overlap(db.rq[p], db.rq[q])

\* An instance that makes two requests at once ends up with one of each kind.
OneRequestPerInstance ==
    \A i \in Instances, files \in BOOLEAN : Cardinality(Pending(db, i, files)) <= 1

\* Transactions that do not see each other grant and queue as if one came after the other.
GrantsAreSound == ExclusiveTurns /\ OneRequestPerInstance

\* A free target can be left with a queue behind it, by a release and a request that did
\* not see each other; a sweep that sees them both hands it on, whatever lies between.
SweepsCatchUp ==
    [][\A t \in Transactions :
         tx[t].op.kind = "sweep" /\ tx[t].stale = {} /\ Commit(t)
            => \A r \in DOMAIN db'.rq : ~Promotable(db'.rq, Connected(db'), r)]_vars

\* One identity has one live instance, unless its attachments share a host session:
\* open() asserts that there is none before it makes one.
OneInstancePerName == \A d \in Identities : Cardinality(Live(db, d)) <= 1

\* A claimed file lock ends when its session disconnects.
FileLocksEndWithSession ==
    \A r \in DOMAIN db.rq :
        IsFiles(db.rq[r]) /\ db.rq[r].state = "CLAIMED" => db.inst[db.rq[r].inst].active
=============================================================================
