----------------------------- MODULE ThreadContent ----------------------------
(***************************************************************************)
(* A thread in the content store (src/src/storage/content.ts) and the      *)
(* reads of an agent that takes several pages of it (threads in            *)
(* src/src/service/reads.ts). Messages are never rewritten: a retraction   *)
(* is a row that holds from its revision on. Every page of a read is a     *)
(* transaction of its own, and commits come between them.                  *)
(*                                                                         *)
(* Sequences and revisions are decimal strings that the queries compare by *)
(* length and then by text, which is the order of the numbers here. Bodies *)
(* are left out; titles and descriptions stand behind the thread's state.  *)
(***************************************************************************)
EXTENDS Naturals, FiniteSetsExt

CONSTANTS
    Editors,       \* commits under way at one time
    Readers,       \* reads, each with what it got
    PageSize,      \* messages to a page: 20
    MaxRevision    \* bound on the commits
ASSUME PagesAssumption == PageSize \in Nat \ {0} /\ MaxRevision \in Nat

VARIABLES
    thread,       \* threadContent: the current row
    revisions,    \* revisions: by revision, the row as it was and what was done
    visibility,   \* messageVisibility
    editing,      \* each commit under way: idle, or what it prepared
    pageRead      \* each read: what it asks for, what it has
threadVars == <<thread, revisions, visibility, editing, pageRead>>

NoEdit == [at |-> "idle"]
NoPages == [at |-> "idle"]

\* createThread: an empty active thread, of revision 1.
ThreadInit ==
    /\ thread = [revision |-> 1, state |-> "active", head |-> 0]
    /\ revisions = {[revision |-> 1, data |-> thread, mutation |-> [kind |-> "createThread"]]}
    /\ visibility = {}
    /\ editing = [e \in Editors |-> NoEdit]
    /\ pageRead = [r \in Readers |-> NoPages]

-----------------------------------------------------------------------------
(* Queries. *)

RowAt(revision) == CHOOSE row \in revisions : row.revision = revision

\* The latest row about the message that the revision has seen; none means visible.
Retracted(message, revision) ==
    LET seen == {v \in visibility : v.message = message /\ v.revision <= revision} IN
    \E v \in seen : ~v.visible /\ \A u \in seen : u.revision <= v.revision

Shown(message, revision) == <<message, IF Retracted(message, revision) THEN "retracted" ELSE "body">>

\* Messages of snapshot(): those the revision has.
InSnapshot(read) == 1..RowAt(read.revision).data.head

\* Mutation of InDelta: only what was appended since.
InDeltaAppended(read) == (RowAt(read.from).data.head + 1)..RowAt(read.revision).data.head

\* Messages of threadDelta(): those appended since, and those whose visibility changed.
InDelta(read) ==
    {m \in 1..RowAt(read.revision).data.head :
        \/ m > RowAt(read.from).data.head
        \/ \E v \in visibility :
              v.message = m /\ v.revision > read.from /\ v.revision <= read.revision}

-----------------------------------------------------------------------------
(* Commits. *)

Mutations ==
    [kind : {"appendMessage", "archiveThread", "activateThread", "deleteThread"}]
    \cup [kind : {"retractMessage", "reinstateMessage"}, message : 1..MaxRevision]

\* What prepareMutation and commitTurn ask of the row they read.
Permitted(row, mutation) ==
    CASE mutation.kind = "appendMessage" -> row.state = "active"
      [] mutation.kind = "archiveThread" -> row.state = "active"
      [] mutation.kind = "activateThread" -> row.state # "active"
      [] mutation.kind = "deleteThread" -> row.state # "deleted"
      [] mutation.kind = "retractMessage" ->
            mutation.message <= row.head /\ ~Retracted(mutation.message, row.revision)
      [] mutation.kind = "reinstateMessage" ->
            mutation.message <= row.head /\ Retracted(mutation.message, row.revision)

NextState ==
    [archiveThread |-> "archived", activateThread |-> "active", deleteThread |-> "deleted"]

\* prepareMutation.
PreparedRow(row, mutation) ==
    [revision |-> row.revision + 1,
     state |-> IF mutation.kind \in DOMAIN NextState THEN NextState[mutation.kind] ELSE row.state,
     head |-> IF mutation.kind = "appendMessage" THEN row.head + 1 ELSE row.head]

PrepareEdit(e, mutation) ==
    /\ editing[e] = NoEdit /\ thread.revision < MaxRevision
    /\ Permitted(thread, mutation)
    /\ editing' = [editing EXCEPT ![e] =
          [at |-> "prepared", row |-> PreparedRow(thread, mutation), mutation |-> mutation]]
    /\ UNCHANGED <<thread, revisions, visibility, pageRead>>

\* Mutation of Unchanged: the row is written whatever its revision, and so is its history.
UnchangedAlways(e) == TRUE

\* The row is updated where it still has the revision the edit was prepared on, and the
\* table of revisions has each of them once.
Unchanged(e) ==
    /\ thread.revision = editing[e].row.revision - 1
    /\ \A row \in revisions : row.revision # editing[e].row.revision

WriteEdit(e) ==
    /\ editing[e].at = "prepared"
    /\ IF Unchanged(e)
       THEN /\ thread' = editing[e].row
            /\ revisions' = revisions \cup
                  {[revision |-> editing[e].row.revision, data |-> editing[e].row,
                    mutation |-> editing[e].mutation]}
            /\ visibility' = visibility \cup
                  {[message |-> m.message, revision |-> editing[e].row.revision,
                    visible |-> m.kind = "reinstateMessage"] :
                   m \in {n \in {editing[e].mutation} : "message" \in DOMAIN n}}
       ELSE UNCHANGED <<thread, revisions, visibility>>
    /\ editing' = [editing EXCEPT ![e] = NoEdit]
    /\ UNCHANGED pageRead

\* The transaction fails and is rolled back.
AbandonEdit(e) ==
    /\ editing[e].at = "prepared"
    /\ editing' = [editing EXCEPT ![e] = NoEdit]
    /\ UNCHANGED <<thread, revisions, visibility, pageRead>>

-----------------------------------------------------------------------------
(* Reads. *)

\* Mutation of Pinned: a later page is of the revision it finds.
PinnedNot(r) == [pageRead[r] EXCEPT !.revision = thread.revision]

\* The cursor of the next page names the revision of the first.
Pinned(r) == pageRead[r]

\* An agent starts a read of the current revision or of one it names (its turn's base).
StartRead(r, view, from, revision) ==
    /\ pageRead[r] = NoPages
    /\ from <= revision /\ revision <= thread.revision
    /\ view = "page" => from = 1
    /\ pageRead' = [pageRead EXCEPT ![r] =
          [at |-> "reading", view |-> view, from |-> from, revision |-> revision,
           before |-> RowAt(revision).data.head + 1, got |-> {}]]
    /\ UNCHANGED <<thread, revisions, visibility, editing>>

\* The newest messages before the cursor, and a cursor if there are more.
ReadThread(r) ==
    /\ pageRead[r].at = "reading"
    /\ LET read == Pinned(r)
           wanted == IF read.view = "page" THEN InSnapshot(read) ELSE InDelta(read)
           left == {m \in wanted : m < read.before}
           page == {m \in left : Cardinality({n \in left : n > m}) < PageSize}
       IN pageRead' = [pageRead EXCEPT ![r] =
             [read EXCEPT !.at = IF page = left THEN "done" ELSE "reading",
                          !.before = IF page = left THEN 0 ELSE Min(page),
                          !.got = @ \cup {Shown(m, read.revision) : m \in page}]]
    /\ UNCHANGED <<thread, revisions, visibility, editing>>

VisibleAt(revision) ==
    {m \in 1..RowAt(revision).data.head : ~Retracted(m, revision)}

\* Mutation of Differences: what is there now and was appended since.
DifferencesAppended(from) ==
    LET after == VisibleAt(thread.revision)
        old == 1..RowAt(from).data.head
    IN {<<m, "body">> : m \in after \ old} \cup {<<m, "retracted">> : m \in old \ after}

\* Messages that one sees now and did not see then, and the reverse.
Differences(from) ==
    LET before == VisibleAt(from)
        after == VisibleAt(thread.revision)
    IN {<<m, "body">> : m \in after \ before} \cup {<<m, "retracted">> : m \in before \ after}

\* diffResource: both revisions are read in one transaction, and the later is the current one.
DiffThread(r, from) ==
    /\ pageRead[r] = NoPages
    /\ from <= thread.revision
    /\ pageRead' = [pageRead EXCEPT ![r] =
          [at |-> "done", view |-> "diff", from |-> from, revision |-> thread.revision,
           before |-> 0, got |-> Differences(from)]]
    /\ UNCHANGED <<thread, revisions, visibility, editing>>

ThreadNext ==
    \/ \E e \in Editors :
          WriteEdit(e) \/ AbandonEdit(e) \/ \E mutation \in Mutations : PrepareEdit(e, mutation)
    \/ \E r \in Readers :
          \/ ReadThread(r)
          \/ \E from \in 1..MaxRevision : DiffThread(r, from)
          \/ \E view \in {"page", "delta"}, from, revision \in 1..MaxRevision :
                StartRead(r, view, from, revision)

ThreadSpec == ThreadInit /\ [][ThreadNext]_threadVars

-----------------------------------------------------------------------------
(* Properties. *)

\* What the thread looked like at each revision, by what was done to it: the n-th append
\* makes message n.
Kinds(kind, revision) ==
    {row \in revisions : row.mutation.kind = kind /\ row.revision <= revision}
HiddenAt(revision) ==
    {m \in 1..MaxRevision :
        LET about == {row \in revisions : row.revision <= revision /\ "message" \in DOMAIN row.mutation
                                            /\ row.mutation.message = m}
        IN \E row \in about : row.mutation.kind = "retractMessage"
                              /\ \A other \in about : other.revision <= row.revision}
LooksAt(revision) ==
    [m \in 1..Cardinality(Kinds("appendMessage", revision)) |->
        IF m \in HiddenAt(revision) THEN "retracted" ELSE "body"]

\* A read of all pages shows the thread as it was at one revision, and a delta or a diff laid
\* over what the agent knew from an earlier one shows the same (the diff: what is visible),
\* whatever was committed between the pages.
ReadsShowOneRevision ==
    \A r \in Readers : pageRead[r].at = "done" =>
        LET read == pageRead[r]
            known == IF read.view = "page" THEN <<>> ELSE LooksAt(read.from)
            got == [m \in {g[1] : g \in read.got} |-> (CHOOSE g \in read.got : g[1] = m)[2]]
        IN /\ \A g, h \in read.got : g[1] = h[1] => g = h
           /\ LET all == [m \in DOMAIN known \cup DOMAIN got |->
                          IF m \in DOMAIN got THEN got[m] ELSE known[m]]
                  looks == LooksAt(read.revision)
              IN IF read.view = "diff"
                 THEN {m \in DOMAIN all : all[m] = "body"} = {m \in DOMAIN looks : looks[m] = "body"}
                 ELSE all = looks

\* No edit overwrites another it did not see: each revision is one edit of the one before.
NoEditIsLost ==
    \A row \in revisions : row.revision > 1 =>
        /\ \E before \in revisions : row.data = PreparedRow(before.data, row.mutation)
        /\ \A other \in revisions : other.revision = row.revision => other = row

\* Threads are whole: nobody's edit gets lost, and no read mixes what came before and after it.
ThreadsAreWhole == ReadsShowOneRevision /\ NoEditIsLost
=============================================================================
