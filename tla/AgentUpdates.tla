----------------------------- MODULE AgentUpdates -----------------------------
(***************************************************************************)
(* getUpdates (src/src/service/updates.ts): an agent is sent the project's *)
(* metadata once, and then what changed since the cursor it holds. The     *)
(* server keeps the last two checkpoints of a session and the one whose    *)
(* pages are under way; a head of the activity log that has not moved      *)
(* spares it the reading. Replies come in pages (src/src/bounded.ts) that  *)
(* can be read again. Replies may be lost, calls of one agent overlap, and *)
(* the daemon restarts.                                                    *)
(*                                                                         *)
(* The agent is one session; it merges all pages of a reply into what it   *)
(* held when it asked, and then adopts the reply's cursor, as              *)
(* docs/coordination-efficiency.md tells it.                               *)
(***************************************************************************)
EXTENDS Naturals, Sequences, SequencesExt

CONSTANTS
    Items,        \* keys of the metadata that other agents' commits change
    Silent,       \* those of them whose change records no activity: the follows
    Reads,        \* calls of the agent in flight at one time
    MaxChanges,   \* bound on the commits
    MaxTokens     \* bound on the cursors given out
Absent == "absent"
Context == "context"   \* the key of pending turns and notifications, read at each call

VARIABLES
    world,        \* the committed metadata, by key
    unpublished,  \* a commit's events are in the outbox
    journal,      \* the head of the activity log
    checkpoints,  \* the last two completed, oldest first
    inflight,     \* a set of at most one: the checkpoint whose pages are under way
    held,         \* the agent: the cursor it adopted and the metadata it merged
    reading,      \* each call of the agent, with the pages captured for it
    changes, tokens
updateVars ==
    <<world, unpublished, journal, checkpoints, inflight, held, reading, changes, tokens>>

Entries == Items \cup {Context}
Values(k) == IF k = Context THEN {"quiet", "pending"} ELSE {Absent, "there"}
NoRead == [at |-> "idle"]
Nothing == [k \in Entries |-> Absent]

UpdatesInit ==
    /\ world = [k \in Entries |-> IF k = Context THEN "quiet" ELSE Absent]
    /\ unpublished = FALSE /\ journal = 0
    /\ checkpoints = <<>> /\ inflight = {}
    /\ held = [cursor |-> 0, view |-> Nothing]
    /\ reading = [r \in Reads |-> NoRead]
    /\ changes = 0 /\ tokens = 0

-----------------------------------------------------------------------------
(* The project. *)

\* A commit changes one entry. The context changes with notifications and turns.
Change(k, value) ==
    /\ changes < MaxChanges /\ changes' = changes + 1
    /\ value \in Values(k) \ {world[k]}
    /\ world' = [world EXCEPT ![k] = value]
    /\ unpublished' = (unpublished \/ k \notin Silent \cup {Context})
    /\ UNCHANGED <<journal, checkpoints, inflight, held, reading, tokens>>

\* publishActivity numbers what is in the outbox; ActivityLog has the details.
PublishNews ==
    /\ unpublished /\ unpublished' = FALSE
    /\ journal' = journal + 1
    /\ UNCHANGED <<world, checkpoints, inflight, held, reading, changes, tokens>>

-----------------------------------------------------------------------------
(* The server. *)

\* complete: the reply with the cursor of the checkpoint under way makes it one of the
\* last two. Later it may be given again.
Complete(pending, cursor) ==
    LET done == {c \in pending : c.token = cursor} IN
    /\ checkpoints' = IF done = {} THEN checkpoints
                      ELSE LET kept == checkpoints \o SetToSeq(done) IN
                           SubSeq(kept, IF Len(kept) > 2 THEN Len(kept) - 1 ELSE 1, Len(kept))
    /\ inflight' = pending \ done

\* Mutation of Known: the agent is taken to have what it was sent last.
KnownAsSent(cursor) == IF checkpoints = <<>> THEN {} ELSE {Last(checkpoints)}

Known(cursor) == {c \in ToSet(checkpoints) : c.token = cursor}

\* The agent calls and the read transaction begins; what it sees is of one moment. A
\* checkpoint the log no longer reaches back to is no baseline either.
ReadBegins(r) ==
    /\ reading[r] = NoRead
    /\ LET previous == Known(held.cursor) IN
       \E baseline \in {previous} \cup (IF \E c \in previous : c.head < journal THEN {{}} ELSE {}) :
          reading' = [reading EXCEPT ![r] =
             [at |-> "reading", view |-> held.view, baseline |-> baseline,
              seen |-> world, head |-> journal, settled |-> ~unpublished]]
    /\ UNCHANGED <<world, unpublished, journal, checkpoints, inflight, held, changes, tokens>>

\* The metadata of the reply: at a head that has not moved, the baseline's but for the context.
Metadata(r) ==
    LET seen == reading[r].seen IN
    IF \E c \in reading[r].baseline : c.head = reading[r].head
    THEN [k \in Entries |-> IF k = Context THEN seen[k]
                         ELSE (CHOOSE c \in reading[r].baseline : TRUE).metadata[k]]
    ELSE seen

\* What differs from the baseline; without one, everything there is.
Rows(r) ==
    LET before == IF reading[r].baseline = {} THEN Nothing
                  ELSE (CHOOSE c \in reading[r].baseline : TRUE).metadata
    IN {<<k, Metadata(r)[k]>> : k \in {k \in Entries : Metadata(r)[k] # before[k]}}

\* Mutation of Checkpointed: the head is asked for when the reply is ready.
CheckpointedLate(r) == [token |-> tokens + 1, head |-> journal, metadata |-> Metadata(r)]

Checkpointed(r) == [token |-> tokens + 1, head |-> reading[r].head, metadata |-> Metadata(r)]

\* The reply is captured and its first page sent; its last page carries the cursor.
ReadEnds(r) ==
    /\ reading[r].at = "reading"
    /\ IF Rows(r) = {}
       THEN /\ reading' = [reading EXCEPT ![r] = NoRead]
            /\ UNCHANGED <<checkpoints, inflight, tokens>>
       ELSE /\ tokens < MaxTokens /\ tokens' = tokens + 1
            /\ \E first \in (SUBSET Rows(r)) \ {{}} :
                  /\ Complete({Checkpointed(r)}, IF first = Rows(r) THEN tokens + 1 ELSE 0)
                  /\ reading' = [reading EXCEPT ![r] =
                        [at |-> "replied first", rows |-> first, rest |-> Rows(r) \ first,
                         view |-> IF @.baseline = {} THEN Nothing ELSE @.view,
                         token |-> tokens + 1]]
    /\ UNCHANGED <<world, unpublished, journal, held, changes>>

\* A call for the last page. It can be read again, until it is pruned.
ReadPage(r) ==
    /\ reading[r].at = "paging"
    /\ Complete(inflight, reading[r].token)
    /\ reading' = [reading EXCEPT ![r].at = "replied"]
    /\ UNCHANGED <<world, unpublished, journal, held, changes, tokens>>

\* The daemon restarts: what AgentUpdates keeps is in its memory.
ServerRestarts ==
    /\ checkpoints' = <<>> /\ inflight' = {}
    /\ reading' = [r \in Reads |-> NoRead]
    /\ UNCHANGED <<world, unpublished, journal, held, changes, tokens>>

-----------------------------------------------------------------------------
(* The agent. *)

Merged(view, rows) ==
    [k \in Entries |-> IF \E row \in rows : row[1] = k
                    THEN (CHOOSE row \in rows : row[1] = k)[2] ELSE view[k]]

\* A page arrives: the agent asks for the last, or has it and adopts the cursor.
TakeReply(r) ==
    /\ reading[r].at \in {"replied", "replied first"}
    /\ LET view == Merged(reading[r].view, reading[r].rows) IN
       IF reading[r].rest # {}
       THEN /\ reading' = [reading EXCEPT ![r] =
                  [at |-> "paging", rows |-> @.rest, rest |-> {}, view |-> view, token |-> @.token]]
            /\ UNCHANGED held
       ELSE /\ reading' = [reading EXCEPT ![r] = NoRead]
            /\ held' = [cursor |-> reading[r].token, view |-> view]
    /\ UNCHANGED <<world, unpublished, journal, checkpoints, inflight, changes, tokens>>

\* The last page is lost, and the agent asks for it again.
AskAgain(r) ==
    /\ reading[r].at = "replied"
    /\ reading' = [reading EXCEPT ![r].at = "paging"]
    /\ UNCHANGED <<world, unpublished, journal, checkpoints, inflight, held, changes, tokens>>

\* The agent gives a read up: a reply was lost, or its page was pruned.
GiveUpRead(r) ==
    /\ reading[r].at \in {"replied", "replied first", "paging"}
    /\ reading' = [reading EXCEPT ![r] = NoRead]
    /\ UNCHANGED <<world, unpublished, journal, checkpoints, inflight, held, changes, tokens>>

UpdatesNext ==
    \/ PublishNews \/ ServerRestarts
    \/ \E k \in Entries : \E value \in Values(k) : Change(k, value)
    \/ \E r \in Reads :
          \/ ReadBegins(r) \/ ReadEnds(r) \/ ReadPage(r)
          \/ TakeReply(r) \/ AskAgain(r) \/ GiveUpRead(r)

UpdatesSpec == UpdatesInit /\ [][UpdatesNext]_updateVars

-----------------------------------------------------------------------------
(* Properties. *)

\* What the agent merged is what the server remembers of its cursor, so that the next
\* delta fits, whatever was lost, overlapped or forgotten.
ViewsMatchCheckpoints ==
    \A c \in ToSet(checkpoints) : c.token = held.cursor => c.metadata = held.view

\* A read that finds everything published tells what is there: "unchanged" is not said,
\* and no old value carried on, when a commit with activity happened since.
RepliesAreFresh ==
    \A r \in Reads : reading[r].at = "reading" /\ reading[r].settled =>
        \A k \in Entries \ Silent : Metadata(r)[k] = reading[r].seen[k]

\* An agent that merges what it is told is up to date, although it is told of changes only.
AgentsKeepUp == ViewsMatchCheckpoints /\ RepliesAreFresh

\* The same of the follows, whose changes record no activity.
FollowsAreFresh ==
    \A r \in Reads : reading[r].at = "reading" /\ reading[r].settled =>
        Metadata(r) = reading[r].seen
=============================================================================
