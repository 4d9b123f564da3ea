-------------------------------- MODULE Posts --------------------------------
(***************************************************************************)
(* Who is told about a message: the recipients that commitTurn picks for   *)
(* an appendMessage and the rows of notifications that finalize writes     *)
(* (src/src/service.ts). A commit is one transaction: it picks and writes  *)
(* by its snapshot, and starts over when a row it writes was written       *)
(* since. Meanwhile agents come and go, follow and unfollow, acknowledge,  *)
(* and messages are committed to other threads.                            *)
(*                                                                         *)
(* Of activity in a thread an agent keeps one row, about the latest. The   *)
(* batches in which rows are handed out are Inbox's. Turns has the turns;  *)
(* here a thread has one commit under way.                                 *)
(***************************************************************************)
EXTENDS Naturals, FiniteSets

CONSTANTS
    Members,     \* the identities of a project
    Topics,      \* its threads
    MaxPosts,    \* bound on the messages
    MaxMoves     \* bound on the agents' comings, goings and follows

VARIABLES
    around,      \* who is online: a live instance that was heard of lately
    follows,     \* threadFollows: pairs of an identity and a thread
    notices,     \* notifications
    post,        \* the commit under way in each thread
    posts,       \* the number of messages committed; their ids
    mustKnow,    \* who had to be told about what: [of, topic, event, why]
    moves
postVars == <<around, follows, notices, post, posts, mustKnow, moves>>

NoPost == [at |-> "none"]
Activity == {"thread_activity"}

PostsInit ==
    /\ around = Members
    /\ follows = {}
    /\ notices = {}
    /\ post = [t \in Topics |-> NoPost]
    /\ posts = 0
    /\ mustKnow = {}
    /\ moves = 0

-----------------------------------------------------------------------------
(* Agents. *)

Moves == moves < MaxMoves /\ moves' = moves + 1

ComesOrGoes(i) ==
    /\ Moves
    /\ around' = IF i \in around THEN around \ {i} ELSE around \cup {i}
    /\ UNCHANGED <<follows, notices, post, posts, mustKnow>>

FollowThread(i, t) ==
    /\ Moves /\ i \in around
    /\ follows' = IF <<i, t>> \in follows THEN follows \ {<<i, t>>} ELSE follows \cup {<<i, t>>}
    /\ UNCHANGED <<around, notices, post, posts, mustKnow>>

\* The agent acknowledges what it was handed: the row goes if it is about that event still,
\* and whatever came before in the thread it has read with it.
AcknowledgeNotice(n) ==
    /\ n.of \in around
    /\ notices' = notices \ {n}
    /\ mustKnow' = {m \in mustKnow :
          \/ m.of # n.of \/ m.topic # n.topic \/ m.event > n.event
          \/ m.event < n.event /\ (m.why # Activity \/ n.reasons # Activity)}
    /\ UNCHANGED <<around, follows, post, posts, moves>>

-----------------------------------------------------------------------------
(* A commit. *)

\* Mutation of Reasons: only those who follow are told.
ReasonsOfFollowers(p, i) ==
    (IF <<i, p.topic>> \in p.follows /\ i \in p.around THEN {"followed_message"} ELSE {})
    \cup (IF i \in p.mentions.agents THEN {"direct_mention"} ELSE {})

\* Whoever follows and is online; whoever is named, also when away; with @here and @global
\* more of those online; and everybody else who is online, as activity.
Reasons(p, i) ==
    LET online == i \in p.around
        follower == online /\ <<i, p.topic>> \in p.follows
        named ==
            (IF follower THEN {"followed_message"} ELSE {})
            \cup (IF i \in p.mentions.agents THEN {"direct_mention"} ELSE {})
            \cup (IF p.mentions.here /\ follower THEN {"here"} ELSE {})
            \cup (IF p.mentions.global /\ online THEN {"global"} ELSE {})
    IN IF online /\ named = {} THEN Activity ELSE named

Recipients(p) == {i \in Members \ {p.author} : Reasons(p, i) # {}}

\* Mutation of Replaces: any row of the thread is taken over.
ReplacesAny(p, i, n) == n.of = i /\ n.topic = p.topic /\ Reasons(p, i) = Activity

\* Activity takes over the row of the activity before it.
Replaces(p, i, n) ==
    n.of = i /\ n.topic = p.topic /\ Reasons(p, i) = Activity /\ n.reasons = Activity

\* No row that the commit takes over was written since its snapshot.
NoConflict(p) == \A i \in Members : \A n \in p.notices : Replaces(p, i, n) => n \in notices

Mentioned ==
    {m \in [agents : SUBSET Members, here : BOOLEAN, global : BOOLEAN] :
        /\ Cardinality(m.agents) <= 1
        /\ m.global => m.agents = {} /\ ~m.here}

\* The author holds the thread's turn, which made it a follower.
BeginPost(t, author, mentions) ==
    /\ post[t] = NoPost /\ author \in around
    /\ Cardinality({u \in Topics : post[u] # NoPost}) + posts < MaxPosts
    /\ follows' = follows \cup {<<author, t>>}
    /\ post' = [post EXCEPT ![t] =
          [at |-> "open", topic |-> t, author |-> author, mentions |-> mentions,
           around |-> around, follows |-> follows', notices |-> notices]]
    /\ UNCHANGED <<around, notices, posts, mustKnow, moves>>

CommitPost(t) ==
    /\ post[t] # NoPost /\ NoConflict(post[t])
    /\ LET p == post[t]
           event == posts + 1
           old(i) == {n \in p.notices : Replaces(p, i, n)}
           new == {[id |-> IF old(i) = {} THEN <<i, event>> ELSE (CHOOSE n \in old(i) : TRUE).id,
                    of |-> i, topic |-> t, event |-> event, reasons |-> Reasons(p, i)] :
                   i \in Recipients(p)}
       IN /\ notices' = {n \in notices : \A m \in new : m.id # n.id} \cup new
          /\ mustKnow' = mustKnow \cup
                {[of |-> i, topic |-> t, event |-> event,
                  why |-> IF i \in p.mentions.agents \/ p.mentions.global
                                \/ <<i, t>> \in p.follows THEN {"named"} ELSE Activity] :
                 i \in (p.around \cup p.mentions.agents) \ {p.author}}
    /\ posts' = posts + 1
    /\ post' = [post EXCEPT ![t] = NoPost]
    /\ UNCHANGED <<around, follows, moves>>

\* A conflict: the transaction starts over, on a new snapshot.
RetryPost(t) ==
    /\ post[t] # NoPost /\ ~NoConflict(post[t])
    /\ post' = [post EXCEPT ![t] =
          [@ EXCEPT !.around = around, !.follows = follows, !.notices = notices]]
    /\ UNCHANGED <<around, follows, notices, posts, mustKnow, moves>>

PostsNext ==
    \/ \E i \in Members : ComesOrGoes(i) \/ \E t \in Topics : FollowThread(i, t)
    \/ \E n \in notices : AcknowledgeNotice(n)
    \/ \E t \in Topics :
          \/ \E author \in Members, mentions \in Mentioned :
                author \notin mentions.agents /\ BeginPost(t, author, mentions)
          \/ CommitPost(t) \/ RetryPost(t)

PostsSpec == PostsInit /\ [][PostsNext]_postVars

-----------------------------------------------------------------------------
(* Properties. *)

\* Who had to be told of a message and has not acknowledged it has a row about it; or, when it
\* was none of the agent's concern, a row about later activity in the thread. Rows about what
\* is the agent's concern are not taken over, and activity of a thread is one row.
PostsReach ==
    /\ \A m \in mustKnow : \E n \in notices :
          /\ n.of = m.of /\ n.topic = m.topic
          /\ \/ n.event = m.event
             \/ m.why = Activity /\ n.reasons = Activity /\ n.event > m.event
    /\ \A m, n \in notices :
          m.of = n.of /\ m.topic = n.topic /\ m.reasons = Activity /\ n.reasons = Activity => m = n
=============================================================================
