--------------------------- MODULE DaemonOwnership ----------------------------
(***************************************************************************)
(* Who may run on a data directory: the daemon's start, maintenance and    *)
(* end (runDaemon of src/src/daemon.ts, src/src/maintenance.ts), the       *)
(* launchers that start it for adapters and the command line               *)
(* (ensureDaemon), and the reset that archives the directory               *)
(* (src/src/data-reset.ts). They share three things of the file system:    *)
(* the lifecycle lock beside the directory, the owner's lock and the       *)
(* socket in it. A lock is the kernel's and goes with its process          *)
(* (src/src/lock.ts); a socket's file stays behind.                        *)
(*                                                                         *)
(* Sessions, which make a daemon stay, and the draining of requests are in *)
(* Ipc and the store's end in TursoStore.                                  *)
(***************************************************************************)
EXTENDS Naturals, FiniteSets

CONSTANTS
    Daemons,       \* processes of `daemon run`
    Launchers,     \* calls of ensureDaemon
    MaxResets      \* bound on archived directories

VARIABLES
    daemon,     \* processes, by where they are
    ending,     \* why a daemon ends: nothing, requested (or early, before ready), failed
    sweeping,   \* daemons with a maintenance step under way
    owner,      \* who has daemon-owner.lock
    lifecycle,  \* who has the lifecycle lock
    socket,     \* whose socket's file is at the path
    record,     \* daemon-state.json: who wrote it last, and what
    launch,     \* the launchers, and the daemon each has spawned
    reset,      \* the command that archives the directory
    resets

daemonVars == <<daemon, ending, sweeping, record>>
fileVars == <<owner, lifecycle, socket>>
ownershipVars == <<daemonVars, fileVars, launch, reset, resets>>

Nobody == "nobody"
TheReset == "reset"
NoDaemon == [at |-> "idle"]
ASSUME DaemonsAssumption == Nobody \notin Daemons /\ TheReset \notin Daemons

OwnershipInit ==
    /\ daemon = [d \in Daemons |-> "unborn"]
    /\ ending = [d \in Daemons |-> "none"]
    /\ sweeping = {}
    /\ owner = Nobody /\ lifecycle = Nobody /\ socket = Nobody
    /\ record = [by |-> Nobody, event |-> "none"]
    /\ launch = [l \in Launchers |-> NoDaemon]
    /\ reset = "idle" /\ resets = 0

Records(d, what) == record' = [by |-> d, event |-> what]
Becomes(d, state) == daemon' = [daemon EXCEPT ![d] = state]
Serving(d) == daemon[d] \in {"listening", "serving"}
HasStorage(d) == daemon[d] \in {"owning", "starting", "closing"} \/ Serving(d)

-----------------------------------------------------------------------------
(* A daemon. *)

\* daemon run, by hand.
Run(d) ==
    /\ daemon[d] = "unborn"
    /\ Becomes(d, "born")
    /\ UNCHANGED <<ending, sweeping, record, fileVars, launch, reset, resets>>

\* exclusiveLock. Whoever does not get it leaves without a word: a launcher that asks whether
\* the lock is free has it for a moment.
Own(d) ==
    /\ daemon[d] = "born"
    /\ \/ /\ owner = Nobody
          /\ owner' = d
          /\ Becomes(d, "owning") /\ Records(d, "starting")
       \/ /\ owner # Nobody \/ \E l \in Launchers : launch[l].at = "waits"
          /\ Becomes(d, "gone") /\ UNCHANGED <<owner, record>>
    /\ UNCHANGED <<ending, sweeping, lifecycle, socket, launch, reset, resets>>

\* The socket a crash left behind goes.
ClearSocket(d) ==
    /\ daemon[d] = "owning"
    /\ Becomes(d, "starting")
    /\ socket' = Nobody
    /\ UNCHANGED <<ending, sweeping, record, owner, lifecycle, launch, reset, resets>>

\* Storage is open and the service initialized: listenRpc.
ServeSocket(d) ==
    /\ daemon[d] = "starting"
    /\ Becomes(d, "listening")
    /\ socket' = d
    /\ UNCHANGED <<ending, sweeping, record, owner, lifecycle, launch, reset, resets>>

\* The socket's mode is set, the start recorded, maintenance begins: though a stop that came
\* before, by the socket, stopped it.
BecomeReady(d) ==
    /\ \/ daemon[d] = "listening" /\ Becomes(d, "serving")
       \/ daemon[d] = "closing" /\ ending[d] = "early" /\ record # [by |-> d, event |-> "ready"]
          /\ UNCHANGED daemon
    /\ Records(d, "ready")
    /\ UNCHANGED <<ending, sweeping, fileVars, launch, reset, resets>>

\* Legacy data, a store that cannot be opened.
StartFails(d) ==
    /\ daemon[d] \in {"owning", "starting"}
    /\ Becomes(d, "closing") /\ Records(d, "failed")
    /\ ending' = [ending EXCEPT ![d] = "failed"]
    /\ UNCHANGED <<sweeping, fileVars, launch, reset, resets>>

\* stop, of which only the first call does anything: the server's close removes the socket.
Stop1(d, why) ==
    /\ Serving(d)
    /\ Becomes(d, "closing")
    /\ ending' = [ending EXCEPT ![d] = why]
    /\ socket' = Nobody

\* A request, a signal, or nothing to do for long.
StopAsked(d) ==
    /\ Stop1(d, IF daemon[d] = "listening" THEN "early" ELSE "requested")
    /\ UNCHANGED <<sweeping, record, owner, lifecycle, launch, reset, resets>>

\* Mutation of CloseDaemon: the lock is given up before the work is drained.
CloseDaemonUnlocked(d) ==
    /\ daemon[d] = "closing" /\ owner = d
    /\ owner' = Nobody
    /\ UNCHANGED <<daemon, ending, record, sweeping, lifecycle, socket, launch, reset, resets>>

\* Requests are drained, storage is closed, the end is recorded and the lock given up; or a
\* cleanup failed, which fatal tells after the lock is gone. So does a maintenance that began
\* on the way, when it finds the store closed.
CloseDaemon(d) ==
    /\ daemon[d] = "closing"
    /\ owner' = Nobody
    /\ \/ /\ ending[d] # "failed"
          /\ Becomes(d, IF ending[d] = "requested" THEN "gone" ELSE "exiting")
          /\ Records(d, "stopped") /\ UNCHANGED ending
       \/ /\ Becomes(d, "exiting")
          /\ ending' = [ending EXCEPT ![d] = "failed"] /\ UNCHANGED record
    /\ UNCHANGED <<sweeping, lifecycle, socket, launch, reset, resets>>

\* fatal, or the startup's failure.
Exit(d) ==
    /\ daemon[d] = "exiting"
    /\ Becomes(d, "gone") /\ Records(d, "failed")
    /\ UNCHANGED <<ending, sweeping, fileVars, launch, reset, resets>>

\* Killed: the locks go, the socket's file stays.
CrashDaemon(d) ==
    /\ HasStorage(d) \/ daemon[d] \in {"born", "exiting"}
    /\ Becomes(d, "gone")
    /\ ending' = [ending EXCEPT ![d] = "killed"]
    /\ sweeping' = sweeping \ {d}
    /\ owner' = IF owner = d THEN Nobody ELSE owner
    /\ UNCHANGED <<record, lifecycle, socket, launch, reset, resets>>

-----------------------------------------------------------------------------
(* Maintenance: one step at a time, armed again when it is through. *)

StepStarts(d) ==
    /\ daemon[d] = "serving" /\ d \notin sweeping
    /\ sweeping' = sweeping \cup {d}
    /\ UNCHANGED <<daemon, ending, record, fileVars, launch, reset, resets>>
\* It went well, or storage was busy and it is put off.
StepEnds(d) ==
    /\ d \in sweeping
    /\ sweeping' = sweeping \ {d}
    /\ UNCHANGED <<daemon, ending, record, fileVars, launch, reset, resets>>

\* Mutation of StepFails: also when the daemon has begun to stop.
StepFailsAlways(d) ==
    /\ d \in sweeping
    /\ sweeping' = sweeping \ {d}
    /\ Records(d, "failed")
    /\ IF daemon[d] = "serving" THEN Stop1(d, "failed") ELSE UNCHANGED <<daemon, ending, socket>>
    /\ UNCHANGED <<owner, lifecycle, launch, reset, resets>>

\* Any other error is fatal, unless maintenance was stopped meanwhile.
StepFails(d) ==
    /\ d \in sweeping
    /\ sweeping' = sweeping \ {d}
    /\ IF daemon[d] = "serving" THEN Records(d, "failed") /\ Stop1(d, "failed")
       ELSE UNCHANGED <<daemon, ending, socket, record>>
    /\ UNCHANGED <<owner, lifecycle, launch, reset, resets>>

-----------------------------------------------------------------------------
(* Launchers. *)

Answering == socket # Nobody /\ Serving(socket)
Goes(l, step) == launch' = [launch EXCEPT ![l] = [at |-> step]]
Lets(who) == lifecycle' = IF lifecycle = who THEN Nobody ELSE lifecycle

\* probe: somebody answers, and there is nothing to do. It is asked before each other step.
Finds(l) ==
    /\ launch[l].at \in {"idle", "outside", "inside", "awaits"} /\ Answering
    /\ Goes(l, "done") /\ Lets(l)
    /\ UNCHANGED <<daemonVars, owner, socket, reset, resets>>
Misses(l) ==
    /\ launch[l].at \in {"idle", "inside"} /\ ~Answering
    /\ Goes(l, IF launch[l].at = "idle" THEN "outside" ELSE "waits")
    /\ UNCHANGED <<daemonVars, fileVars, reset, resets>>
Enters(l) ==
    /\ launch[l].at = "outside" /\ lifecycle = Nobody
    /\ lifecycle' = l /\ Goes(l, "inside")
    /\ UNCHANGED <<daemonVars, owner, socket, reset, resets>>
\* The owner's lock was free for a moment: the child is spawned.
Spawns(l, d) ==
    /\ launch[l].at = "waits" /\ owner = Nobody /\ daemon[d] = "unborn"
    /\ Becomes(d, "born")
    /\ launch' = [launch EXCEPT ![l] = [at |-> "awaits", child |-> d]]
    /\ UNCHANGED <<ending, sweeping, record, fileVars, reset, resets>>
\* The child is gone, or thirty seconds are over.
GivesUpLaunch(l) ==
    /\ \/ launch[l].at \in {"outside", "waits"}
       \/ launch[l].at = "awaits" /\ ~Answering
    /\ Goes(l, "failed") /\ Lets(l)
    /\ UNCHANGED <<daemonVars, owner, socket, reset, resets>>

-----------------------------------------------------------------------------
(* data reset. *)

ResetEnters ==
    /\ reset = "idle" /\ resets < MaxResets /\ ~Answering /\ lifecycle = Nobody
    /\ lifecycle' = TheReset /\ reset' = "inside"
    /\ UNCHANGED <<daemonVars, owner, socket, launch, resets>>
\* The other locks; without them it gives up.
ResetOwns ==
    /\ reset = "inside"
    /\ \/ owner = Nobody /\ owner' = TheReset /\ reset' = "owning" /\ UNCHANGED lifecycle
       \/ owner # Nobody /\ reset' = "idle" /\ Lets(TheReset) /\ UNCHANGED owner
    /\ UNCHANGED <<daemonVars, socket, launch, resets>>
\* The directory goes, with its socket, record and owner's lock.
ResetMoves ==
    /\ reset = "owning"
    /\ reset' = "moved" /\ resets' = resets + 1
    /\ owner' = Nobody /\ socket' = Nobody
    /\ record' = [by |-> Nobody, event |-> "none"]
    /\ UNCHANGED <<daemon, ending, sweeping, lifecycle, launch>>
ResetLeaves ==
    /\ reset = "moved"
    /\ reset' = "idle" /\ Lets(TheReset)
    /\ UNCHANGED <<daemonVars, owner, socket, launch, resets>>

OwnershipNext ==
    \/ \E d \in Daemons :
          \/ Run(d) \/ Own(d) \/ ClearSocket(d) \/ ServeSocket(d) \/ BecomeReady(d) \/ StartFails(d)
          \/ StopAsked(d) \/ CloseDaemon(d) \/ Exit(d) \/ CrashDaemon(d)
          \/ StepStarts(d) \/ StepEnds(d) \/ StepFails(d)
          \/ \E l \in Launchers : Spawns(l, d)
    \/ \E l \in Launchers : Finds(l) \/ Misses(l) \/ Enters(l) \/ GivesUpLaunch(l)
    \/ ResetEnters \/ ResetOwns \/ ResetMoves \/ ResetLeaves

OwnershipSpec == OwnershipInit /\ [][OwnershipNext]_ownershipVars

-----------------------------------------------------------------------------
(* Properties. *)

\* Whatever the order of starts, stops, crashes, launchers that time out and resets: one
\* process at most has the storage of the directory open, none while the directory is moved,
\* and a daemon that serves is the one the socket leads to. An end that was asked for once the
\* daemon was ready, and that went well, is not recorded as a failure, whatever maintenance was
\* at.
Alone == \A d, e \in Daemons : HasStorage(d) /\ HasStorage(e) => d = e
Reachable == \A d \in Daemons : Serving(d) => socket = d
MovedUnused == reset = "owning" => \A d \in Daemons : ~HasStorage(d)
EndsAreTrue ==
    \A d \in Daemons :
        record = [by |-> d, event |-> "failed"] => ending[d] # "requested"
DaemonIsAlone == Alone /\ Reachable /\ MovedUnused /\ EndsAreTrue

\* Does not hold: the same of a stop that came when the socket was there and ready was not yet
\* recorded: maintenance begins after it was stopped.
EarlyEndsAreTrue ==
    \A d \in Daemons :
        record = [by |-> d, event |-> "failed"] => ending[d] # "early"

\* Does not hold: while a daemon serves, the record on disk is its own. fatal writes once more
\* when the lock is gone, over what a successor wrote.
RecordIsOfTheServer ==
    \A d \in Daemons : daemon[d] = "serving" => record.by = d
=============================================================================
