------------------------------ MODULE SocketLock ------------------------------
(***************************************************************************)
(* Which daemon is the daemon (serve, listen, flockSocket, evictHolder and *)
(* evictPeer of internal/daemon/server.go; the client's Health, Shutdown,  *)
(* WaitGone and KillSocketPeer; ensureDaemon of the command line).         *)
(*                                                                         *)
(* Daemons are started by launchd, by a client that finds none and by      *)
(* hand, several at a time and of different versions.  A lock on a file    *)
(* beside the socket goes from one to the next, but a daemon of before the *)
(* lock does not know of it; the socket is a name in the file system that  *)
(* whoever binds takes and whoever closes removes, whose ever it is by     *)
(* then.  A newer version has an older one step down over the socket.      *)
(***************************************************************************)
EXTENDS Naturals

CONSTANTS
    Daemon,      \* daemon processes
    Keeper,      \* the daemon that launchd keeps alive
    Version,     \* the version of each
    Cli,         \* command lines that make sure of a daemon
    Newest,      \* their version
    None,
    MaxStarts,   \* bound: starts other than launchd's
    MaxFaults    \* bound: daemons that crash, hang or answer too late

ASSUME VersionAssumption == Version \in [Daemon -> Nat] /\ Newest \in Nat
ASSUME NameAssumption == None \notin Daemon \cup {"stale"} /\ "stale" \notin Daemon
ASSUME KeeperAssumption == Keeper \in Daemon /\ Version[Keeper] = Newest
ASSUME BoundAssumption == {MaxStarts, MaxFaults} \subseteq Nat

(* Daemons of version 0 are from before the lock.                           *)
Lockless == {d \in Daemon : Version[d] = 0}

VARIABLES
    lock,        \* who holds the flock
    path,        \* whose socket the path leads to
    pc,          \* the daemons
    stepping,    \* daemons that have been told to step down
    stuck,       \* of those, the ones that do not
    cli,         \* the command lines
    loaded,      \* does launchd keep its daemon alive?
    overlooked,  \* history: was a daemon taken for dead that is not?
    starts, faults   \* bounds

vars == <<lock, path, pc, stepping, stuck, cli, loaded, overlooked, starts, faults>>
socketVars == <<lock, path>>
cliVars == <<cli, loaded>>

(* "ask" is without the lock, "probe" with it; then the other one is told,  *)
(* waited for, killed and waited for again.                                 *)
StartPc == {"flock", "ask", "probe", "tell", "wait", "kill", "wait2", "poll", "remove", "bind"}
CliPc == {"idle", "wait", "tell", "wait2", "kill", "wait3", "install"}

TypeOK ==
    /\ lock \in Daemon \cup {None}
    /\ path \in Daemon \cup {"stale", None}
    /\ pc \in [Daemon -> StartPc \cup {"off", "serve", "drain"}]
    /\ stuck \subseteq stepping /\ stepping \subseteq {d \in Daemon : pc[d] = "serve"}
    /\ cli \in [Cli -> CliPc]
    /\ loaded \in BOOLEAN /\ overlooked \in BOOLEAN
    /\ starts \in Nat /\ faults \in Nat

(* At first there may be one daemon from before an upgrade.                 *)
Init ==
    \E old \in {d \in Daemon : Version[d] < Newest} \cup {None} :
        /\ lock = IF old \in Lockless THEN None ELSE old
        /\ path = old
        /\ pc = [d \in Daemon |-> IF d = old THEN "serve" ELSE "off"]
        /\ stepping = {} /\ stuck = {} /\ overlooked = FALSE
        /\ cli = [c \in Cli |-> "idle"] /\ loaded \in BOOLEAN
        /\ starts = 0 /\ faults = 0

-----------------------------------------------------------------------------
(* The socket, as a client sees it.                                         *)

Dialable == path \in Daemon

\* Mutant: the lock is let go when the listener is closed.
FreedAtClose(d, to) == IF lock = d /\ to \in {"off", "drain"} THEN None ELSE lock

(* The lock goes with the process.                                          *)
FreedBy(d, to) == IF lock = d /\ to = "off" THEN None ELSE lock

Go(d, to) == pc' = [pc EXCEPT ![d] = to]

Gone(d) ==
    /\ Go(d, "off") /\ lock' = FreedBy(d, "off")
    /\ stepping' = stepping \ {d} /\ stuck' = stuck \ {d}

(* SIGKILL, or a crash: the socket file stays.                              *)
Killed(d) == Gone(d) /\ path' = IF path = d THEN "stale" ELSE path

(* Shutdown: whoever listens now; it may answer and then hang.              *)
Tell(d) ==
    /\ stepping' = stepping \cup {d}
    /\ \/ UNCHANGED <<stuck, faults>>
       \/ d \notin stepping /\ faults < MaxFaults /\ faults' = faults + 1 /\ stuck' = stuck \cup {d}

(* WaitGone is in vain where a daemon hangs, or has not been told.          *)
Lingers == Dialable /\ (path \notin stepping \/ path \in stuck)

-----------------------------------------------------------------------------
(* A daemon that starts.                                                    *)

(* Nobody starts a daemon of before the lock any more.                      *)
Start(d) ==
    /\ pc[d] = "off" /\ d \notin Lockless
    /\ \/ d = Keeper /\ loaded /\ UNCHANGED starts
       \/ starts < MaxStarts /\ starts' = starts + 1
    /\ Go(d, "flock")
    /\ UNCHANGED <<socketVars, stepping, stuck, cliVars, overlooked, faults>>

\* Mutant: a start that gives up leaves the lock taken.
RefusedKeepsLock(d) == Go(d, "off") /\ UNCHANGED <<socketVars, stepping, stuck>>

(* A start that ends before it has bound anything.                          *)
Refused(d) == Gone(d) /\ UNCHANGED path

(* It goes on to its next step.                                             *)
Onward(d, to) == Go(d, to) /\ UNCHANGED <<socketVars, stepping, stuck>>

LockFree == lock = None

Flock(d) ==
    /\ pc[d] = "flock"
    /\ IF LockFree THEN lock' = d /\ Go(d, "probe") ELSE Go(d, "ask") /\ UNCHANGED lock
    /\ UNCHANGED <<path, stepping, stuck, cliVars, overlooked, starts, faults>>

(* Who holds the lock is asked for its version, over the socket; if nobody  *)
(* answers, it may be starting.                                             *)
Ask(d) ==
    /\ pc[d] = "ask"
    /\ IF ~Dialable THEN Refused(d)
       ELSE IF Version[path] = Version[d] THEN Refused(d) ELSE Onward(d, "tell")
    /\ UNCHANGED <<cliVars, overlooked, starts, faults>>

(* evictHolder, with the lock: whoever listens is of before the lock.  An   *)
(* answer that comes too late is none.                                      *)
Probe(d) ==
    /\ pc[d] = "probe"
    /\ \/ /\ IF ~Dialable THEN Onward(d, "remove")
             ELSE IF Version[path] = Version[d] THEN Refused(d) ELSE Onward(d, "tell")
          /\ UNCHANGED <<overlooked, faults>>
       \/ /\ Dialable /\ faults < MaxFaults /\ faults' = faults + 1
          /\ overlooked' = TRUE
          /\ Onward(d, "remove")
    /\ UNCHANGED <<cliVars, starts>>

(* evictPeer.                                                               *)
TellPeer(d) ==
    /\ pc[d] = "tell"
    /\ IF Dialable THEN Tell(path) /\ Go(d, "wait") /\ UNCHANGED socketVars
       ELSE Refused(d) /\ UNCHANGED faults
    /\ UNCHANGED <<cliVars, overlooked, starts>>

(* With the lock a start goes on; without, it polls for it.                 *)
Evicted(d) == Onward(d, IF lock = d THEN "remove" ELSE "poll")

WaitPeer(d) ==
    /\ pc[d] = "wait"
    /\ \/ ~Dialable /\ Evicted(d)
       \/ Lingers /\ Onward(d, "kill")
    /\ UNCHANGED <<cliVars, overlooked, starts, faults>>

(* KillSocketPeer: whoever listens now.                                     *)
KillPeer(d) ==
    /\ pc[d] = "kill"
    /\ IF Dialable
         THEN /\ path' = "stale" /\ lock' = FreedBy(path, "off")
              /\ pc' = [pc EXCEPT ![path] = "off", ![d] = "wait2"]
              /\ stepping' = stepping \ {path} /\ stuck' = stuck \ {path}
         ELSE Onward(d, "wait2")
    /\ UNCHANGED <<cliVars, overlooked, starts, faults>>

WaitPeerAgain(d) ==
    /\ pc[d] = "wait2"
    /\ \/ ~Dialable /\ Evicted(d)
       \/ Lingers /\ Refused(d)
    /\ UNCHANGED <<cliVars, overlooked, starts, faults>>

(* The lock comes with the exit of who had it, or not in time.              *)
PollLock(d) ==
    /\ pc[d] = "poll"
    /\ \/ LockFree /\ lock' = d /\ Go(d, "probe") /\ UNCHANGED <<path, stepping, stuck, faults>>
       \/ lock # None /\ faults < MaxFaults /\ faults' = faults + 1 /\ Refused(d)
    /\ UNCHANGED <<cliVars, overlooked, starts>>

RemoveStale(d) ==
    /\ pc[d] = "remove"
    /\ path' = None
    /\ Go(d, "bind")
    /\ UNCHANGED <<lock, stepping, stuck, cliVars, overlooked, starts, faults>>

(* net.Listen does not take a name that is there.                           *)
Bind(d) ==
    /\ pc[d] = "bind"
    /\ IF path = None THEN path' = d /\ Go(d, "serve") /\ UNCHANGED <<lock, stepping, stuck>>
                      ELSE Refused(d)
    /\ UNCHANGED <<cliVars, overlooked, starts, faults>>

-----------------------------------------------------------------------------
(* A daemon that serves.                                                    *)

(* A signal, from launchd or a user.                                        *)
Term(d) ==
    /\ pc[d] = "serve" /\ d \notin stepping /\ faults < MaxFaults
    /\ stepping' = stepping \cup {d} /\ faults' = faults + 1
    /\ UNCHANGED <<socketVars, pc, stuck, cliVars, overlooked, starts>>

(* closeListener: the name is removed, whose ever it is.                    *)
Close(d) ==
    /\ pc[d] = "serve" /\ d \in stepping \ stuck
    /\ path' = None
    /\ Go(d, "drain") /\ lock' = FreedBy(d, "drain")
    /\ stepping' = stepping \ {d}
    /\ UNCHANGED <<stuck, cliVars, overlooked, starts, faults>>

\* Mutant: the listener is closed again when the daemon exits.
NameAtExitRemoved(d) == None

(* The deferred closeListener does nothing any more (closeOnce).            *)
NameAtExit(d) == path

Exit(d) ==
    /\ pc[d] = "drain"
    /\ Gone(d) /\ path' = NameAtExit(d)
    /\ UNCHANGED <<cliVars, overlooked, starts, faults>>

Crash(d) ==
    /\ pc[d] # "off" /\ faults < MaxFaults
    /\ faults' = faults + 1
    /\ Killed(d)
    /\ UNCHANGED <<cliVars, overlooked, starts>>

-----------------------------------------------------------------------------
(* ensureDaemon, of a command line of the newest version.                   *)

GoCli(c, to) == cli' = [cli EXCEPT ![c] = to]

(* The bootout ends the daemon that launchd has started, if it has started  *)
(* the one that serves; a detached one stays.                               *)
CliBootout(c) ==
    /\ cli[c] = "idle" /\ Dialable /\ Version[path] # Newest
    /\ GoCli(c, "wait") /\ loaded' = FALSE
    /\ stepping' \in {stepping, stepping \cup {path}}
    /\ UNCHANGED <<socketVars, pc, stuck, overlooked, starts, faults>>

(* Where none answers it only has launchd start one.                        *)
CliAskUnanswered(c) ==
    /\ cli[c] = "idle" /\ ~Dialable /\ ~loaded
    /\ GoCli(c, "install")
    /\ UNCHANGED <<socketVars, pc, stepping, stuck, loaded, overlooked, starts, faults>>

CliWait(c) ==
    /\ \E step \in {<<"wait", "tell">>, <<"wait2", "kill">>, <<"wait3", "install">>} :
         /\ cli[c] = step[1]
         /\ \/ ~Dialable /\ GoCli(c, "install")
            \/ Lingers /\ GoCli(c, step[2])
    /\ UNCHANGED <<socketVars, pc, stepping, stuck, loaded, overlooked, starts, faults>>

CliTell(c) ==
    /\ cli[c] = "tell"
    /\ IF Dialable THEN Tell(path) ELSE UNCHANGED <<stepping, stuck, faults>>
    /\ GoCli(c, "wait2")
    /\ UNCHANGED <<socketVars, pc, loaded, overlooked, starts>>

CliKill(c) ==
    /\ cli[c] = "kill"
    /\ IF Dialable THEN Killed(path) ELSE UNCHANGED <<socketVars, pc, stepping, stuck>>
    /\ GoCli(c, "wait3")
    /\ UNCHANGED <<loaded, overlooked, starts, faults>>

CliInstall(c) ==
    /\ cli[c] = "install"
    /\ GoCli(c, "idle") /\ loaded' = TRUE
    /\ UNCHANGED <<socketVars, pc, stepping, stuck, overlooked, starts, faults>>

-----------------------------------------------------------------------------
StartStep(d) ==
    \/ Flock(d) \/ Ask(d) \/ Probe(d) \/ TellPeer(d) \/ WaitPeer(d) \/ KillPeer(d)
    \/ WaitPeerAgain(d) \/ PollLock(d) \/ RemoveStale(d) \/ Bind(d)

DaemonStep(d) == StartStep(d) \/ Close(d) \/ Exit(d)

CliStep(c) ==
    \/ CliBootout(c) \/ CliAskUnanswered(c) \/ CliWait(c) \/ CliTell(c) \/ CliKill(c)
    \/ CliInstall(c)

Next ==
    \/ \E d \in Daemon : Start(d) \/ DaemonStep(d) \/ Term(d) \/ Crash(d)
    \/ \E c \in Cli : CliStep(c)

(* Processes go on, launchd starts its daemon again, and there is a command *)
(* line now and then.                                                       *)
Spec ==
    /\ Init /\ [][Next]_vars
    /\ \A d \in Daemon : WF_vars(DaemonStep(d))
    /\ WF_vars(Start(Keeper))
    /\ \A c \in Cli : WF_vars(CliStep(c))

-----------------------------------------------------------------------------
(* Properties.                                                              *)

AtWork(d) == d \notin Lockless /\ pc[d] \in {"serve", "drain"}

(* Two daemons that know of the lock are never at work at once: until one   *)
(* has drained, whatever its schedulers and handlers still do, the next has *)
(* not begun (the order of serve's defers).                                 *)
OneAtWork == \A d, e \in Daemon : AtWork(d) /\ AtWork(e) => d = e

(* The daemon that serves is the one that clients reach: no start, however  *)
(* many there are, no late close and no kill takes its name away; unless an *)
(* answer of a daemon of before the lock came too late (listen, closeOnce). *)
ServesInSight == \A d \in Daemon :
    AtWork(d) /\ pc[d] = "serve" /\ ~overlooked => path = d

(* In the end a daemon of the newest version serves and goes on: a start    *)
(* that is refused, because another seemed to be starting or was told to    *)
(* step down by several at once, does not leave the user with none          *)
(* (flockSocket, evictPeer, ensureDaemon); with the exception above, where  *)
(* a daemon that nobody reaches keeps the lock.                             *)
Newly(d) == pc[d] = "serve" /\ path = d /\ Version[d] = Newest

TakesOver == <>[](overlooked \/ \E d \in Daemon : Newly(d))
=============================================================================
