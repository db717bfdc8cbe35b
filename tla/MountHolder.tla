----------------------------- MODULE MountHolder -----------------------------
(***************************************************************************)
(* The mount holder (internal/mountd/server.go): the detached process that *)
(* serves every mirror, so that daemons come and go without disturbing a   *)
(* session.  Connection handlers run side by side and keep apart by a      *)
(* claim per directory; a deep-probe loop reads through the mirrors; a     *)
(* shutdown sweeps, stops accepting, drains, sweeps again and exits.  A    *)
(* second holder may be started at any time, and a lock on a file keeps it *)
(* out.                                                                    *)
(*                                                                         *)
(* Each critical section and each bounded call (a probe, a mount, an       *)
(* unmount) is one step.  Clients may give up waiting; the handler goes on *)
(* all the same, so they are not modelled.  Neither are the base paths:    *)
(* every mirror has the same one, which has entries, and the directory     *)
(* under a mountpoint is empty, so that a mirror shows exactly while it is *)
(* mounted (overlay.MountAlive asks for the entries).                      *)
(***************************************************************************)
EXTENDS Naturals

CONSTANTS
    Dir,       \* account directories
    Proc,      \* holder processes
    Req,       \* connections served at once
    None,      \* "no directory", "no process"
    MaxFaults  \* bound: failed or unanswered calls, dying mirrors, kills

ASSUME NoneAssumption == None \notin Dir \cup Proc
ASSUME BoundAssumption == MaxFaults \in Nat

VARIABLES
    proc,      \* per process, where Run is
    lock,      \* who holds the flock on the lock file
    socket,    \* whose listener the socket path leads to
    left,      \* per process, what its last sweep has still to visit
    registry,  \* per process, the directories it has a registry row for
    inflight,  \* per process, the directories claimed by a handler
    strikes,   \* per process and directory, deep-probe failures in a row
    handles,   \* per process, the mounts its fuse provider knows
    req,       \* the connection handlers
    deep,      \* per process, the deep-probe pass: still to read, reading, read,
               \* and the reads of earlier passes that the kernel has not answered
    mnt,       \* the directory in the kernel
    by,        \* the process that serves its mirror
    stuck,     \* mounts that timed out and may still come up
    stacked,   \* history: directories mounted over while mountpoints
    excuse,    \* history: what the world did to the directory's present mirror
    faults     \* failures so far (bound)

holderVars == <<registry, inflight, strikes, handles>>
runVars == <<proc, lock, socket, left>>
kernelVars == <<mnt, by, stuck, stacked>>
vars == <<runVars, holderVars, req, deep, kernelVars, excuse, faults>>

(* "wedged": shallow stats succeed, bulk reads hang.  "dead": a mountpoint  *)
(* nobody serves, whose stats fail or never return.                        *)
MountState == {"none", "live", "wedged", "dead"}
ProcPc == {"off", "locked", "alone", "serving", "cancelled", "draining", "sweeping"}
ReqPc == {"idle", "new", "probe", "corpse", "setup", "teardown", "sweep", "ok", "failed"}
deepWedgeStrikes == 2

IdleReq == [pc |-> "idle", op |-> "mount", dir |-> None, proc |-> None, todo |-> {}]
NoProbe == [todo |-> {}, dir |-> None, read |-> "ok", parked |-> {}]

ReqState == [pc : ReqPc, op : {"mount", "unmount", "shutdown"}, dir : Dir \cup {None},
             proc : Proc \cup {None}, todo : SUBSET Dir]
DeepState == [todo : SUBSET Dir, dir : Dir \cup {None}, read : {"ok", "fail", "missing"},
              parked : SUBSET Dir]

TypeOK ==
    /\ proc \in [Proc -> ProcPc]
    /\ lock \in Proc \cup {None}
    /\ socket \in Proc \cup {None}
    /\ left \in [Proc -> SUBSET Dir]
    /\ registry \in [Proc -> SUBSET Dir]
    /\ inflight \in [Proc -> SUBSET Dir]
    /\ strikes \in [Proc -> [Dir -> 0..deepWedgeStrikes]]
    /\ handles \in [Proc -> SUBSET Dir]
    /\ req \in [Req -> ReqState]
    /\ deep \in [Proc -> DeepState]
    /\ mnt \in [Dir -> MountState]
    /\ by \in [Dir -> Proc \cup {None}]
    /\ stuck \subseteq Proc \X Dir
    /\ stacked \subseteq Dir
    /\ excuse \in [Dir -> SUBSET {"late", "clung", "slow", "joined"}]
    /\ faults \in Nat

Init ==
    /\ proc = [p \in Proc |-> "off"]
    /\ lock = None /\ socket = None
    /\ left = [p \in Proc |-> {}]
    /\ registry = [p \in Proc |-> {}]
    /\ inflight = [p \in Proc |-> {}]
    /\ strikes = [p \in Proc |-> [d \in Dir |-> 0]]
    /\ handles = [p \in Proc |-> {}]
    /\ req = [r \in Req |-> IdleReq]
    /\ deep = [p \in Proc |-> NoProbe]
    /\ mnt = [d \in Dir |-> "none"]
    /\ by = [d \in Dir |-> None]
    /\ stuck = {} /\ stacked = {}
    /\ excuse = [d \in Dir |-> {}]
    /\ faults = 0

Fault == faults < MaxFaults /\ faults' = faults + 1

Excuse(d, what) == excuse' = [excuse EXCEPT ![d] = @ \cup {what}]

-----------------------------------------------------------------------------
(* The fuse provider (internal/overlay/fuse.go), as the holder calls it.    *)

(* Teardown forgets its handle first.  It answers nil only if the path is   *)
(* no mountpoint any more.                                                 *)
TornDown(d) ==
    /\ mnt' = [mnt EXCEPT ![d] = "none"]
    /\ by' = [by EXCEPT ![d] = None]
    /\ excuse' = [excuse EXCEPT ![d] = {}]
    /\ UNCHANGED faults

(* ErrUnmountWedged: still a mountpoint, or the stat that asks got no       *)
(* answer.                                                                 *)
Clings(d) ==
    /\ mnt[d] # "none" /\ Fault
    /\ mnt' \in {mnt, [mnt EXCEPT ![d] = "dead"], [mnt EXCEPT ![d] = "none"]}
    /\ by' = [by EXCEPT ![d] = IF mnt'[d] = "none" THEN None ELSE @]
    /\ Excuse(d, "clung")

\* Mutant: the row survives an unmount that did not take.
RowsLeftKept(p, d, gone) == IF gone THEN registry[p] \ {d} ELSE registry[p]

(* The registry row is dropped whatever Teardown answers. *)
RowsLeft(p, d, gone) == registry[p] \ {d}

Teardown(p, d, gone) ==
    /\ IF gone THEN TornDown(d) ELSE Clings(d)
    /\ handles' = [handles EXCEPT ![p] = @ \ {d}]
    /\ registry' = [registry EXCEPT ![p] = RowsLeft(p, d, gone)]
    /\ UNCHANGED <<stuck, stacked>>

-----------------------------------------------------------------------------
(* Run and listen: one holder at a time.                                   *)

\* Mutant: no lock file.
LockFreeAlways == TRUE

LockFree == lock = None

Start(p) ==
    /\ proc[p] = "off" /\ LockFree
    /\ lock' = p
    /\ proc' = [proc EXCEPT ![p] = "locked"]
    /\ UNCHANGED <<socket, left, holderVars, req, deep, kernelVars, excuse, faults>>

(* Does a holder accept connections on the socket path? *)
Answers == socket # None /\ proc[socket] \in {"serving", "cancelled"}

Release(p) == lock' = IF lock = p THEN None ELSE lock

CheckPeer(p) ==
    /\ proc[p] = "locked"
    /\ IF Answers
         THEN proc' = [proc EXCEPT ![p] = "off"] /\ Release(p)
         ELSE proc' = [proc EXCEPT ![p] = "alone"] /\ UNCHANGED lock
    /\ UNCHANGED <<socket, left, holderVars, req, deep, kernelVars, excuse, faults>>

(* A stale socket file is removed and the path bound anew. *)
Bind(p) ==
    /\ proc[p] = "alone"
    /\ \/ /\ socket' = p
          /\ proc' = [proc EXCEPT ![p] = "serving"]
          /\ UNCHANGED <<lock, faults>>
       \/ /\ Fault
          /\ socket' = None
          /\ proc' = [proc EXCEPT ![p] = "off"]
          /\ Release(p)
    /\ UNCHANGED <<left, holderVars, req, deep, kernelVars, excuse>>

Signal(p) ==
    /\ proc[p] = "serving"
    /\ proc' = [proc EXCEPT ![p] = "cancelled"]
    /\ UNCHANGED <<lock, socket, left, holderVars, req, deep, kernelVars, excuse, faults>>

(* Closing the listener unlinks the socket by its path, whoever bound it.   *)
CloseListener(p) ==
    /\ proc[p] = "cancelled"
    /\ socket' = None
    /\ proc' = [proc EXCEPT ![p] = "draining"]
    /\ UNCHANGED <<lock, left, holderVars, req, deep, kernelVars, excuse, faults>>

\* Mutant: the last sweep does not wait for the handlers.
DrainedAlways(p) == TRUE

Drained(p) == \A r \in Req : req[r].pc # "idle" => req[r].proc # p

FinalSweep(p) ==
    /\ proc[p] = "draining" /\ Drained(p)
    /\ proc' = [proc EXCEPT ![p] = "sweeping"]
    /\ left' = [left EXCEPT ![p] = registry[p]]
    /\ UNCHANGED <<lock, socket, holderVars, req, deep, kernelVars, excuse, faults>>

FinalTeardown(p, d) ==
    /\ proc[p] = "sweeping" /\ d \in left[p]
    /\ left' = [left EXCEPT ![p] = @ \ {d}]
    /\ \E gone \in BOOLEAN : Teardown(p, d, gone)
    /\ UNCHANGED <<proc, lock, socket, inflight, strikes, req, deep>>

(* A process that is gone leaves its mirrors as mountpoints nobody serves.  *)
Gone(p) ==
    /\ proc' = [proc EXCEPT ![p] = "off"]
    /\ Release(p)
    /\ left' = [left EXCEPT ![p] = {}]
    /\ registry' = [registry EXCEPT ![p] = {}]
    /\ inflight' = [inflight EXCEPT ![p] = {}]
    /\ strikes' = [strikes EXCEPT ![p] = [d \in Dir |-> 0]]
    /\ handles' = [handles EXCEPT ![p] = {}]
    /\ req' = [r \in Req |-> IF req[r].proc = p THEN IdleReq ELSE req[r]]
    /\ deep' = [deep EXCEPT ![p] = NoProbe]
    /\ mnt' = [d \in Dir |-> IF by[d] = p /\ mnt[d] # "none" THEN "dead" ELSE mnt[d]]
    /\ by' = [d \in Dir |-> IF by[d] = p THEN None ELSE by[d]]
    /\ stuck' = {s \in stuck : s[1] # p}
    /\ UNCHANGED <<socket, stacked, excuse>>

Exit(p) == proc[p] = "sweeping" /\ left[p] = {} /\ Gone(p) /\ UNCHANGED faults

Kill(p) == proc[p] # "off" /\ Gone(p) /\ Fault

-----------------------------------------------------------------------------
(* Connection handlers.                                                    *)

Goto(r, pc) == req' = [req EXCEPT ![r].pc = pc]

(* Answer and give the claim back. *)
Finish(r, pc) ==
    /\ Goto(r, pc)
    /\ inflight' = [inflight EXCEPT ![req[r].proc] = @ \ {req[r].dir}]

Accept(r) ==
    /\ req[r].pc = "idle" /\ Answers
    /\ \/ \E op \in {"mount", "unmount"}, d \in Dir :
            req' = [req EXCEPT ![r] = [pc |-> "new", op |-> op, dir |-> d,
                                       proc |-> socket, todo |-> {}]]
       \/ req' = [req EXCEPT ![r] = [pc |-> "sweep", op |-> "shutdown", dir |-> None,
                                     proc |-> socket, todo |-> registry[socket]]]
    /\ UNCHANGED <<runVars, holderVars, deep, kernelVars, excuse, faults>>

\* Mutant: two handlers may work on one directory.
ClaimFreeAlways(p, d) == TRUE

ClaimFree(p, d) == d \notin inflight[p]

Claim(r) ==
    LET p == req[r].proc  d == req[r].dir IN
    /\ req[r].pc = "new"
    /\ IF ClaimFree(p, d)
         THEN /\ inflight' = [inflight EXCEPT ![p] = @ \cup {d}]
              /\ Goto(r, "probe")
         ELSE /\ Goto(r, "failed")
              /\ UNCHANGED inflight
    /\ UNCHANGED <<runVars, registry, strikes, handles, deep, kernelVars, excuse, faults>>

\* Mutant: a held mount is taken for a live one.
HeldLiveUnprobed(p, d) == TRUE

(* liveWithin and deepOK: shallow stats succeed and the cached verdict of   *)
(* the deep probe is good.                                                 *)
HeldLive(p, d) == mnt[d] \in {"live", "wedged"} /\ strikes[p][d] < deepWedgeStrikes

(* A registered mirror that is live is left as it is; one that is not, or   *)
(* does not answer, is torn down and mounted again.  A mountpoint without a *)
(* row is refused, and so is a directory that does not answer.             *)
MountProbe(r) ==
    LET p == req[r].proc  d == req[r].dir IN
    /\ req[r].pc = "probe" /\ req[r].op = "mount"
    /\ \/ /\ d \in registry[p] /\ HeldLive(p, d)
          /\ Finish(r, "ok") /\ UNCHANGED faults
       \/ /\ d \in registry[p]
          /\ Goto(r, "corpse") /\ UNCHANGED inflight
          /\ \/ ~HeldLive(p, d) /\ UNCHANGED faults
             \/ HeldLive(p, d) /\ Fault
       \/ /\ d \notin registry[p] /\ mnt[d] = "none"
          /\ Goto(r, "setup") /\ UNCHANGED <<inflight, faults>>
       \/ /\ d \notin registry[p]
          /\ Finish(r, "failed")
          /\ \/ mnt[d] # "none" /\ UNCHANGED faults
             \/ mnt[d] = "none" /\ Fault
    /\ UNCHANGED <<runVars, registry, strikes, handles, deep, kernelVars, excuse>>

Corpse(r) ==
    /\ req[r].pc = "corpse"
    /\ \/ Teardown(req[r].proc, req[r].dir, TRUE) /\ Goto(r, "setup") /\ UNCHANGED inflight
       \/ Teardown(req[r].proc, req[r].dir, FALSE) /\ Finish(r, "failed")
    /\ UNCHANGED <<runVars, strikes, deep>>

\* Mutant: the verdict of the old mirror is kept for the new one.
FreshVerdictKept(p, d) == strikes[p][d]

FreshVerdict(p, d) == 0

(* setupAndRegister.  The provider returns at once for a directory it has a *)
(* handle for.                                                             *)
Mount(p, d) ==
    /\ IF d \in handles[p]
         THEN UNCHANGED <<mnt, by, stacked, excuse>>
         ELSE /\ mnt' = [mnt EXCEPT ![d] = "live"]
              /\ by' = [by EXCEPT ![d] = p]
              /\ excuse' = [excuse EXCEPT ![d] = @ \cap {"late"}]
              /\ stacked' = IF mnt[d] = "none" \/ "late" \in excuse[d]
                              THEN stacked ELSE stacked \cup {d}
    /\ handles' = [handles EXCEPT ![p] = @ \cup {d}]
    /\ registry' = [registry EXCEPT ![p] = @ \cup {d}]
    /\ strikes' = [strikes EXCEPT ![p][d] = FreshVerdict(p, d)]
    /\ UNCHANGED <<stuck, faults>>

(* A mount that does not come up in time fails, and may still come up once  *)
(* the user answers the system's prompt.                                   *)
MountTimesOut(p, d) ==
    /\ d \notin handles[p] /\ Fault
    /\ stuck' \in {stuck, stuck \cup {<<p, d>>}}
    /\ UNCHANGED <<mnt, by, stacked, excuse, handles, registry, strikes>>

SetUp(r) ==
    /\ req[r].pc = "setup"
    /\ \/ Mount(req[r].proc, req[r].dir) /\ Finish(r, "ok")
       \/ MountTimesOut(req[r].proc, req[r].dir) /\ Finish(r, "failed")
    /\ UNCHANGED <<runVars, deep>>

(* Nothing mounted and no row: nothing to do.  Everything else, a           *)
(* mountpoint left by a dead holder included, is torn down.                *)
UnmountProbe(r) ==
    LET p == req[r].proc  d == req[r].dir IN
    /\ req[r].pc = "probe" /\ req[r].op = "unmount"
    /\ \/ /\ d \notin registry[p] /\ mnt[d] = "none"
          /\ Finish(r, "ok") /\ UNCHANGED faults
       \/ /\ Goto(r, "teardown") /\ UNCHANGED inflight
          /\ \/ (d \in registry[p] \/ mnt[d] # "none") /\ UNCHANGED faults
             \/ d \notin registry[p] /\ mnt[d] = "none" /\ Fault
    /\ UNCHANGED <<runVars, registry, strikes, handles, deep, kernelVars, excuse>>

Unmount(r) ==
    /\ req[r].pc = "teardown"
    /\ \/ Teardown(req[r].proc, req[r].dir, TRUE) /\ Finish(r, "ok")
       \/ Teardown(req[r].proc, req[r].dir, FALSE) /\ Finish(r, "failed")
    /\ UNCHANGED <<runVars, strikes, deep>>

(* unmountAll of a shutdown request: a claimed directory is left to its     *)
(* handler.                                                                *)
SweepDir(r, d) ==
    LET p == req[r].proc IN
    /\ req[r].pc = "sweep" /\ d \in req[r].todo
    /\ req' = [req EXCEPT ![r].todo = @ \ {d}]
    /\ \/ /\ ClaimFree(p, d)
          /\ \E gone \in BOOLEAN : Teardown(p, d, gone)
       \/ /\ ~ClaimFree(p, d)
          /\ UNCHANGED <<registry, handles, kernelVars, excuse, faults>>
    /\ UNCHANGED <<runVars, inflight, strikes, deep>>

(* The reply, and the cancellation of Run. *)
Shutdown(r) ==
    LET p == req[r].proc IN
    /\ req[r].pc = "sweep" /\ req[r].todo = {}
    /\ Goto(r, "ok")
    /\ proc' = [proc EXCEPT ![p] = IF @ = "serving" THEN "cancelled" ELSE @]
    /\ UNCHANGED <<lock, socket, left, holderVars, deep, kernelVars, excuse, faults>>

Reply(r) ==
    /\ req[r].pc \in {"ok", "failed"}
    /\ req' = [req EXCEPT ![r] = IdleReq]
    /\ UNCHANGED <<runVars, holderVars, deep, kernelVars, excuse, faults>>

-----------------------------------------------------------------------------
(* deepProbeLoop: the read is made outside the lock and without the claim,  *)
(* and its outcome recorded later.                                         *)

DeepPass(p) ==
    /\ proc[p] = "serving" /\ deep[p].dir = None /\ deep[p].todo = {} /\ registry[p] # {}
    /\ deep' = [deep EXCEPT ![p].todo = registry[p]]
    /\ UNCHANGED <<runVars, holderVars, req, kernelVars, excuse, faults>>

Reading(p, d, outcome, pending) ==
    deep' = [deep EXCEPT ![p].todo = @ \ {d}, ![p].dir = d, ![p].read = outcome,
                         ![p].parked = @ \cup pending]

(* What a read of the probe file answers: an error from a mountpoint nobody *)
(* serves, no file where nothing is mounted.                               *)
ReadOf(d) == IF mnt[d] = "live" THEN "ok" ELSE IF mnt[d] = "none" THEN "missing" ELSE "fail"

(* A claimed directory is passed over.  A read that times out stays parked  *)
(* until the kernel answers it, and until then later passes join it.       *)
DeepRead(p, d) ==
    /\ deep[p].dir = None /\ d \in deep[p].todo
    /\ \/ /\ d \in inflight[p]
          /\ deep' = [deep EXCEPT ![p].todo = @ \ {d}]
          /\ UNCHANGED <<excuse, faults>>
       \/ /\ d \notin inflight[p] \cup deep[p].parked
          /\ \/ Reading(p, d, ReadOf(d), {})
             \/ ReadOf(d) = "fail" /\ Reading(p, d, "fail", {d})
          /\ UNCHANGED <<excuse, faults>>
       \/ /\ d \notin inflight[p] \cup deep[p].parked
          /\ mnt[d] = "live" /\ Fault
          /\ Reading(p, d, "fail", {d})
          /\ Excuse(d, "slow")
       \/ /\ d \in deep[p].parked \ inflight[p]
          /\ Reading(p, d, "fail", {})
          /\ Excuse(d, "joined") /\ UNCHANGED faults
    /\ UNCHANGED <<runVars, holderVars, req, kernelVars>>

KernelAnswers(p, d) ==
    /\ d \in deep[p].parked
    /\ deep' = [deep EXCEPT ![p].parked = @ \ {d}]
    /\ UNCHANGED <<runVars, holderVars, req, kernelVars, excuse, faults>>

(* recordDeepVerdict: the count matters up to the one that condemns.        *)
Strike(n) == IF n < deepWedgeStrikes THEN n + 1 ELSE n

DeepRecord(p) ==
    LET d == deep[p].dir IN
    /\ d # None
    /\ strikes' = [strikes EXCEPT ![p][d] =
                     CASE deep[p].read = "ok" -> 0
                       [] deep[p].read = "fail" -> Strike(@)
                       [] deep[p].read = "missing" -> @]
    /\ deep' = [deep EXCEPT ![p].dir = None, ![p].read = "ok"]
    /\ UNCHANGED <<runVars, registry, inflight, handles, req, kernelVars, excuse, faults>>

-----------------------------------------------------------------------------
(* The world.                                                              *)

MirrorFails(d) ==
    /\ mnt[d] = "live" /\ Fault
    /\ mnt' \in {[mnt EXCEPT ![d] = "wedged"], [mnt EXCEPT ![d] = "dead"]}
    /\ UNCHANGED <<runVars, holderVars, req, deep, by, stuck, stacked, excuse>>

(* Someone unmounts the directory by hand. *)
PulledAway(d) ==
    /\ mnt[d] # "none" /\ Fault
    /\ mnt' = [mnt EXCEPT ![d] = "none"]
    /\ by' = [by EXCEPT ![d] = None]
    /\ excuse' = [excuse EXCEPT ![d] = {}]
    /\ UNCHANGED <<runVars, holderVars, req, deep, stuck, stacked>>

(* It may come up over another mirror of the directory. *)
LateMount(p, d) ==
    /\ <<p, d>> \in stuck
    /\ mnt' = [mnt EXCEPT ![d] = "live"]
    /\ by' = [by EXCEPT ![d] = p]
    /\ stuck' = stuck \ {<<p, d>>}
    /\ Excuse(d, "late")
    /\ UNCHANGED <<runVars, holderVars, req, deep, stacked, faults>>

-----------------------------------------------------------------------------
RunStep(p) ==
    \/ Start(p) \/ CheckPeer(p) \/ Bind(p) \/ Signal(p) \/ CloseListener(p)
    \/ FinalSweep(p) \/ (\E d \in Dir : FinalTeardown(p, d)) \/ Exit(p) \/ Kill(p)

HandlerStep(r) ==
    \/ Accept(r) \/ Claim(r) \/ MountProbe(r) \/ Corpse(r) \/ SetUp(r)
    \/ UnmountProbe(r) \/ Unmount(r) \/ (\E d \in Dir : SweepDir(r, d))
    \/ Shutdown(r) \/ Reply(r)

DeepStep(p) ==
    DeepPass(p) \/ DeepRecord(p) \/ \E d \in Dir : DeepRead(p, d) \/ KernelAnswers(p, d)

World(d) == MirrorFails(d) \/ PulledAway(d) \/ \E p \in Proc : LateMount(p, d)

Next ==
    \/ \E p \in Proc : RunStep(p) \/ DeepStep(p)
    \/ \E r \in Req : HandlerStep(r)
    \/ \E d \in Dir : World(d)

Spec == Init /\ [][Next]_vars

-----------------------------------------------------------------------------
(* Properties.                                                             *)

(* A holder that accepts connections is the one the socket path leads to:   *)
(* a second holder starting up, or an old one going away, never unlinks it  *)
(* (the comments on listen and closeListener).                             *)
SocketReaches ==
    \A p \in Proc : proc[p] \in {"serving", "cancelled"} => socket = p

(* Mounts are never stacked: a directory that is a mountpoint, of this      *)
(* holder, of a dead one or of anyone, is never mounted over.  The one      *)
(* exception is a mount that came up after it had been given up, which      *)
(* SetUp does not enter in stacked.                                        *)
NeverStacked == stacked = {}

(* Outside the claims the registry and the fuse provider agree on what is   *)
(* mounted: a row without a handle could not be unmounted gracefully, and a *)
(* handle without a row makes the provider answer a mount without mounting. *)
RegistersAgree ==
    \A p \in Proc : registry[p] \ inflight[p] = handles[p] \ inflight[p]

(* What a handler answers was so when it last looked (handleMount,          *)
(* handleUnmount): a directory reported mounted serves, one reported       *)
(* unmounted is no mountpoint, whoever else was at work on it.             *)
RepliesHonest ==
    [][\A r \in Req : LET d == req[r].dir IN
         req[r].pc \in {"probe", "setup", "teardown"} /\ req'[r].pc = "ok" =>
             IF req[r].op = "mount" THEN mnt'[d] \in {"live", "wedged"}
                                    ELSE mnt'[d] = "none"]_vars

(* A holder that has swept for the last time leaves nothing mounted behind, *)
(* whatever its handlers were doing when it was told to stop, except what   *)
(* would not come down and what came up late.                              *)
NoneLeftBehind ==
    \A p \in Proc, d \in Dir :
        proc[p] = "sweeping" /\ left[p] = {} /\ by[d] = p =>
            excuse[d] \cap {"clung", "late"} # {}

(* A registered mirror that serves is never called wedged on the strength   *)
(* of what an earlier mirror of the directory did, although probes race     *)
(* with remounts (the comment on deepProbePass).  It is if a read of its    *)
(* own was too slow, if a read of the earlier one is still parked and the   *)
(* passes join it, or if it came up late in the place of the registered.   *)
CondemnedRightly ==
    \A p \in Proc, d \in Dir :
        /\ d \in registry[p] /\ by[d] = p /\ mnt[d] = "live"
        /\ strikes[p][d] = deepWedgeStrikes
        => excuse[d] \cap {"slow", "joined", "late"} # {}
=============================================================================
