---------------------------- MODULE DaemonClaims ----------------------------
(***************************************************************************)
(* The daemon of cc-pool and everything in it that touches account         *)
(* directories: select handlers (and the claude each one launches),        *)
(* migrate handlers, the loop goroutine (startup reconcile, then the       *)
(* scheduler's polls) and the holder supervisor.  They coordinate only     *)
(* through four claim fields guarded by one mutex (internal/daemon/        *)
(* server.go): reservations, converting, polling and replacing.            *)
(*                                                                         *)
(* Each critical section of that mutex is one atomic step; the I/O between *)
(* two critical sections is a step of its own, so any other actor can run  *)
(* in between.  Rows read into a local variable are kept there: the copy   *)
(* grows stale exactly where the code lets it.                             *)
(***************************************************************************)
EXTENDS Naturals, FiniteSets

CONSTANTS
    Account,      \* the account rows; each owns one directory
    Client,       \* select requests in flight, each with the claude it becomes
    Migrator,     \* migrate requests the daemon may be serving at once
    None,         \* "no account"
    MaxRestarts,  \* bound: how often the daemon is killed and started again
    MaxFaults,    \* bound: mounts, unmounts, scans and moves that fail, probes of a
                  \* live mirror that go unanswered, holder deaths
    Daemonless    \* may a client pick a directory without the daemon?

ASSUME NoneAssumption == None \notin Account
ASSUME BoundsAssumption == MaxRestarts \in Nat /\ MaxFaults \in Nat
ASSUME DaemonlessAssumption == Daemonless \in BOOLEAN

Kind == {"symlink", "fuse"}      \* store.Account.OverlayKind
MirrorState == {"none", "live", "dead"}
Worker == {"loop", "sup"}        \* the goroutines that run healFuse

VARIABLES
    reserved,    \* accounts with an unexpired reservation
    converting,  \* accounts claimed by a conversion or by a replacement
    polling,     \* accounts claimed by the loop or the supervisor
    replacing,   \* a holder replacement is in flight
    row,         \* the overlay kind in the account's database row
    mirror,      \* is the directory a mountpoint, and does the mirror serve?
    vouched,     \* directories the holder cache reports live (holderState)
    holder,      \* the mount holder: "up", "skewed" (another build) or "down"
    client,      \* the select handlers and their claudes
    mig,         \* the migrate handlers
    worker,      \* per goroutine, the account it is working on
    loop,        \* where the loop goroutine is, and the rows it listed
    sup,         \* where the supervisor is, and the accounts left to visit
    young,       \* the daemon has been up for less than reservationTTL
    restarts,    \* restarts so far (bound)
    faults       \* failures so far (bound)

claimVars == <<reserved, converting, polling, replacing>>
dirVars == <<row, mirror, vouched, holder>>
actorVars == <<client, mig, worker, loop, sup>>
boundVars == <<young, restarts, faults>>
vars == <<claimVars, dirVars, actorVars, boundVars>>

IdleClient == [pc |-> "idle", acct |-> None, kind |-> "symlink", known |-> "no"]
IdleMig == [pc |-> "idle", acct |-> None, to |-> "symlink", force |-> FALSE]
IdleWorker == [pc |-> "idle", acct |-> None, kind |-> "symlink"]
IdleSup == [pc |-> "idle", ids |-> {}, todo |-> {}]
NoRows == [a \in Account |-> "symlink"]

ClientPc == {"idle", "listed", "ready", "launching", "bypass", "session"}
MigPc == {"idle", "claimed", "cleared", "moved"}
WorkerPc == {"idle", "claimed", "heal", "clear", "mount", "fallback", "gate", "unmount", "commit"}
ReplacePc == {"gate", "shutdown", "spawn", "remount"}
SupPc == {"idle", "rows", "listed"} \cup ReplacePc

\* known: the running daemon reserved for this claude, or found it running.
ClientState == [pc : ClientPc, acct : Account \cup {None}, kind : Kind, known : {"yes", "no"}]
MigState == [pc : MigPc, acct : Account \cup {None}, to : Kind, force : BOOLEAN]
WorkerState == [pc : WorkerPc, acct : Account \cup {None}, kind : Kind]
LoopState == [phase : {"reconcile", "poll"}, walking : BOOLEAN,
              rows : [Account -> Kind], todo : SUBSET Account]
SupState == [pc : SupPc, ids : SUBSET Account, todo : SUBSET Account]

TypeOK ==
    /\ reserved \subseteq Account
    /\ converting \subseteq Account
    /\ polling \subseteq Account
    /\ replacing \in BOOLEAN
    /\ row \in [Account -> Kind]
    /\ mirror \in [Account -> MirrorState]
    /\ vouched \subseteq Account
    /\ holder \in {"up", "skewed", "down"}
    /\ client \in [Client -> ClientState]
    /\ mig \in [Migrator -> MigState]
    /\ worker \in [Worker -> WorkerState]
    /\ loop \in LoopState
    /\ sup \in SupState
    /\ young \in BOOLEAN
    /\ restarts \in Nat
    /\ faults \in Nat

(* The daemon starts over a pool it left consistent: a fuse row's mirror is *)
(* served by the detached holder, which may come from an older build.      *)
Init ==
    /\ reserved = {} /\ converting = {} /\ polling = {} /\ replacing = FALSE
    /\ row \in [Account -> Kind]
    /\ mirror = [a \in Account |-> IF row[a] = "fuse" THEN "live" ELSE "none"]
    /\ vouched = {}
    /\ holder \in {"up", "skewed"}
    /\ client = [c \in Client |-> IdleClient]
    /\ mig = [m \in Migrator |-> IdleMig]
    /\ worker = [w \in Worker |-> IdleWorker]
    /\ loop = [phase |-> "reconcile", walking |-> FALSE, rows |-> NoRows, todo |-> {}]
    /\ sup = IdleSup
    /\ young = TRUE
    /\ restarts = 0 /\ faults = 0

-----------------------------------------------------------------------------
(* The claim table: the condition each critical section of the mutex tests. *)

\* Mutant: select trusts its earlier filter and does not test converting.
TryReserveUnchecked(a) == TRUE

TryReserve(a) == a \notin converting

\* Mutant: a migrate claims over a select's reservation.
BeginConvertUnreserved(a) == ~replacing /\ a \notin converting /\ a \notin polling

BeginConvert(a) ==
    /\ ~replacing
    /\ a \notin reserved
    /\ a \notin converting
    /\ a \notin polling

BeginConvertUnderPoll(a) ==
    /\ ~replacing
    /\ a \notin reserved
    /\ a \notin converting

\* Mutant: the poll claim does not exclude conversions.
BeginPollOneSided(a) == a \notin polling

BeginPoll(a) == a \notin converting /\ a \notin polling

\* Mutant: the replacement looks at polls and conversions only.
BeginReplaceBlind(ids) == converting = {} /\ ids \cap polling = {}

BeginReplace(ids) ==
    /\ converting = {}
    /\ ids \cap reserved = {}
    /\ ids \cap polling = {}

(* procscan.Scan: the accounts whose directory a running claude names. *)
Busy == {a \in Account : \E c \in Client : client[c].pc = "session" /\ client[c].acct = a}

FuseRows == {a \in Account : row[a] = "fuse"}

(* What Health and List answer: the mirrors a reachable holder serves. *)
Served == IF holder = "down" THEN {} ELSE {a \in Account : mirror[a] = "live"}

(* mountd.EnsureRunning: a mount or an unmount request starts a holder when *)
(* none answers.                                                            *)
EnsureRunning == IF holder = "down" THEN "up" ELSE holder

(* One failure of the world outside the daemon, while the bound lasts. *)
Fault == faults < MaxFaults /\ faults' = faults + 1

-----------------------------------------------------------------------------
(* Select: handleSelect, then the claude the client execs.                 *)

(* Snapshots reads the rows; the handler goes on with this copy.  The       *)
(* ranking may choose any account, so does a forced select.                *)
SelectList(c, a) ==
    /\ client[c].pc = "idle"
    /\ client' = [client EXCEPT ![c] = [pc |-> "listed", acct |-> a, kind |-> row[a],
                                          known |-> "no"]]
    /\ UNCHANGED <<claimVars, dirVars, mig, worker, loop, sup, boundVars>>

(* mountReady: a fuse row is ready iff the cache vouches for its mirror,    *)
(* any other row iff its directory is no mountpoint.  A cache that does not *)
(* vouch is refreshed once, if it is old enough (refreshIfStale).          *)
MountReady(k, a, cache) == IF k = "fuse" THEN a \in cache ELSE mirror[a] = "none"

CacheChoices(k, a) ==
    IF k = "fuse" /\ a \notin vouched THEN {vouched, Served} ELSE {vouched}

(* A free select also leaves out accounts mid-conversion; a forced one does *)
(* not look.                                                               *)
SelectFilter(c) ==
    LET a == client[c].acct IN
    /\ client[c].pc = "listed"
    /\ \E cache \in CacheChoices(client[c].kind, a), forced \in BOOLEAN :
        /\ vouched' = cache
        /\ IF MountReady(client[c].kind, a, cache) /\ (forced \/ a \notin converting)
             THEN client' = [client EXCEPT ![c] = [pc |-> "ready", acct |-> a,
                                                    kind |-> "symlink", known |-> "no"]]
             ELSE client' = [client EXCEPT ![c] = IdleClient]
    /\ UNCHANGED <<claimVars, row, mirror, holder, mig, worker, loop, sup, boundVars>>

(* tryReserve: refused while converting, else the account is reserved and   *)
(* its directory goes to the client, which is about to exec claude.        *)
SelectReserve(c) ==
    LET a == client[c].acct IN
    /\ client[c].pc = "ready"
    /\ IF TryReserve(a)
         THEN /\ reserved' = reserved \cup {a}
              /\ client' = [client EXCEPT ![c] = [pc |-> "launching", acct |-> a,
                                                  kind |-> "symlink", known |-> "yes"]]
         ELSE /\ client' = [client EXCEPT ![c] = IdleClient]
              /\ UNCHANGED reserved
    /\ UNCHANGED <<converting, polling, replacing, dirVars, mig, worker, loop, sup, boundVars>>

(* resolveSelection without the daemon (--no-daemon, a daemon of another    *)
(* version, or a select call that failed): the client takes the directory   *)
(* without asking, and nothing is reserved.                                *)
SelectDaemonless(c, a) ==
    /\ Daemonless
    /\ client[c].pc = "idle"
    /\ client' = [client EXCEPT ![c] = [pc |-> "bypass", acct |-> a, kind |-> "symlink",
                                          known |-> "no"]]
    /\ UNCHANGED <<claimVars, dirVars, mig, worker, loop, sup, boundVars>>

(* execClaude: from here a process scan sees the session.                  *)
Launch(c) ==
    /\ client[c].pc \in {"launching", "bypass"}
    /\ client' = [client EXCEPT ![c].pc = "session"]
    /\ UNCHANGED <<claimVars, dirVars, mig, worker, loop, sup, boundVars>>

(* The claude exits, or the client dies before it starts one.              *)
Leave(c) ==
    /\ client[c].pc \in {"launching", "bypass", "session"}
    /\ client' = [client EXCEPT ![c] = IdleClient]
    /\ UNCHANGED <<claimVars, dirVars, mig, worker, loop, sup, boundVars>>

(* A reservation older than reservationTTL counts no more.  The TTL is      *)
(* chosen to outlast a launch, so it does not run out under one.           *)
Expire(a) ==
    /\ a \in reserved
    /\ \A c \in Client : client[c].pc = "launching" => client[c].acct # a
    /\ reserved' = reserved \ {a}
    /\ UNCHANGED <<converting, polling, replacing, dirVars, actorVars, boundVars>>

-----------------------------------------------------------------------------
(* Migrate: convertAccount around ConvertOverlay.                          *)

(* The claim.  A refusal ("busy") changes nothing.                         *)
MigrateClaim(m, a, to, force) ==
    /\ mig[m].pc = "idle"
    /\ BeginConvert(a)
    /\ converting' = converting \cup {a}
    /\ mig' = [mig EXCEPT ![m] = [pc |-> "claimed", acct |-> a, to |-> to, force |-> force]]
    /\ UNCHANGED <<reserved, polling, replacing, dirVars, client, worker, loop, sup, boundVars>>

\* Mutant: a return path without the deferred endConvert.
MigrateReleaseLeaky(m) ==
    /\ UNCHANGED converting
    /\ mig' = [mig EXCEPT ![m] = IdleMig]

(* endConvert, deferred on every return path.                              *)
MigrateRelease(m) ==
    /\ converting' = converting \ {mig[m].acct}
    /\ mig' = [mig EXCEPT ![m] = IdleMig]

\* Mutant: no scan of the sessions.
MigrateGateUnscanned(m) == row[mig[m].acct] # mig[m].to

(* Under the claim the row is read again; unless forced, the scan must      *)
(* succeed and find no session on the directory.  A failed read or scan     *)
(* gives up.                                                               *)
MigrateGateOpen(m) ==
    /\ row[mig[m].acct] # mig[m].to
    /\ mig[m].force \/ mig[m].acct \notin Busy

MigrateGate(m) ==
    /\ mig[m].pc = "claimed"
    /\ \/ /\ MigrateGateOpen(m)
          /\ mig' = [mig EXCEPT ![m].pc = "cleared"]
          /\ UNCHANGED <<converting, faults>>
       \/ /\ ~MigrateGateOpen(m)
          /\ MigrateRelease(m)
          /\ UNCHANGED faults
       \/ /\ Fault
          /\ MigrateRelease(m)
    /\ UNCHANGED <<reserved, polling, replacing, dirVars, client, worker, loop, sup, young, restarts>>

(* The first half of ConvertOverlay, up to the mirror's new state.  Towards *)
(* fuse it refuses a mountpoint, moves the files and mounts; a failed mount *)
(* rolls back, and a rollback whose unmount is wedged leaves the mountpoint *)
(* behind.  Towards symlink it unmounts, or fails on a wedged unmount.     *)
MigrateMove(m) ==
    LET a == mig[m].acct IN
    /\ mig[m].pc = "cleared"
    /\ \/ /\ mig[m].to = "fuse" => mirror[a] = "none"
          /\ mirror' = [mirror EXCEPT ![a] = IF mig[m].to = "fuse" THEN "live" ELSE "none"]
          /\ holder' = IF mig[m].to = "symlink" /\ mirror[a] = "none" THEN holder ELSE EnsureRunning
          /\ mig' = [mig EXCEPT ![m].pc = "moved"]
          /\ UNCHANGED <<converting, faults>>
       \/ /\ mig[m].to = "fuse" /\ mirror[a] # "none"
          /\ MigrateRelease(m)
          /\ UNCHANGED <<mirror, holder, faults>>
       \/ /\ Fault
          /\ mirror' \in IF mig[m].to = "fuse" /\ mirror[a] = "none"
                           THEN {mirror, [mirror EXCEPT ![a] = "dead"]}
                           ELSE {mirror}
          /\ MigrateRelease(m)
          /\ UNCHANGED holder
    /\ UNCHANGED <<reserved, polling, replacing, row, vouched, client, worker, loop, sup, young, restarts>>

(* The second half: the row flips last, then the cache is told.  A failure  *)
(* before the flip rolls a mount back (verified unmount) and leaves an      *)
(* unmount as it is; neither tells the cache.                              *)
MigrateCommit(m) ==
    LET a == mig[m].acct IN
    /\ mig[m].pc = "moved"
    /\ \/ /\ row' = [row EXCEPT ![a] = mig[m].to]
          /\ vouched' = IF mig[m].to = "fuse" THEN vouched \cup {a} ELSE vouched \ {a}
          /\ UNCHANGED <<mirror, faults>>
       \/ /\ Fault
          /\ mirror' \in IF mig[m].to = "fuse" THEN {mirror, [mirror EXCEPT ![a] = "none"]}
                                               ELSE {mirror}
          /\ UNCHANGED <<row, vouched>>
    /\ MigrateRelease(m)
    /\ UNCHANGED <<reserved, polling, replacing, holder, client, worker, loop, sup, young, restarts>>

-----------------------------------------------------------------------------
(* The work of one goroutine on one account: healFuse and what it calls.    *)
(* The loop always holds a poll claim; the supervisor holds one too, except *)
(* when it remounts after a replacement, under the replacement's claims.   *)

UnderReplace(w) == w = "sup" /\ sup.pc = "remount"

(* endPoll and leave the account. *)
Finish(w) ==
    /\ polling' = IF UnderReplace(w) THEN polling ELSE polling \ {worker[w].acct}
    /\ worker' = [worker EXCEPT ![w] = IdleWorker]

Goto(w, pc) ==
    /\ worker' = [worker EXCEPT ![w].pc = pc]
    /\ UNCHANGED polling

(* Health, and the deep read of Setup: probes with a time limit, so one    *)
(* that a live mirror leaves unanswered reads dead too (a failure).         *)
ReadsDead(a) ==
    \/ mirror[a] # "live" /\ UNCHANGED faults
    \/ mirror[a] = "live" /\ Fault

(* Where a failed Health leads: to mountFuse, whose own Health comes next,  *)
(* or through that too when a live mirror stays silent for both.           *)
HealFrom(a) == IF mirror[a] = "live" THEN {"heal", "clear"} ELSE {"heal"}

(* mountFuse: is there a mount, and does it answer? *)
HealProbe(w) ==
    LET a == worker[w].acct IN
    /\ worker[w].pc = "heal"
    /\ \/ /\ mirror[a] # "dead"
          /\ Goto(w, "mount")
          /\ UNCHANGED faults
       \/ /\ mirror[a] # "none" /\ ReadsDead(a)
          /\ Goto(w, "clear")
    /\ UNCHANGED <<reserved, converting, replacing, dirVars, client, mig, loop, sup, young, restarts>>

(* A mount that reads dead comes down before anything is swept or mounted,  *)
(* with no look at the sessions; a wedged unmount retries later, and may    *)
(* have killed the mirror.                                                 *)
HealClear(w) ==
    LET a == worker[w].acct IN
    /\ worker[w].pc = "clear"
    /\ \/ /\ mirror' = [mirror EXCEPT ![a] = "none"]
          /\ holder' = EnsureRunning
          /\ Goto(w, "mount")
          /\ UNCHANGED faults
       \/ /\ Fault
          /\ mirror' \in {mirror, [mirror EXCEPT ![a] = "dead"]}
          /\ Finish(w)
          /\ UNCHANGED holder
    /\ UNCHANGED <<reserved, converting, replacing, row, vouched, client, mig, loop, sup, young, restarts>>

(* mountFuse, second part, and healFuse's classification of its error: the  *)
(* mirror is up and the cache is told; or the failure is transient (or      *)
(* waits for the user's grant) and is retried later; or it is genuine.  A   *)
(* live mirror that fails Setup's deep read is taken down and mounted anew. *)
HealMount(w) ==
    LET a == worker[w].acct IN
    /\ worker[w].pc = "mount"
    /\ \/ /\ mirror' = [mirror EXCEPT ![a] = "live"]
          /\ holder' = IF mirror[a] = "live" THEN holder ELSE EnsureRunning
          /\ vouched' = vouched \cup {a}
          /\ Finish(w)
          /\ UNCHANGED faults
       \/ /\ mirror[a] # "live" /\ Fault
          /\ \/ Finish(w)
             \/ Goto(w, "fallback")
          /\ UNCHANGED <<mirror, holder, vouched>>
       \/ /\ mirror[a] = "live" /\ ReadsDead(a)
          /\ Goto(w, "clear")
          /\ UNCHANGED <<mirror, holder, vouched>>
    /\ UNCHANGED <<reserved, converting, replacing, row, client, mig, loop, sup, young, restarts>>

(* fallbackToSymlink: claim first, scan second. *)
FallbackClaim(w) ==
    LET a == worker[w].acct IN
    /\ worker[w].pc = "fallback"
    /\ IF BeginConvertUnderPoll(a)
         THEN /\ converting' = converting \cup {a}
              /\ Goto(w, "gate")
         ELSE /\ Finish(w)
              /\ UNCHANGED converting
    /\ UNCHANGED <<reserved, replacing, dirVars, client, mig, loop, sup, boundVars>>

FallbackRelease(w) == converting' = converting \ {worker[w].acct}

\* Mutant: the fallback converts blind.
FallbackGateBlind(a) == TRUE

FallbackGateOpen(a) == a \notin Busy

FallbackGate(w) ==
    /\ worker[w].pc = "gate"
    /\ \/ /\ FallbackGateOpen(worker[w].acct)
          /\ Goto(w, "unmount")
          /\ UNCHANGED <<converting, faults>>
       \/ /\ ~FallbackGateOpen(worker[w].acct)
          /\ FallbackRelease(w) /\ Finish(w)
          /\ UNCHANGED faults
       \/ /\ Fault
          /\ FallbackRelease(w) /\ Finish(w)
    /\ UNCHANGED <<reserved, replacing, dirVars, client, mig, loop, sup, young, restarts>>

(* ConvertOverlay towards symlink, in the same two halves as a migrate. *)
FallbackUnmount(w) ==
    /\ worker[w].pc = "unmount"
    /\ \/ /\ mirror' = [mirror EXCEPT ![worker[w].acct] = "none"]
          /\ holder' = IF mirror[worker[w].acct] = "none" THEN holder ELSE EnsureRunning
          /\ Goto(w, "commit")
          /\ UNCHANGED <<converting, faults>>
       \/ /\ Fault
          /\ FallbackRelease(w) /\ Finish(w)
          /\ UNCHANGED <<mirror, holder>>
    /\ UNCHANGED <<reserved, replacing, row, vouched, client, mig, loop, sup, young, restarts>>

FallbackCommit(w) ==
    LET a == worker[w].acct IN
    /\ worker[w].pc = "commit"
    /\ \/ /\ row' = [row EXCEPT ![a] = "symlink"]
          /\ vouched' = vouched \ {a}
          /\ UNCHANGED faults
       \/ /\ Fault
          /\ UNCHANGED <<row, vouched>>
    /\ FallbackRelease(w) /\ Finish(w)
    /\ UNCHANGED <<reserved, replacing, mirror, holder, client, mig, loop, sup, young, restarts>>

-----------------------------------------------------------------------------
(* The loop goroutine: reconcileOverlays once, then pollOnce for ever.     *)

(* Refresh the cache, then list the rows.  Every account is visited with    *)
(* the row as it was listed here.                                          *)
LoopList ==
    /\ ~loop.walking
    /\ vouched' = Served
    /\ loop' = [loop EXCEPT !.walking = TRUE, !.rows = row, !.todo = Account]
    /\ UNCHANGED <<claimVars, row, mirror, holder, client, mig, worker, sup, boundVars>>

(* beginPoll; a claimed account is passed over. *)
LoopClaim(a) ==
    /\ loop.walking /\ worker["loop"].pc = "idle" /\ a \in loop.todo
    /\ loop' = [loop EXCEPT !.todo = @ \ {a}]
    /\ IF BeginPoll(a)
         THEN /\ polling' = polling \cup {a}
              /\ worker' = [worker EXCEPT !["loop"] =
                              [pc |-> "claimed", acct |-> a, kind |-> loop.rows[a]]]
         ELSE UNCHANGED <<polling, worker>>
    /\ UNCHANGED <<reserved, converting, replacing, dirVars, client, mig, sup, boundVars>>

(* reconcileAccount: adopt a healthy mirror, heal a fuse row without one.   *)
(* Under any other row a mountpoint is unmounted (or is wedged), and files  *)
(* stranded in the backing directory are moved back.                       *)
Reconcile ==
    LET a == worker["loop"].acct IN
    /\ loop.phase = "reconcile" /\ worker["loop"].pc = "claimed"
    /\ \/ /\ worker["loop"].kind = "fuse" /\ mirror[a] = "live"
          /\ vouched' = vouched \cup {a}
          /\ Finish("loop")
          /\ UNCHANGED <<mirror, holder, faults>>
       \/ /\ worker["loop"].kind = "fuse" /\ ReadsDead(a)
          /\ \E pc \in HealFrom(a) : Goto("loop", pc)
          /\ UNCHANGED <<mirror, holder, vouched>>
       \/ /\ worker["loop"].kind = "symlink"
          /\ mirror' = [mirror EXCEPT ![a] = "none"]
          /\ holder' = IF mirror[a] = "none" THEN holder ELSE EnsureRunning
          /\ Finish("loop")
          /\ UNCHANGED <<vouched, faults>>
       \/ /\ worker["loop"].kind = "symlink" /\ Fault
          /\ Finish("loop")
          /\ UNCHANGED <<mirror, holder, vouched>>
    /\ UNCHANGED <<reserved, converting, replacing, row, client, mig, loop, sup, young, restarts>>

\* Mutant: a failed SyncOverlay is logged and no more.
PollOnlyLogs == FALSE

(* pollAccount: an account in rate-limit backoff is left alone; otherwise   *)
(* SyncOverlay relinks or checks health, and an unhealthy fuse row is       *)
(* healed.                                                                 *)
PollUnhealthy == worker["loop"].kind = "fuse" /\ ReadsDead(worker["loop"].acct)

Poll ==
    /\ loop.phase = "poll" /\ worker["loop"].pc = "claimed"
    /\ \/ Finish("loop") /\ UNCHANGED faults
       \/ PollUnhealthy /\ \E pc \in HealFrom(worker["loop"].acct) : Goto("loop", pc)
    /\ UNCHANGED <<reserved, converting, replacing, dirVars, client, mig, loop, sup, young, restarts>>

LoopDone ==
    /\ loop.walking /\ loop.todo = {} /\ worker["loop"].pc = "idle"
    /\ loop' = [phase |-> "poll", walking |-> FALSE, rows |-> NoRows, todo |-> {}]
    /\ UNCHANGED <<claimVars, dirVars, client, mig, worker, sup, boundVars>>

-----------------------------------------------------------------------------
(* The supervisor: revive a dead holder, retry rows it does not serve,      *)
(* replace a holder of another build.                                      *)

(* The uptime leg of skewReplaceGate. *)
UptimeClear == ~young

(* One tick.  The cache is refreshed; then a dead holder is respawned if a  *)
(* fuse row needs one, a settled holder's unserved rows are visited (those  *)
(* in backoff are left for later), and a skewed holder is replaced once     *)
(* the daemon has been up long enough to have forgotten no reservation.    *)
SupTick ==
    /\ sup.pc = "idle" /\ loop.phase = "poll"
    /\ \/ /\ holder = "down" /\ FuseRows # {}
          /\ holder' = "up"
          /\ sup' = [sup EXCEPT !.pc = "rows", !.todo = FuseRows]
          /\ UNCHANGED faults
       \/ /\ holder = "down" /\ Fault
          /\ UNCHANGED <<holder, sup>>
       \/ /\ holder = "up"
          /\ \E due \in SUBSET FuseRows : sup' = [sup EXCEPT !.pc = "rows", !.todo = due]
          /\ UNCHANGED <<holder, faults>>
       \/ /\ holder = "skewed" /\ UptimeClear
          /\ sup' = [sup EXCEPT !.pc = "listed", !.ids = FuseRows]
          /\ UNCHANGED <<holder, faults>>
    /\ vouched' = Served
    /\ UNCHANGED <<claimVars, row, mirror, client, mig, worker, loop, young, restarts>>

SupClaim(a) ==
    /\ sup.pc = "rows" /\ worker["sup"].pc = "idle" /\ a \in sup.todo
    /\ sup' = [sup EXCEPT !.todo = @ \ {a}]
    /\ IF a \notin vouched /\ BeginPoll(a)
         THEN /\ polling' = polling \cup {a}
              /\ worker' = [worker EXCEPT !["sup"] =
                              [pc |-> "claimed", acct |-> a, kind |-> "fuse"]]
         ELSE UNCHANGED <<polling, worker>>
    /\ UNCHANGED <<reserved, converting, replacing, dirVars, client, mig, loop, boundVars>>

(* Under the claim the row is read again: a row converted since the listing *)
(* is left alone.                                                          *)
StillFuse(a) == row[a] = "fuse"

SupReread ==
    /\ worker["sup"].pc = "claimed"
    /\ IF StillFuse(worker["sup"].acct) THEN Goto("sup", "heal") ELSE Finish("sup")
    /\ UNCHANGED <<reserved, converting, replacing, dirVars, client, mig, loop, sup, boundVars>>

SupDone ==
    /\ sup.pc = "rows" /\ sup.todo = {} /\ worker["sup"].pc = "idle"
    /\ sup' = IdleSup
    /\ UNCHANGED <<claimVars, dirVars, client, mig, worker, loop, boundVars>>

(* beginReplace over the rows just listed. *)
ReplaceClaim ==
    /\ sup.pc = "listed"
    /\ IF BeginReplace(sup.ids)
         THEN /\ converting' = converting \cup sup.ids
              /\ replacing' = TRUE
              /\ sup' = [sup EXCEPT !.pc = "gate"]
         ELSE /\ sup' = IdleSup
              /\ UNCHANGED <<converting, replacing>>
    /\ UNCHANGED <<reserved, polling, dirVars, client, mig, worker, loop, boundVars>>

\* Mutant: endReplace drops the claims and forgets the fence.
ReplaceReleaseFenced ==
    /\ converting' = converting \ sup.ids
    /\ UNCHANGED replacing
    /\ sup' = IdleSup

(* endReplace, deferred on every return path. *)
ReplaceRelease ==
    /\ converting' = converting \ sup.ids
    /\ replacing' = FALSE
    /\ sup' = IdleSup

(* The legs of skewReplaceGate evaluated under the claims: the same fuse    *)
(* rows, and no session on them or on any directory the holder lists.      *)
ReplaceGateOpen ==
    /\ FuseRows = sup.ids
    /\ (sup.ids \cup vouched) \cap Busy = {}

ReplaceGate ==
    /\ sup.pc = "gate"
    /\ \/ /\ ReplaceGateOpen
          /\ sup' = [sup EXCEPT !.pc = "shutdown"]
          /\ UNCHANGED <<converting, replacing, faults>>
       \/ /\ ~ReplaceGateOpen
          /\ ReplaceRelease
          /\ UNCHANGED faults
       \/ /\ Fault
          /\ ReplaceRelease
    /\ UNCHANGED <<reserved, polling, dirVars, client, mig, worker, loop, young, restarts>>

(* Every live mirror unmounted, except the stuck ones, which die with the   *)
(* holder.                                                                 *)
Swept(stuck) ==
    [a \in Account |-> IF mirror[a] # "live" THEN mirror[a]
                       ELSE IF a \in stuck THEN "dead" ELSE "none"]

(* Shutdown and the wait for the socket.  The holder sweeps its mirrors and *)
(* exits; or the call fails with the outcome unknown and it goes on         *)
(* serving, swept or not, and the replacement is given up.                 *)
ReplaceShutdown ==
    /\ sup.pc = "shutdown"
    /\ vouched' = {}
    /\ \/ /\ holder' = "down"
          /\ sup' = [sup EXCEPT !.pc = "spawn"]
          /\ \/ mirror' = Swept({}) /\ UNCHANGED faults
             \/ \E stuck \in SUBSET Served \ {{}} : mirror' = Swept(stuck) /\ Fault
          /\ UNCHANGED <<converting, replacing>>
       \/ /\ Fault
          /\ mirror' \in {mirror, Swept({})}
          /\ ReplaceRelease
          /\ UNCHANGED holder
    /\ UNCHANGED <<reserved, polling, row, client, mig, worker, loop, young, restarts>>

ReplaceSpawn ==
    /\ sup.pc = "spawn"
    /\ \/ /\ holder' = EnsureRunning
          /\ vouched' = {a \in Account : mirror[a] = "live"}
          /\ sup' = [sup EXCEPT !.pc = "remount", !.todo = sup.ids]
          /\ UNCHANGED <<converting, replacing, faults>>
       \/ /\ Fault
          /\ ReplaceRelease
          /\ UNCHANGED <<holder, vouched>>
    /\ UNCHANGED <<reserved, polling, row, mirror, client, mig, worker, loop, young, restarts>>

(* remountReplacedRows: under the converting claims, no poll claim and no   *)
(* second read of the row.                                                 *)
ReplaceRemount(a) ==
    /\ sup.pc = "remount" /\ worker["sup"].pc = "idle" /\ a \in sup.todo
    /\ sup' = [sup EXCEPT !.todo = @ \ {a}]
    /\ IF a \in vouched
         THEN UNCHANGED worker
         ELSE worker' = [worker EXCEPT !["sup"] = [pc |-> "heal", acct |-> a, kind |-> "fuse"]]
    /\ UNCHANGED <<claimVars, dirVars, client, mig, loop, boundVars>>

ReplaceEnd ==
    /\ sup.pc = "remount" /\ sup.todo = {} /\ worker["sup"].pc = "idle"
    /\ ReplaceRelease
    /\ UNCHANGED <<reserved, polling, dirVars, client, mig, worker, loop, boundVars>>

-----------------------------------------------------------------------------
(* The world outside the daemon.                                           *)

(* The holder is killed; its mirrors stay mounted and serve nothing. *)
HolderDies ==
    /\ holder # "down" /\ Fault
    /\ holder' = "down"
    /\ mirror' = [a \in Account |-> IF mirror[a] = "live" THEN "dead" ELSE mirror[a]]
    /\ UNCHANGED <<claimVars, row, vouched, actorVars, young, restarts>>

(* reservationTTL has passed since the start: whatever a previous daemon    *)
(* handed out has been launched, or has been given up.                     *)
Mature ==
    /\ young
    /\ \A c \in Client : client[c].pc = "launching" => client[c].acct \in reserved
    /\ young' = FALSE
    /\ UNCHANGED <<claimVars, dirVars, actorVars, restarts, faults>>

(* The daemon is killed and started again: every claim and every handler is *)
(* gone; rows, mountpoints, the holder and the claudes stay.  The daemon    *)
(* that starts may be of another build than the holder; it can scan the     *)
(* claudes that run, and knows nothing of those about to be launched.       *)
Restart ==
    /\ restarts < MaxRestarts
    /\ restarts' = restarts + 1
    /\ reserved' = {} /\ converting' = {} /\ polling' = {} /\ replacing' = FALSE
    /\ vouched' = {}
    /\ client' = [c \in Client |-> CASE client[c].pc \in {"listed", "ready"} -> IdleClient
                                     [] client[c].pc = "session" -> [client[c] EXCEPT !.known = "yes"]
                                     [] OTHER -> [client[c] EXCEPT !.known = "no"]]
    /\ mig' = [m \in Migrator |-> IdleMig]
    /\ worker' = [w \in Worker |-> IdleWorker]
    /\ loop' = [phase |-> "reconcile", walking |-> FALSE, rows |-> NoRows, todo |-> {}]
    /\ sup' = IdleSup
    /\ young' = TRUE
    /\ holder' \in IF holder = "up" THEN {"up", "skewed"} ELSE {holder}
    /\ UNCHANGED <<row, mirror, faults>>

-----------------------------------------------------------------------------
SelectNext ==
    \E c \in Client :
        \/ \E a \in Account : SelectList(c, a) \/ SelectDaemonless(c, a)
        \/ SelectFilter(c) \/ SelectReserve(c)
        \/ Launch(c) \/ Leave(c)

MigrateStep(m) == MigrateGate(m) \/ MigrateMove(m) \/ MigrateCommit(m)

MigrateNext ==
    \E m \in Migrator :
        \/ MigrateStep(m)
        \/ \E a \in Account, to \in Kind, force \in BOOLEAN : MigrateClaim(m, a, to, force)

HealStep(w) ==
    \/ HealProbe(w) \/ HealClear(w) \/ HealMount(w)
    \/ FallbackClaim(w) \/ FallbackGate(w) \/ FallbackUnmount(w) \/ FallbackCommit(w)

LoopStep ==
    \/ LoopList \/ Reconcile \/ Poll \/ LoopDone \/ HealStep("loop")
    \/ \E a \in Account : LoopClaim(a)

ReplaceStep ==
    \/ ReplaceClaim \/ ReplaceGate \/ ReplaceShutdown \/ ReplaceSpawn \/ ReplaceEnd
    \/ \E a \in Account : ReplaceRemount(a)

SupStep ==
    \/ SupTick \/ SupReread \/ SupDone \/ HealStep("sup") \/ ReplaceStep
    \/ \E a \in Account : SupClaim(a)

EnvNext == HolderDies \/ Mature \/ Restart \/ \E a \in Account : Expire(a)

Next == SelectNext \/ MigrateNext \/ LoopStep \/ SupStep \/ EnvNext

Spec == Init /\ [][Next]_vars

(* Every daemon goroutine keeps running: each of its I/O calls is bounded   *)
(* by a timeout.  Nothing is assumed of clients, sessions or the holder.   *)
FairSpec ==
    /\ Spec
    /\ \A m \in Migrator : WF_vars(MigrateStep(m))
    /\ WF_vars(LoopStep)
    /\ WF_vars(SupStep)

(* A rate-limit backoff runs out: an unhealthy mirror that is polled over   *)
(* and over is healed.  No probe of a live mirror has to fail for that.     *)
HealSpec == FairSpec /\ SF_vars(Poll /\ worker'["loop"].pc = "heal" /\ faults' = faults)

-----------------------------------------------------------------------------
(* Properties.                                                             *)

(* The accounts each actor owns by its place in the code. *)
MigOwns(m) == IF mig[m].pc = "idle" THEN {} ELSE {mig[m].acct}
WorkerOn(w) == IF worker[w].pc = "idle" THEN {} ELSE {worker[w].acct}
ReplaceOwns == IF sup.pc \in ReplacePc THEN sup.ids ELSE {}
FallbackOwns(w) == IF worker[w].pc \in {"gate", "unmount", "commit"}
                     THEN {worker[w].acct} ELSE {}

(* No claim is leaked and none is released early: the claim maps hold what  *)
(* the running handlers own, whatever path each of them takes (the deferred *)
(* endConvert, endPoll and endReplace).                                    *)
ClaimsMatchOwners ==
    /\ converting = (UNION {MigOwns(m) : m \in Migrator})
                    \cup (UNION {FallbackOwns(w) : w \in Worker}) \cup ReplaceOwns
    /\ polling = UNION {IF UnderReplace(w) THEN {} ELSE WorkerOn(w) : w \in Worker}
    /\ replacing <=> sup.pc \in ReplacePc

(* One actor at a time works on a directory: two migrates, a migrate and a  *)
(* poll, the loop and the supervisor, or a replacement and anyone else are  *)
(* never on the same account (the comments on beginConvert and beginPoll).  *)
SoleMutator ==
    /\ \A m1, m2 \in Migrator : m1 # m2 => MigOwns(m1) \cap MigOwns(m2) = {}
    /\ \A m \in Migrator, w \in Worker : MigOwns(m) \cap WorkerOn(w) = {}
    /\ WorkerOn("loop") \cap WorkerOn("sup") = {}
    /\ \A m \in Migrator : MigOwns(m) \cap ReplaceOwns = {}
    /\ WorkerOn("loop") \cap ReplaceOwns = {}

(* A reservation and a conversion never meet on an account: tryReserve and  *)
(* beginConvert test each other's field in the same critical section.      *)
ReservedNotConverting == reserved \cap converting = {}

(* The claudes select has sent to a directory, launched or about to be. *)
Users(a) == {c \in Client : /\ client[c].pc \in {"launching", "session"}
                            /\ client[c].acct = a}

(* The directories being remade by anyone who had to find them idle. *)
Remaking(a) ==
    \/ \E m \in Migrator : /\ mig[m].pc \in {"cleared", "moved"}
                           /\ mig[m].acct = a /\ ~mig[m].force
    \/ \E w \in Worker : worker[w].pc \in {"unmount", "commit"} /\ worker[w].acct = a
    \/ sup.pc \in {"shutdown", "spawn", "remount"} /\ a \in sup.ids

Lease == INSTANCE DirLease WITH users <- [a \in Account |-> Users(a)],
                                remaking <- {a \in Account : Remaking(a)}

(* No directory is remade under a claude the daemon can know of, from the   *)
(* reply of select on: the idle checks of convertAccount, fallbackToSymlink *)
(* and skewReplaceGate hold until the work is done, for conversions not     *)
(* forced.  The daemon cannot know of a claude that came in without asking  *)
(* (--no-daemon), nor of one a daemon that is gone had handed out and that  *)
(* was not running yet when this one started.                              *)
NoRemakeUnderClient ==
    \A a \in Account : Remaking(a) => \A c \in Users(a) : client[c].known = "no"

(* The claims implement the readers-writers lease on every directory: a     *)
(* remake starts on an unused directory only, a claude enters a directory   *)
(* only while it is not being remade.                                      *)
ImplementsLease == Lease!LeaseSpec

(* While the holder is retired no claude is on a fuse row or on its way to  *)
(* one, even one a previous daemon handed out (the uptime leg of            *)
(* skewReplaceGate).                                                       *)
ReplaceFenced ==
    sup.pc \in {"shutdown", "spawn", "remount"} =>
        \A a \in FuseRows : a \in converting /\ Users(a) = {}

(* A live mirror under a fuse row is not unmounted while a claude the       *)
(* daemon can know of runs in it, but by a forced migrate, by the loop when *)
(* it acts on a row it listed before the row changed, or by a heal to which *)
(* the mirror had read dead (mountFuse clears it without an idle check).    *)
SessionKeepsMirror ==
    [][\A c \in Client : LET a == client[c].acct IN
         /\ client[c].pc = "session" /\ client'[c].pc = "session" /\ client[c].known = "yes"
         /\ row[a] = "fuse" /\ mirror[a] = "live" /\ mirror'[a] = "none"
         => \/ \E m \in Migrator : mig[m].acct = a /\ mig[m].force
            \/ worker["loop"].acct = a /\ worker["loop"].kind # row[a]
            \/ \E w \in Worker : worker[w].acct = a /\ worker[w].pc = "clear"]_vars

(* What pollOnce says of its claim, that it closes the window between check *)
(* and act: its self-heal never mounts a mirror over the directory of a     *)
(* symlink row in which a claude runs.                                     *)
PollSparesSymlinkRows ==
    [][\A c \in Client : LET a == client[c].acct IN
         /\ client[c].pc = "session" /\ client'[c].pc = "session"
         /\ row[a] = "symlink" /\ mirror[a] = "none" /\ mirror'[a] = "live"
         => worker["loop"].acct # a \/ loop.phase # "poll"]_vars

(* Every claim is given back: no account stays hidden from select, and no   *)
(* replacement fences conversions, for ever.                               *)
ClaimsReleased ==
    /\ \A a \in Account : (a \in converting) ~> (a \notin converting)
    /\ \A a \in Account : (a \in polling) ~> (a \notin polling)
    /\ replacing ~> ~replacing

(* A fuse row without a live mirror gets one back, or becomes a symlink     *)
(* row: once migrates, replacements and failures stop, the polls and the    *)
(* supervisor's ticks restore it (the self-heal of pollAccount).            *)
MirrorRestored ==
    <>[](~replacing /\ \A m \in Migrator : mig[m].pc = "idle") =>
        \A a \in Account : []<>(row[a] = "fuse" => mirror[a] = "live")
=============================================================================
