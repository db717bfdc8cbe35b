----------------------------- MODULE HolderCache -----------------------------
(***************************************************************************)
(* What the daemon believes of the mount holder, and what it does about it *)
(* (internal/daemon/holderstate.go, holder.go).  The select path never     *)
(* touches a mountpoint: it asks a cache, which refreshes fill with the    *)
(* holder's answers and which the daemon's own mounts and unmounts amend   *)
(* in place.  An answer that was asked for before such an amendment is     *)
(* thrown away.  The supervisor revives a holder that died and replaces    *)
(* one of another version; a ccp add mounts its directory without telling  *)
(* the daemon, before the account has a row.                               *)
(*                                                                         *)
(* The cache's generation is only ever compared with a copy of itself:     *)
(* "raced" is the set of the refreshes whose copy differs.  Requests to    *)
(* the holder are one step each, for MountHolder models how it serves      *)
(* them; the claims on accounts are those of DaemonClaims, reduced here to *)
(* one worker per directory.  The clock (backoff, uptime, the floor on the *)
(* refreshes of a select) is left out: what waits for it may happen at any *)
(* time, or not at all.                                                    *)
(***************************************************************************)
EXTENDS Naturals, FiniteSets

CONSTANTS
    Dir,       \* account directories
    Proc,      \* processes that may become the holder
    Reader,    \* goroutines that refresh: the poll, selects, the startup
    Worker,    \* goroutines that mount and unmount under an account's claim
    Sup,       \* the supervisor, which does both
    Cache,     \* the cache, and
    Plan,      \* what the supervisor has decided upon, among the answers
    None,      \* nobody
    MaxFaults  \* bound: deaths, failed requests, wrong probes

ASSUME NameAssumption ==
    /\ Reader \cap Worker = {} /\ Sup # Cache /\ Sup # Plan /\ Cache # Plan
    /\ {Sup, Cache, Plan} \cap (Reader \cup Worker) = {}
    /\ None \notin Proc \cup Dir
ASSUME BoundAssumption == MaxFaults \in Nat

Refresher == Reader \cup {Sup}
(* Those who know something of a directory: the cache, an answer on its way *)
(* to it, whoever is about to note a mount or an unmount, and a decision.   *)
Answer == Refresher \cup Worker \cup {Cache, Plan}

VARIABLES
    owner,    \* the process that owns the holder's socket
    version,  \* of each process: "none" before it starts
    going,    \* those running that a Shutdown has reached and that still answer
    acked,    \* those running that have acknowledged a Shutdown
    mirror,   \* of each directory, in the kernel
    row,      \* of each directory: an add in progress, an account's kind
    cache,    \* holderState
    raced,    \* refreshes under way that an amendment has overtaken
    ask,      \* where each refresh is, and the answer it carries
    work,     \* where each worker is
    sup,      \* where the supervisor is
    settled,  \* the version that the daemon's own spawns produce
    blind,    \* history: for each directory, who does not know its last change
    faults    \* failures so far (bound)

holderVars == <<owner, version, going, acked>>
cacheVars == <<cache, raced>>
vars == <<holderVars, mirror, row, cacheVars, ask, work, sup, settled, blind, faults>>

Version == {"ours", "old", "new"}
Seen == [Dir -> {"absent", "dead", "live"}]
Unseen == [d \in Dir |-> "absent"]

CacheState == [healthy : BOOLEAN, ver : Version \cup {""}, mounts : Seen,
               bases : SUBSET Dir, ever : BOOLEAN]
AskState == [pc : {"idle", "list", "install", "fail"}, ver : Version \cup {""}, list : Seen]
WorkState == [pc : {"idle", "mounted", "unmounted"}, dir : Dir \cup {None}]
SupPc == {"idle", "tick", "spawn", "verify", "verified", "remount", "note",
          "capture", "shutdown", "sweep", "mark", "gone", "kill", "reaped"}
SupState == [pc : SupPc, carry : SUBSET Dir, known : SUBSET Dir, replacing : BOOLEAN,
             pid : Proc \cup {None}, reply : BOOLEAN, dir : Dir \cup {None}]

IdleAsk == [pc |-> "idle", ver |-> "", list |-> Unseen]
IdleWork == [pc |-> "idle", dir |-> None]
IdleSup == [pc |-> "idle", carry |-> {}, known |-> {}, replacing |-> FALSE,
            pid |-> None, reply |-> FALSE, dir |-> None]

TypeOK ==
    /\ owner \in Proc \cup {None}
    /\ version \in [Proc -> Version \cup {"none"}]
    /\ going \subseteq Proc /\ acked \subseteq Proc
    /\ mirror \in [Dir -> {"none", "live", "dead", "carcass"}]
    /\ row \in [Dir -> {"none", "adding", "fuse", "symlink"}]
    /\ cache \in CacheState
    /\ raced \subseteq Refresher
    /\ ask \in [Refresher -> AskState]
    /\ work \in [Worker -> WorkState]
    /\ sup \in SupState
    /\ settled \in Version \cup {""}
    /\ blind \in [Dir -> SUBSET Answer]
    /\ faults \in Nat

(* A daemon has started under a holder that outlived the one before it.     *)
Init ==
    /\ owner \in Proc
    /\ version = [p \in Proc |-> IF p = owner THEN "old" ELSE "none"]
    /\ going = {} /\ acked = {}
    /\ row \in [Dir -> {"none", "fuse"}]
    /\ mirror = [d \in Dir |-> IF row[d] = "fuse" THEN "live" ELSE "none"]
    /\ cache = [healthy |-> FALSE, ver |-> "", mounts |-> Unseen, bases |-> {}, ever |-> FALSE]
    /\ raced = {}
    /\ ask = [r \in Refresher |-> IdleAsk]
    /\ work = [w \in Worker |-> IdleWork]
    /\ sup = IdleSup /\ settled = ""
    /\ blind = [d \in Dir |-> {}]
    /\ faults = 0

Fault == faults < MaxFaults /\ faults' = faults + 1
Flawless == UNCHANGED faults

(* Does the holder answer?  One that takes its mirrors down does, one that  *)
(* has acknowledged the Shutdown and keeps its socket does not.             *)
Serving == owner # None /\ owner \notin acked

(* holderState.ready, heldDead and mountDirs.                               *)
Ready(d) == cache.healthy /\ cache.mounts[d] = "live"
MountDirs == {d \in Dir : cache.mounts[d] # "absent"}

(* About to note what was done to d.                                        *)
Noter(d) == {w \in Worker : work[w].dir = d} \cup (IF sup.dir = d THEN {Sup} ELSE {})

(* Who carries something of d into the cache, now or later, or acts upon it.*)
Carrier(d) ==
    {Cache} \cup {r \in Refresher : ask[r].pc = "install"} \cup Noter(d)
            \cup (IF sup.pc \notin {"idle", "tick"} THEN {Plan} ELSE {})

(* A holder has been told to go, of which the cache will soon be.           *)
Sweeping == sup.pc \in {"sweep", "mark"}

(* What the cache has of d is as new as what the daemon was told.           *)
Current(d) == Cache \notin blind[d] /\ Noter(d) = {} /\ ~Sweeping

(* Something happens to mirrors of which the daemon is not told.            *)
Untold(dirs) == blind' = [d \in Dir |-> IF d \in dirs THEN Carrier(d) ELSE blind[d]]

(* A goroutine of the daemon changes d: it will amend the cache, but neither *)
(* the supervisor's decision nor a note that is about to be made.           *)
Told(d, who) ==
    blind' = [blind EXCEPT ![d] = (@ \cup ({Plan} \cap Carrier(d)) \cup Noter(d)) \ {who}]

-----------------------------------------------------------------------------
(* The cache.                                                               *)

Bump == raced' = {r \in Refresher : ask[r].pc # "idle"}

\* Mutant: amendments do not count as such.
NoteUnmountedUncounted(d) ==
    /\ cache' = [cache EXCEPT !.mounts[d] = "absent", !.bases = @ \ {d}]
    /\ UNCHANGED raced

NoteUnmounted(d) ==
    /\ cache' = [cache EXCEPT !.mounts[d] = "absent", !.bases = @ \ {d}]
    /\ Bump

\* Mutant: amendments do not count as such.
NoteMountedUncounted(d) ==
    /\ cache' = [cache EXCEPT !.healthy = TRUE, !.mounts[d] = "live", !.ever = TRUE]
    /\ UNCHANGED raced

NoteMounted(d) ==
    /\ cache' = [cache EXCEPT !.healthy = TRUE, !.mounts[d] = "live", !.ever = TRUE]
    /\ Bump

(* The mounts go, their bases stay: a revive needs them.                    *)
MarkUnhealthy ==
    /\ cache' = [cache EXCEPT !.healthy = FALSE, !.ver = "", !.mounts = Unseen]
    /\ Bump

(* The one who makes a note knew what it knew when it acted.                *)
Inform(d, who) ==
    blind' = [blind EXCEPT ![d] = IF who \in @ THEN (@ \cup {Cache}) \ {who} ELSE @ \ {Cache}]

Step(r, fields) == ask' = [ask EXCEPT ![r] = fields]

(* refresh: it copies the generation and asks for the version.  The daemon  *)
(* refreshes at its start, with each poll, and when a select finds a row    *)
(* the cache does not vouch for.                                            *)
AskHealth(r) ==
    /\ ask[r].pc = "idle"
    /\ raced' = raced \ {r}
    /\ \/ Serving /\ Flawless /\ Step(r, [IdleAsk EXCEPT !.pc = "list", !.ver = version[owner]])
       \/ ~Serving /\ Flawless /\ Step(r, [IdleAsk EXCEPT !.pc = "fail"])
       \/ Serving /\ Fault /\ Step(r, [IdleAsk EXCEPT !.pc = "fail"])

(* A refresh ends.                                                          *)
Forget(r) == [d \in Dir |-> blind[d] \ {r}]

RefreshHealth(r) ==
    /\ AskHealth(r)
    /\ UNCHANGED <<holderVars, mirror, row, cache, work, sup, settled, blind>>

(* The holder lists the mounts of its registry, which has none that another *)
(* process left behind.  A probe may time out on a live one.                *)
Listed(slow) ==
    [d \in Dir |-> CASE mirror[d] \in {"none", "carcass"} -> "absent"
                     [] mirror[d] = "live" /\ d \notin slow -> "live"
                     [] OTHER -> "dead"]

RefreshList(r) ==
    /\ ask[r].pc = "list"
    /\ \/ /\ Serving
          /\ \E slow \in SUBSET {d \in Dir : mirror[d] = "live"} :
               /\ IF slow = {} THEN Flawless ELSE Fault
               /\ Step(r, [ask[r] EXCEPT !.pc = "install", !.list = Listed(slow)])
               /\ blind' = [d \in Dir |-> IF d \in slow THEN blind[d] \cup {r} ELSE blind[d]]
       \/ /\ IF Serving THEN Fault ELSE Flawless
          /\ Step(r, [IdleAsk EXCEPT !.pc = "fail"])
          /\ UNCHANGED blind
    /\ UNCHANGED <<holderVars, mirror, row, cacheVars, work, sup, settled>>

(* A failure is not compared with the generation, and is one more amendment.*)
RefreshFail(r) ==
    /\ ask[r].pc = "fail"
    /\ Step(r, IdleAsk)
    /\ cache' = [cache EXCEPT !.healthy = FALSE, !.ver = "", !.mounts = Unseen]
    /\ raced' = {s \in Refresher : ask[s].pc # "idle"} \ {r}
    /\ UNCHANGED <<holderVars, mirror, row, work, sup, settled, blind, faults>>

\* Mutant: what the holder once served is never forgotten.
ListedBasesKept(list) == cache.bases \cup {d \in Dir : list[d] # "absent"}

ListedBases(list) == {d \in Dir : list[d] # "absent"}

RefreshInstall(r) ==
    /\ ask[r].pc = "install"
    /\ Step(r, IdleAsk)
    /\ raced' = raced \ {r}
    /\ IF r \in raced
         THEN blind' = Forget(r) /\ UNCHANGED cache
         ELSE /\ cache' = [healthy |-> TRUE, ver |-> ask[r].ver, mounts |-> ask[r].list,
                           bases |-> ListedBases(ask[r].list),
                           ever |-> cache.ever \/ ask[r].list # Unseen]
              /\ blind' = [d \in Dir |-> (IF r \in blind[d] THEN {Cache} ELSE {})
                                           \cup (blind[d] \ {r, Cache})]
    /\ UNCHANGED <<holderVars, mirror, row, work, sup, settled, faults>>

-----------------------------------------------------------------------------
(* The holder and its mirrors.                                              *)

Rows == {d \in Dir : row[d] \in {"fuse", "symlink"}}
FuseRows == {d \in Dir : row[d] = "fuse"}

(* No claim on the account is out.                                          *)
Free(d) ==
    /\ \A w \in Worker : work[w].dir # d
    /\ ~sup.replacing /\ ~(sup.dir = d /\ d \in sup.known)

(* A mirror that the process that made it has in its registry.              *)
Up(d) == mirror[d] \in {"live", "dead"}

(* Every mirror of a process goes dead with it.                             *)
Orphan ==
    /\ mirror' = [d \in Dir |-> IF mirror[d] = "none" THEN "none" ELSE "carcass"]
    /\ Untold({d \in Dir : Up(d)})

Ends ==
    /\ owner' = None
    /\ going' = going \ {owner} /\ acked' = acked \ {owner}
    /\ Orphan

HolderDies ==
    /\ owner # None
    /\ Ends
    /\ IF owner \in acked THEN Flawless ELSE Fault
    /\ UNCHANGED <<version, row, cacheVars, ask, work, sup, settled>>

MirrorDies(d) ==
    /\ mirror[d] = "live" /\ Fault
    /\ mirror' = [mirror EXCEPT ![d] = "dead"]
    /\ Untold({d})
    /\ UNCHANGED <<holderVars, row, cacheVars, ask, work, sup, settled>>

(* A holder that has been told to go takes down what it has, with a row or  *)
(* without, and acknowledges; what it cannot take down stays.  The daemon   *)
(* marks the cache when it has the reply, if it still waits for one.        *)
HolderSweeps ==
    /\ owner \in going
    /\ going' = going \ {owner} /\ acked' = acked \cup {owner}
    /\ \E left \in SUBSET {d \in Dir : mirror[d] = "live"} :
         /\ mirror' = [d \in Dir |-> IF d \in left THEN "live" ELSE "none"]
         /\ IF left = {} THEN Flawless ELSE Fault
    /\ Untold(IF Sweeping THEN Dir \ Rows ELSE Dir)
    /\ UNCHANGED <<owner, version, row, cacheVars, ask, work, sup, settled>>

(* EnsureRunning: nothing to do while the socket answers a dial, else a     *)
(* process of the binary that is now installed.                             *)
Spawn ==
    IF owner # None THEN UNCHANGED <<owner, version>>
    ELSE \E p \in Proc, v \in {"ours", "new"} :
           /\ version[p] = "none"
           /\ owner' = p /\ version' = [version EXCEPT ![p] = v]

(* RemoteProvider.Setup and Teardown, as far as they succeed: a live mirror *)
(* is adopted without the holder, one that is down is made by it.           *)
CanSetup(d) == mirror[d] = "live" \/ Serving
CanTeardown(d) == mirror[d] = "none" \/ Serving

(* Both see first to it that a holder runs: those of an add or a remove     *)
(* whenever they like, a worker's under its claim, and the supervisor's.    *)
(* Which process comes up does not depend on who has asked for it.          *)
ProviderSpawn ==
    /\ owner = None
    /\ \E d \in Dir :
         \/ row[d] \in {"none", "adding"} \/ mirror[d] # "none"
         \/ d \in Rows /\ (Free(d) \/ sup.pc = "remount")
         \/ \E w \in Worker : work[w].dir = d
    /\ Spawn
    /\ UNCHANGED <<going, acked, mirror, row, cacheVars, ask, work, sup, settled, blind, faults>>

-----------------------------------------------------------------------------
(* ccp add and ccp rm, in processes of their own.                           *)

AddMount(d) ==
    /\ row[d] = "none" /\ CanSetup(d)
    /\ row' = [row EXCEPT ![d] = "adding"]
    /\ mirror' = [mirror EXCEPT ![d] = "live"]
    /\ Untold({d})
    /\ UNCHANGED <<holderVars, cacheVars, ask, work, sup, settled, faults>>

AddFinalize(d) ==
    /\ row[d] = "adding"
    /\ row' = [row EXCEPT ![d] = "fuse"]
    /\ UNCHANGED <<holderVars, mirror, cacheVars, ask, work, sup, settled, blind, faults>>

(* An add that is abandoned, or an account that is removed: the mirror goes *)
(* down first.                                                              *)
CliRemove(d) ==
    /\ row[d] # "none" /\ CanTeardown(d)
    /\ row' = [row EXCEPT ![d] = "none"]
    /\ mirror' = [mirror EXCEPT ![d] = "none"]
    /\ Untold({d})
    /\ UNCHANGED <<holderVars, cacheVars, ask, work, sup, settled, faults>>

-----------------------------------------------------------------------------
(* Workers: heals and conversions, one at a time per account.               *)

Work(w, pc, d) == work' = [work EXCEPT ![w] = [pc |-> pc, dir |-> d]]

(* mountFuse, or a migrate towards fuse: Setup has succeeded.               *)
WorkMount(w, d) ==
    /\ work[w].pc = "idle" /\ d \in Rows /\ Free(d)
    /\ CanSetup(d)
    /\ mirror' = [mirror EXCEPT ![d] = "live"]
    /\ Work(w, "mounted", d) /\ Told(d, w)
    /\ UNCHANGED <<holderVars, row, cacheVars, ask, sup, settled, faults>>

(* A migrate or a fallback towards symlink: Teardown has succeeded.         *)
WorkUnmount(w, d) ==
    /\ work[w].pc = "idle" /\ d \in FuseRows /\ Free(d)
    /\ CanTeardown(d)
    /\ mirror' = [mirror EXCEPT ![d] = "none"]
    /\ Work(w, "unmounted", d) /\ Told(d, w)
    /\ UNCHANGED <<holderVars, row, cacheVars, ask, sup, settled, faults>>

WorkNote(w) ==
    LET d == work[w].dir
        mounted == work[w].pc = "mounted" IN
    /\ work[w].pc # "idle"
    /\ IF mounted THEN NoteMounted(d) ELSE NoteUnmounted(d)
    /\ row' = [row EXCEPT ![d] = IF @ = "none" THEN @ ELSE IF mounted THEN "fuse" ELSE "symlink"]
    /\ Inform(d, w)
    /\ Work(w, "idle", None)
    /\ UNCHANGED <<holderVars, mirror, ask, sup, settled, faults>>

(* A conversion that fails after its unmount, or that has to take its mount *)
(* down again, makes no note of it (convertAccount, fallbackToSymlink).     *)
WorkFail(w) ==
    LET d == work[w].dir IN
    /\ work[w].pc # "idle" /\ Fault
    /\ CanTeardown(d)
    /\ mirror' = [mirror EXCEPT ![d] = "none"]
    /\ Work(w, "idle", None)
    /\ blind' = [blind EXCEPT ![d] = Carrier(d) \ {w}]
    /\ UNCHANGED <<holderVars, row, cacheVars, ask, sup, settled>>

-----------------------------------------------------------------------------
(* The supervisor.                                                          *)

SupStep(pc) == sup' = [sup EXCEPT !.pc = pc]
SupEnds == sup' = IdleSup

SupTick ==
    /\ sup.pc = "idle"
    /\ AskHealth(Sup)
    /\ SupStep("tick")
    /\ UNCHANGED <<holderVars, mirror, row, cache, work, settled, blind>>

\* Mutant: the gate asks the claims only.
GateOpenClaimsOnly == \A w \in Worker : work[w].pc = "idle"

(* No claim is out, and the holder serves no directory without a row.       *)
(* Sessions and uptime are legs of DaemonClaims.                            *)
GateOpen == (\A w \in Worker : work[w].pc = "idle") /\ MountDirs \subseteq Rows

(* A holder of another version, unless the daemon's own spawns produce it.  *)
Replaces == cache.ver \notin {"", "ours", settled}

(* superviseTick, when its refresh is done: it may have to wait, or it      *)
(* revives, or heals rows, or replaces.  Rows, and the bases of what a dead *)
(* holder served, are copied before the spawn.                              *)
SupDecide ==
    /\ sup.pc = "tick" /\ ask[Sup].pc = "idle"
    /\ \/ SupEnds /\ UNCHANGED blind
       \/ /\ \/ /\ ~cache.healthy /\ (FuseRows # {} \/ cache.ever)
                /\ sup' = [sup EXCEPT !.pc = "spawn", !.carry = cache.bases, !.known = Rows]
             \/ /\ cache.healthy /\ cache.ver # "" /\ ~Replaces
                /\ sup' = [sup EXCEPT !.pc = "remount", !.known = Rows]
             \/ /\ cache.healthy /\ Replaces /\ GateOpen
                /\ sup' = [sup EXCEPT !.pc = "capture", !.known = Rows, !.replacing = TRUE]
          /\ blind' = [d \in Dir |-> IF Current(d) THEN blind[d] \ {Plan}
                                    ELSE blind[d] \cup {Plan}]
    /\ UNCHANGED <<holderVars, mirror, row, cacheVars, ask, work, settled, faults>>

SupSpawn ==
    /\ sup.pc = "spawn"
    /\ \/ Spawn /\ SupStep("verify") /\ Flawless
       \/ UNCHANGED <<owner, version>> /\ SupEnds /\ Fault
    /\ UNCHANGED <<going, acked, mirror, row, cacheVars, ask, work, settled, blind>>

SupVerify ==
    /\ sup.pc = "verify"
    /\ AskHealth(Sup)
    /\ SupStep("verified")
    /\ UNCHANGED <<holderVars, mirror, row, cache, work, settled, blind>>

(* verifySpawnedHolder, noteSpawnedVersion: an unknown version is no news.  *)
SupVerified ==
    /\ sup.pc = "verified" /\ ask[Sup].pc = "idle"
    /\ IF cache.healthy
         THEN /\ settled' = CASE cache.ver = "" -> settled [] cache.ver = "ours" -> ""
                              [] OTHER -> cache.ver
              /\ SupStep("remount")
         ELSE SupEnds /\ UNCHANGED settled
    /\ UNCHANGED <<holderVars, mirror, row, cacheVars, ask, work, blind, faults>>

(* Rows that the cache does not vouch for, under their claims; and what the *)
(* dead holder served without a row, which nobody can claim.                *)
SupRemount(d) ==
    /\ sup.pc = "remount" /\ ~Ready(d) /\ CanSetup(d)
    /\ \/ d \in sup.known \cap FuseRows /\ (\A w \in Worker : work[w].dir # d)
       \/ d \in sup.carry \ sup.known
    /\ mirror' = [mirror EXCEPT ![d] = "live"]
    /\ sup' = [sup EXCEPT !.pc = "note", !.dir = d]
    /\ Told(d, Sup)
    /\ UNCHANGED <<holderVars, row, cacheVars, ask, work, settled, faults>>

SupNote ==
    /\ sup.pc = "note"
    /\ NoteMounted(sup.dir) /\ Inform(sup.dir, Sup)
    /\ sup' = [sup EXCEPT !.pc = "remount", !.dir = None, !.carry = @ \ {sup.dir}]
    /\ UNCHANGED <<holderVars, mirror, row, ask, work, settled, faults>>

(* The pass ends; what it could not mount waits for the next.               *)
SupDone ==
    /\ sup.pc = "remount"
    /\ SupEnds
    /\ UNCHANGED <<holderVars, mirror, row, cacheVars, ask, work, settled, blind, faults>>

(* replaceSkewedHolder: whom the socket leads to is noted first.            *)
ReplaceCapture ==
    /\ sup.pc = "capture"
    /\ sup' = [sup EXCEPT !.pc = "shutdown", !.pid = owner]
    /\ UNCHANGED <<holderVars, mirror, row, cacheVars, ask, work, settled, blind, faults>>

(* The Shutdown reaches whoever owns the socket now, or is lost.            *)
ReplaceShutdown ==
    /\ sup.pc = "shutdown"
    /\ \/ /\ Serving /\ Flawless
          /\ going' = going \cup {owner}
          /\ SupStep("sweep")
       \/ /\ IF Serving THEN Fault ELSE Flawless
          /\ sup' = [sup EXCEPT !.pc = "mark", !.reply = FALSE]
          /\ UNCHANGED going
    /\ UNCHANGED <<owner, version, acked, mirror, row, cacheVars, ask, work, settled, blind>>

(* The holder has swept or is no more, and its reply arrives or is lost; or *)
(* the deadline passes while it sweeps.                                     *)
ReplaceReply ==
    /\ sup.pc = "sweep"
    /\ \E reply \in BOOLEAN :
         /\ reply => owner \notin going
         /\ IF ~reply /\ owner \in going \cup acked THEN Fault ELSE Flawless
         /\ sup' = [sup EXCEPT !.pc = "mark", !.reply = reply]
    /\ UNCHANGED <<holderVars, mirror, row, cacheVars, ask, work, settled, blind>>

ReplaceMark ==
    /\ sup.pc = "mark"
    /\ MarkUnhealthy
    /\ SupStep("gone")
    /\ UNCHANGED <<holderVars, mirror, row, ask, work, settled, blind, faults>>

(* WaitGoneContext.                                                         *)
ReplaceGone ==
    /\ sup.pc = "gone"
    /\ \/ owner = None /\ SupStep("spawn")
       \/ owner # None /\ sup.reply /\ SupStep("kill")
       \/ owner # None /\ ~sup.reply /\ SupEnds
    /\ UNCHANGED <<holderVars, mirror, row, cacheVars, ask, work, settled, blind, faults>>

\* Mutant: whoever owns the socket is killed.
KillTargetNow == owner

(* peerpid.KillPid: nobody, if the socket now leads to another process.     *)
KillTarget == IF owner = sup.pid THEN owner ELSE None

ReplaceKill ==
    /\ sup.pc = "kill"
    /\ IF KillTarget # None
         THEN Ends /\ SupStep("reaped")
         ELSE /\ UNCHANGED <<owner, going, acked, mirror, blind>>
              /\ IF owner = None THEN SupStep("spawn") ELSE SupEnds
    /\ UNCHANGED <<version, row, cacheVars, ask, work, settled, faults>>

ReplaceReaped ==
    /\ sup.pc = "reaped"
    /\ IF owner = None THEN SupStep("spawn") ELSE SupEnds
    /\ UNCHANGED <<holderVars, mirror, row, cacheVars, ask, work, settled, blind, faults>>

-----------------------------------------------------------------------------
Refresh(r) == (r # Sup /\ RefreshHealth(r)) \/ RefreshList(r) \/ RefreshFail(r) \/ RefreshInstall(r)

Supervise ==
    \/ SupTick \/ SupDecide \/ SupSpawn \/ SupVerify \/ SupVerified
    \/ \E d \in Dir : SupRemount(d)
    \/ SupNote \/ SupDone

Replace ==
    \/ ReplaceCapture \/ ReplaceShutdown \/ ReplaceReply \/ ReplaceMark \/ ReplaceGone
    \/ ReplaceKill \/ ReplaceReaped

WorkerStep(w) ==
    \/ \E d \in Dir : WorkMount(w, d) \/ WorkUnmount(w, d)
    \/ WorkNote(w) \/ WorkFail(w)

Cli == \E d \in Dir : AddMount(d) \/ AddFinalize(d) \/ CliRemove(d)

Holder == ProviderSpawn \/ HolderSweeps

Environment == HolderDies \/ \E d \in Dir : MirrorDies(d)

Next ==
    \/ \E r \in Refresher : Refresh(r)
    \/ \E w \in Worker : WorkerStep(w)
    \/ Supervise \/ Replace \/ Holder \/ Cli \/ Environment

Spec == Init /\ [][Next]_vars

-----------------------------------------------------------------------------
(* Properties.                                                              *)

(* The cache vouches for a mirror only if it is up, or went down without    *)
(* the daemon's being told since the answer was computed: no answer brings  *)
(* back a mirror that the daemon has taken down (holderState.gen).          *)
NoFalseVouch == \A d \in Dir : Ready(d) /\ Current(d) => mirror[d] = "live"

(* And it misses no mirror that is up: no answer asked for before a mount   *)
(* was noted takes the note away (holderState.gen, noteMounted).            *)
NoLostMount == \A d \in Dir :
    cache.ver # "" /\ Current(d) /\ mirror[d] = "live" => Ready(d)

(* The supervisor kills only a process that has acknowledged its Shutdown,  *)
(* never one that has come up since (reapWedgedHolder, KillPid).            *)
KillsOnlyRetired == [][ReplaceKill /\ owner' # owner => owner \in acked]_vars

(* While it is replaced a holder takes down the mirror of an add only if    *)
(* the gate could not know of it (skewReplaceGate).                         *)
SparesAdds == [][HolderSweeps /\ sup.replacing =>
    \A d \in Dir : row[d] = "adding" /\ mirror[d] = "live" /\ mirror'[d] = "none"
        => Plan \in blind[d]]_vars

(* A revive mounts a directory without a row only if its add goes on, or if *)
(* the holder has it still, or what it was before that changed when the     *)
(* daemon could not know (bases, noteUnmounted).                            *)
NoResurrection == [][\A d \in Dir :
    SupRemount(d) => row[d] \in {"adding", "fuse"} \/ Up(d) \/ Plan \in blind[d]]_vars
=============================================================================
