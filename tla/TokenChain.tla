------------------------------ MODULE TokenChain ------------------------------
(***************************************************************************)
(* The token chain of one account (internal/pool/usage.go): its credential *)
(* holds a refresh token that the provider accepts once and replaces by    *)
(* another.  The daemon's poll and preflights, and ccp commands in         *)
(* processes of their own, refresh it under a lock; a running claude       *)
(* rotates it without.  A chain breaks, and the user has to log in again,  *)
(* when the newest token is not in the store and nobody is about to put it *)
(* there.                                                                  *)
(*                                                                         *)
(* Credentials are numbered as the provider issues them.  One account is   *)
(* enough, for the locks and the scans' answers are per account.  A        *)
(* request to the provider, a read and a write of the store are one step   *)
(* each; the read shares a step with the lock.  One claude at a time       *)
(* rotates (claude's own affair), and it reads the store when it does.     *)
(***************************************************************************)
EXTENDS Naturals

CONSTANTS
    Preflight,  \* preflight goroutines of the daemon
    Cli,        \* ccp processes that sample or select without the daemon
    Claude,     \* claude processes of the account
    Poll,       \* the scheduler's goroutine
    None,       \* "nobody"; a credential without a refresh token
    MaxIssued,  \* bound: credentials issued after the first
    MaxFaults   \* bound: lost answers, failed writes and scans, kills

ASSUME ActorAssumption ==
    /\ Poll \notin Preflight \cup Cli /\ Preflight \cap Cli = {}
    /\ None \notin Preflight \cup Cli \cup {Poll} \cup Nat
ASSUME BoundAssumption == MaxIssued \in Nat /\ MaxFaults \in Nat

Worker == Preflight \cup Cli \cup {Poll}

VARIABLES
    stored,    \* the credential in the keychain (or in claude's file)
    issued,    \* the newest credential
    valid,     \* the oldest whose refresh token is still the current one
    lock,      \* the worker in lockAccount's critical section
    work,      \* what each worker is doing
    session,   \* where each claude is
    held,      \* the credential that a rotating claude has yet to store
    reserved,  \* does the daemon hold a reservation of the account?
    excuse,    \* history: what may have cost the chain its newest token
    faults     \* failures so far (bound)

chainVars == <<stored, issued, valid, excuse>>
sessionVars == <<session, held, reserved>>
vars == <<chainVars, lock, work, sessionVars, faults>>

Cred == 0..MaxIssued
Pc == {"idle", "scan", "decide", "wait", "adopt", "post", "save", "usage", "launch"}
(* "preflight" is EnsureFreshToken, "sample" and "select" are SampleUsage.  *)
(* "unseen" is history: the claudes that the worker could not see when it   *)
(* looked whether the account is in use.                                   *)
Job == {"adopt", "sample", "select", "preflight"}
Idle == [pc |-> "idle", job |-> "sample", allow |-> FALSE, unseen |-> {},
         cred |-> None, new |-> None, then |-> "done"]

WorkState == [pc : Pc, job : Job, allow : BOOLEAN, unseen : SUBSET Claude,
              cred : Cred \cup {None}, new : Cred \cup {None}, then : {"usage", "done"}]

TypeOK ==
    /\ stored \in Cred \cup {None}
    /\ issued \in Cred /\ valid \in 0..issued
    /\ lock \in Worker \cup {None}
    /\ work \in [Worker -> WorkState]
    /\ \A w \in Worker : work[w].pc = "launch" => w \in Cli
    /\ session \in [Claude -> {"none", "launching", "live", "rotating"}]
    /\ held \in Cred
    /\ reserved \in BOOLEAN
    /\ excuse \subseteq {"lost", "unsaved", "killed", "overlap"}
    /\ faults \in Nat

Init ==
    /\ stored = 0 /\ issued = 0 /\ valid = 0
    /\ lock = None
    /\ work = [w \in Worker |-> Idle]
    /\ session = [c \in Claude |-> "none"]
    /\ held = 0 /\ reserved = FALSE
    /\ excuse = {} /\ faults = 0

Fault == faults < MaxFaults /\ faults' = faults + 1

Running(c) == session[c] \in {"live", "rotating"}
Rotating == \E c \in Claude : session[c] = "rotating"

(* The store holds the current refresh token.                              *)
Whole == stored # None /\ stored >= valid

-----------------------------------------------------------------------------
(* The provider.                                                           *)

(* A refresh that it accepts: a new credential, with a new refresh token or *)
(* without.                                                                *)
Issue(rotated) ==
    /\ issued < MaxIssued
    /\ issued' = issued + 1
    /\ valid' = IF rotated THEN issued + 1 ELSE valid

Accepts(cred) == cred >= valid

-----------------------------------------------------------------------------
(* Is the account in use?  Every worker looks before it asks for the lock. *)

Step(w, fields) == work' = [work EXCEPT ![w] = fields]
At(w, pc) == [work[w] EXCEPT !.pc = pc]

(* procscan sees running claudes, not those about to be.  A scan that fails *)
(* is taken for one that saw none (PreflightRefresh, pollOnce, Snapshots).  *)
Scan(sawNone, unseen) ==
    \/ /\ sawNone = (\A c \in Claude : ~Running(c))
       /\ unseen = {c \in Claude : session[c] = "launching"}
       /\ UNCHANGED faults
    \/ /\ sawNone /\ Fault
       /\ unseen = {c \in Claude : session[c] # "none"}

Looked(sawNone, unseen) == [Idle EXCEPT !.allow = sawNone, !.unseen = unseen]

(* pollOnce scans once, before it visits the accounts.                     *)
PollScan ==
    /\ work[Poll].pc = "idle"
    /\ \E sawNone \in BOOLEAN, unseen \in SUBSET Claude :
         /\ Scan(sawNone, unseen)
         /\ Step(Poll, [Looked(sawNone, unseen) EXCEPT !.pc = "decide"])
    /\ UNCHANGED <<chainVars, lock, sessionVars>>

\* Mutant: an account that was just handed out is taken for idle.
AccountIdleUnreserved(sawNone) == sawNone

AccountIdle(sawNone) == sawNone /\ ~reserved

(* pollAccount.  A rate-limited account is passed over.                    *)
PollDecide ==
    LET idle == AccountIdle(work[Poll].allow) IN
    /\ work[Poll].pc = "decide"
    /\ \/ Step(Poll, Idle)
       \/ Step(Poll, [At(Poll, "wait") EXCEPT
              !.allow = idle,
              !.job = IF idle THEN "adopt" ELSE "sample",
              !.unseen = IF reserved THEN {c \in @ : session[c] # "launching"} ELSE @])
    /\ UNCHANGED <<chainVars, lock, sessionVars, faults>>

(* PreflightRefresh: nothing to do for an account in use.                  *)
PreflightScan(w) ==
    /\ work[w].pc = "scan"
    /\ \E sawNone \in BOOLEAN, unseen \in SUBSET Claude :
         /\ Scan(sawNone, unseen)
         /\ Step(w, IF sawNone THEN [Looked(sawNone, unseen) EXCEPT !.pc = "wait", !.job = "preflight"]
                    ELSE IF w \in Cli THEN [Idle EXCEPT !.pc = "launch"]
                    ELSE Idle)
    /\ UNCHANGED <<chainVars, lock, sessionVars>>

(* ccp status, and a select without the daemon: sampleStale, if the last    *)
(* sample is old.                                                          *)
CliSample(w) ==
    /\ w \in Cli /\ work[w].pc = "idle"
    /\ \E sawNone \in BOOLEAN, unseen \in SUBSET Claude, job \in {"sample", "select"} :
         /\ Scan(sawNone, unseen)
         /\ Step(w, [Looked(sawNone, unseen) EXCEPT !.pc = "wait", !.job = job])
    /\ UNCHANGED <<chainVars, lock, sessionVars>>

(* prepareAccount at once: a fresh sample, or an account that the user      *)
(* asked for, in which case the daemon may have reserved it.               *)
CliPrepare(w) ==
    /\ w \in Cli /\ work[w].pc = "idle"
    /\ Step(w, [Idle EXCEPT !.pc = "scan"])
    /\ reserved' \in {reserved, TRUE}
    /\ UNCHANGED <<chainVars, lock, session, held, faults>>

-----------------------------------------------------------------------------
(* Under the lock.                                                         *)

\* Mutant: workers of different processes do not exclude each other.
LockFreeAlways == TRUE

LockFree == lock = None

(* After an adoption the poll samples; after a sample a select goes on to   *)
(* the preflight; after that ccp becomes the claude.                       *)
NextJob(w) ==
    CASE work[w].job = "adopt" -> [At(w, "wait") EXCEPT !.job = "sample", !.cred = None]
      [] work[w].job = "select" -> [Idle EXCEPT !.pc = "scan"]
      [] work[w].job = "preflight" /\ w \in Cli -> [Idle EXCEPT !.pc = "launch"]
      [] OTHER -> Idle

(* Once the store holds the newest token and nobody is at work on it, what  *)
(* was done to the chain is past.                                          *)
Settle(blame) == excuse' = IF Whole' /\ ~Rotating' /\ lock' = None THEN {} ELSE excuse \cup blame

Finish(w) == lock' = None /\ Step(w, NextJob(w))

Enter(w) ==
    /\ lock' = w
    /\ excuse' = IF Rotating THEN excuse \cup {"overlap"} ELSE excuse

(* lockAccount and readCred for AdoptRotatedToken.                         *)
LockToAdopt(w) ==
    /\ work[w].pc = "wait" /\ work[w].job = "adopt" /\ LockFree
    /\ Enter(w)
    /\ Step(w, [At(w, "adopt") EXCEPT !.cred = stored])
    /\ UNCHANGED <<stored, issued, valid, sessionVars, faults>>

WriteBack(w) ==
    /\ work[w].pc = "adopt"
    /\ stored' \in {work[w].cred, stored}
    /\ UNCHANGED <<issued, valid, sessionVars, faults>>
    /\ Finish(w) /\ Settle({})

(* ensureFreshToken up to the request.  Time passes: any credential may     *)
(* meanwhile be near its expiry.                                           *)
LockToRefresh(w, nearExpiry) ==
    LET then == IF work[w].job = "preflight" THEN "done" ELSE "usage"
        refresh == nearExpiry /\ work[w].allow /\ stored # None IN
    /\ work[w].pc = "wait" /\ work[w].job # "adopt" /\ LockFree
    /\ IF refresh \/ then = "usage"
         THEN /\ Enter(w)
              /\ Step(w, [work[w] EXCEPT !.pc = IF refresh THEN "post" ELSE "usage",
                                         !.cred = stored, !.then = then])
         ELSE Step(w, NextJob(w)) /\ UNCHANGED <<lock, excuse>>
    /\ UNCHANGED <<stored, issued, valid, sessionVars, faults>>

(* The credential cannot be read, or another process keeps the lock until   *)
(* the caller's context is done.                                           *)
Process(w) == IF w \in Cli THEN {w} ELSE Worker \ Cli
Patient(w) == work[w].job = "adopt" \/ (w \in Cli /\ work[w].job = "preflight")

GivesUp(w) ==
    /\ work[w].pc = "wait"
    /\ LockFree \/ (lock \notin Process(w) /\ ~Patient(w))
    /\ Step(w, NextJob(w))
    /\ UNCHANGED <<chainVars, lock, sessionVars, faults>>

(* The credential goes on to fetchUsage, unless the cycle is over.         *)
Proceed(w, cred) ==
    IF work[w].then = "usage"
      THEN /\ Step(w, [work[w] EXCEPT !.pc = "usage", !.cred = cred, !.new = None, !.then = "done"])
           /\ UNCHANGED lock
      ELSE Finish(w)

\* Mutant: an answer without a refresh token empties the credential's.
RenewedEmpty(rotated, new) == IF rotated THEN new ELSE None

(* refresh: an answer without a refresh token keeps the one there is.      *)
Renewed(rotated, new) == new

(* The request: accepted; refused, or not sent; accepted, and the answer    *)
(* lost.                                                                   *)
Post(w) ==
    /\ work[w].pc = "post"
    /\ UNCHANGED <<stored, sessionVars>>
    /\ \/ /\ Accepts(work[w].cred)
          /\ \E rotated \in BOOLEAN :
               /\ Issue(rotated)
               /\ Step(w, [At(w, "save") EXCEPT !.new = Renewed(rotated, issued + 1)])
          /\ UNCHANGED <<lock, excuse, faults>>
       \/ /\ UNCHANGED <<issued, valid, faults>>
          /\ Proceed(w, work[w].cred) /\ Settle({})
       \/ /\ Accepts(work[w].cred) /\ Issue(TRUE) /\ Fault
          /\ Proceed(w, work[w].cred) /\ Settle({"lost"})

(* writeCred.                                                              *)
Save(w) ==
    /\ work[w].pc = "save"
    /\ UNCHANGED <<issued, valid, sessionVars>>
    /\ \/ /\ stored' = work[w].new
          /\ Proceed(w, work[w].new) /\ Settle({})
          /\ UNCHANGED faults
       \/ /\ Fault /\ UNCHANGED stored
          /\ Proceed(w, work[w].cred) /\ Settle({"unsaved"})

(* fetchUsage: an answer of any kind, or a 401, after which it refreshes    *)
(* once more, whatever has been tried before.                              *)
Usage(w) ==
    /\ work[w].pc = "usage"
    /\ UNCHANGED <<stored, issued, valid, sessionVars, faults>>
    /\ \/ Finish(w) /\ Settle({})
       \/ /\ work[w].allow /\ work[w].cred # None
          /\ Step(w, At(w, "post")) /\ UNCHANGED <<lock, excuse>>

-----------------------------------------------------------------------------
(* Claudes.                                                                *)

(* No worker at work has seen a claude that appears now.                   *)
Appears(c, where) ==
    /\ session[c] = "none"
    /\ session' = [session EXCEPT ![c] = where]

Overlooked(c) ==
    [w \in Worker |-> IF work[w].pc = "idle" THEN work[w]
                      ELSE [work[w] EXCEPT !.unseen = @ \cup {c}]]

Vanishes(c) ==
    /\ session' = [session EXCEPT ![c] = "none"]
    /\ work' = [w \in Worker |-> [work[w] EXCEPT !.unseen = @ \ {c}]]

(* handleSelect: reserve, reply, and a preflight beside the launch.        *)
SelectServed(p, c) ==
    /\ work[p].pc = "idle"
    /\ Appears(c, "launching")
    /\ reserved' = TRUE
    /\ work' = [Overlooked(c) EXCEPT ![p] = [Idle EXCEPT !.pc = "scan"]]
    /\ UNCHANGED <<chainVars, lock, held, faults>>

(* ccp becomes the claude, or ends without.                                *)
CliLaunch(w, c) ==
    /\ work[w].pc = "launch"
    /\ Appears(c, "live")
    /\ work' = [Overlooked(c) EXCEPT ![w] = Idle]
    /\ UNCHANGED <<chainVars, lock, held, reserved, faults>>

CliStops(w) ==
    /\ w \in Cli /\ work[w].pc \in {"scan", "launch"}
    /\ Step(w, Idle)
    /\ UNCHANGED <<chainVars, lock, sessionVars, faults>>

(* The client of the daemon becomes the claude, or ends without.           *)
Launch(c) ==
    /\ session[c] = "launching"
    /\ \/ session' = [session EXCEPT ![c] = "live"] /\ UNCHANGED work
       \/ Vanishes(c)
    /\ UNCHANGED <<chainVars, lock, held, reserved, faults>>

Ends(c) ==
    /\ session[c] = "live"
    /\ Vanishes(c)
    /\ UNCHANGED <<chainVars, lock, held, reserved, faults>>

(* reservationTTL outlasts a launch.                                       *)
Expire ==
    /\ reserved /\ \A c \in Claude : session[c] # "launching"
    /\ reserved' = FALSE
    /\ UNCHANGED <<chainVars, lock, work, session, held, faults>>

(* A claude that rotates the token has it stored a moment later.  One that  *)
(* finds it spent empties it.                                              *)
Rotate(c) ==
    /\ session[c] = "live" /\ ~Rotating /\ stored # None
    /\ IF Accepts(stored)
         THEN /\ \E rotated \in BOOLEAN : Issue(rotated)
              /\ held' = issued + 1
              /\ session' = [session EXCEPT ![c] = "rotating"]
              /\ excuse' = IF lock = None THEN excuse ELSE excuse \cup {"overlap"}
              /\ UNCHANGED stored
         ELSE /\ stored' = None
              /\ UNCHANGED <<issued, valid, held, session, excuse>>
    /\ UNCHANGED <<lock, work, reserved, faults>>

Rotated(c) ==
    /\ session[c] = "rotating"
    /\ session' = [session EXCEPT ![c] = "live"]
    /\ stored' = held /\ held' = 0
    /\ UNCHANGED <<issued, valid, lock, work, reserved, faults>>
    /\ Settle({})

Login(c) ==
    /\ session[c] = "live" /\ ~Rotating /\ ~Whole
    /\ Issue(TRUE)
    /\ stored' = issued + 1
    /\ UNCHANGED <<lock, work, sessionVars, faults>>
    /\ Settle({"overlap"})

-----------------------------------------------------------------------------
(* Kills.  The kernel gives a dead process's lock back.                    *)

Killed(S) ==
    /\ Fault
    /\ work' = [w \in Worker |-> IF w \in S THEN Idle ELSE work[w]]
    /\ lock' = IF lock \in S THEN None ELSE lock
    /\ excuse' = IF \E w \in S : work[w].pc = "save" THEN excuse \cup {"killed"} ELSE excuse
    /\ UNCHANGED <<stored, issued, valid, session, held>>

KillDaemon == Killed(Worker \ Cli) /\ reserved' = FALSE

KillCli(w) == w \in Cli /\ work[w].pc # "idle" /\ Killed({w}) /\ UNCHANGED reserved

KillClaude(c) ==
    /\ session[c] = "rotating" /\ Fault
    /\ Vanishes(c)
    /\ held' = 0
    /\ excuse' = excuse \cup {"killed"}
    /\ UNCHANGED <<stored, issued, valid, lock, reserved>>

-----------------------------------------------------------------------------
WorkerStep(w) ==
    \/ PreflightScan(w) \/ CliSample(w) \/ CliPrepare(w) \/ CliStops(w) \/ KillCli(w)
    \/ LockToAdopt(w) \/ WriteBack(w) \/ (\E nearExpiry \in BOOLEAN : LockToRefresh(w, nearExpiry)) \/ GivesUp(w)
    \/ Post(w) \/ Save(w) \/ Usage(w)
    \/ \E c \in Claude : CliLaunch(w, c)

ClaudeStep(c) ==
    \/ Launch(c) \/ Ends(c) \/ Rotate(c) \/ Rotated(c) \/ Login(c) \/ KillClaude(c)
    \/ \E p \in Preflight : SelectServed(p, c)

Next ==
    \/ PollScan \/ PollDecide \/ Expire \/ KillDaemon
    \/ \E w \in Worker : WorkerStep(w)
    \/ \E c \in Claude : ClaudeStep(c)

Spec == Init /\ [][Next]_vars

-----------------------------------------------------------------------------
(* The abstract refresh.  From the provider's answer on, the account has    *)
(* the credential that is on its way to the store.                         *)

Savers == {w \in Worker : work[w].pc = "save"}

Kept == CASE Savers # {} -> work[CHOOSE w \in Savers : TRUE].new
          [] Rotating /\ Savers = {} -> held
          [] OTHER -> stored

Atomic == INSTANCE AtomicRefresh WITH kept <- Kept, blame <- excuse

-----------------------------------------------------------------------------
(* Properties.                                                             *)

(* The newest refresh token is in the store or on its way there: no write   *)
(* of an old credential over a new one, by an adoption that read before a   *)
(* refresh or the other way round (the lost update of usage_race_test.go).  *)
(* What can cost it is named: a lost answer, a failed write, a kill between *)
(* answer and write, and a claude that rotates while a worker is between    *)
(* its read and its write.                                                 *)
ChainKept ==
    ~Whole /\ ~Rotating /\ (\A w \in Worker : work[w].pc # "save") => excuse # {}

(* A refresh token is spent once (the double spend of usage_race_test.go),  *)
(* but for the same causes.                                                *)
NoDoubleSpend ==
    \A w \in Worker : work[w].pc = "post" => Accepts(work[w].cred) \/ excuse # {}

(* Tokens are rewritten and refreshed for idle accounts (EnsureFreshToken,  *)
(* pollAccount): every claude that the account has been handed to by then   *)
(* is one that could not be seen when the worker looked, for it was handed  *)
(* out later, was not running yet and had no reservation, or the process    *)
(* scan failed.                                                            *)
RefreshUnseenOnly ==
    \A w \in Worker : work[w].pc \in {"adopt", "post"} =>
        {c \in Claude : session[c] # "none"} \subseteq work[w].unseen

(* However reads, requests and writes of several processes interleave, they *)
(* add up to refreshes that ask and store in one step: an adoption changes  *)
(* nothing, no write brings an older credential back unasked, and a refresh *)
(* spends the newest token; until one of the causes named in "excuse"       *)
(* breaks the chain, and from when the store has the newest token again     *)
(* (ensureFreshToken, AdoptRotatedToken, lockAccount).                     *)
RefreshesAtomic == Atomic!RefreshSpec
=============================================================================
