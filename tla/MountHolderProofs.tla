-------------------------- MODULE MountHolderProofs --------------------------
(***************************************************************************)
(* Proofs about MountHolder for any number of directories, processes and   *)
(* connections, and any bound on failures.                                 *)
(***************************************************************************)
EXTENDS MountHolder, TLAPS

(* A handler that has its directory, and one that has been accepted. *)
Working == {"probe", "corpse", "setup", "teardown"}
Busy == ReqPc \ {"idle"}

(* The lock is held from the start of a holder to its end. *)
LockHeld == \A p \in Proc : proc[p] # "off" <=> lock = p

(* Handlers belong to a holder that has not begun its last sweep, and have  *)
(* a directory unless they sweep.                                          *)
Accepted ==
    \A r \in Req : req[r].pc # "idle" =>
        /\ req[r].proc \in Proc
        /\ proc[req[r].proc] \in {"serving", "cancelled", "draining"}
        /\ req[r].pc \in Working \cup {"new"} => req[r].dir \in Dir

(* The program of a handler follows its operation. *)
Operation ==
    \A r \in Req : /\ req[r].pc \in {"corpse", "setup"} => req[r].op = "mount"
                   /\ req[r].pc = "teardown" => req[r].op = "unmount"

(* A working handler has the claim of its directory, and has it alone. *)
ClaimsApart ==
    /\ \A r \in Req : req[r].pc \in Working => req[r].dir \in inflight[req[r].proc]
    /\ \A r, q \in Req :
           /\ r # q /\ req[r].pc \in Working /\ req[q].pc \in Working
           /\ req[r].proc = req[q].proc
           => req[r].dir # req[q].dir

(* Rows and handles are the same directories. *)
RowsHaveHandles == \A p \in Proc : registry[p] = handles[p]

(* Where a handler is about to mount, nothing is, but what came up late. *)
SetupClear ==
    \A r \in Req : req[r].pc = "setup" =>
        /\ req[r].dir \notin registry[req[r].proc]
        /\ mnt[req[r].dir] = "none" \/ "late" \in excuse[req[r].dir]

(* A mirror has a row, unless it would not come down or came up late. *)
MirrorsKnown ==
    \A p \in Proc, d \in Dir : by[d] = p =>
        d \in registry[p] \/ excuse[d] \cap {"clung", "late"} # {}

(* The last sweep visits every row. *)
SweepComplete == \A p \in Proc : proc[p] = "sweeping" => registry[p] \subseteq left[p]

(* A mirror that serves, was never slow and never answered for by a parked  *)
(* read has at most one strike, counting the failure of an earlier mirror   *)
(* that is still to be recorded.                                           *)
Blameless(p, d) ==
    /\ d \in registry[p] /\ by[d] = p /\ mnt[d] = "live"
    /\ excuse[d] \cap {"slow", "joined", "late"} = {}

StrikesFresh ==
    \A p \in Proc, d \in Dir : Blameless(p, d) =>
        /\ strikes[p][d] < deepWedgeStrikes
        /\ deep[p].dir = d /\ deep[p].read = "fail" => strikes[p][d] = 0

HolderInv ==
    /\ LockHeld /\ SocketReaches /\ Accepted /\ Operation /\ ClaimsApart
    /\ RowsHaveHandles /\ SetupClear /\ NeverStacked /\ MirrorsKnown
    /\ SweepComplete /\ StrikesFresh

IInv == TypeOK /\ HolderInv

-----------------------------------------------------------------------------
(* What the helpers of the actions do, field by field. *)

LEMMA GotoFields ==
    ASSUME TypeOK, NEW r \in Req, NEW pc \in ReqPc, Goto(r, pc)
    PROVE  /\ req' \in [Req -> ReqState]
           /\ req'[r].pc = pc
           /\ req'[r].op = req[r].op /\ req'[r].dir = req[r].dir
           /\ req'[r].proc = req[r].proc /\ req'[r].todo = req[r].todo
           /\ \A q \in Req : q # r => req'[q] = req[q]
BY DEF Goto, TypeOK, ReqState

LEMMA Added ==
    ASSUME NEW S, NEW T, NEW f \in [S -> SUBSET T], NEW x \in S, NEW y \in T
    PROVE  [f EXCEPT ![x] = @ \cup {y}] \in [S -> SUBSET T]
OBVIOUS

LEMMA ZeroStrikes ==
    ASSUME NEW f \in [Proc -> [Dir -> 0..deepWedgeStrikes]], NEW p \in Proc, NEW d \in Dir
    PROVE  [f EXCEPT ![p][d] = 0] \in [Proc -> [Dir -> 0..deepWedgeStrikes]]
BY DEF deepWedgeStrikes

LEMMA ReqTodo ==
    ASSUME NEW q \in ReqState, NEW S \in SUBSET Dir
    PROVE  [q EXCEPT !.todo = S] \in ReqState
BY DEF ReqState

LEMMA DeepUpdates ==
    ASSUME NEW x \in DeepState, NEW S \in SUBSET Dir, NEW T \in SUBSET Dir, NEW d \in Dir,
           NEW o \in {"ok", "fail", "missing"}
    PROVE  /\ [x EXCEPT !.todo = S] \in DeepState
           /\ [x EXCEPT !.parked = S] \in DeepState
           /\ [x EXCEPT !.dir = None, !.read = "ok"] \in DeepState
           /\ [x EXCEPT !.todo = S, !.dir = d, !.read = o, !.parked = T] \in DeepState
BY DEF DeepState

LEMMA GotoTypes ==
    ASSUME TypeOK, NEW r \in Req
    PROVE  /\ \A pc \in ReqPc : Goto(r, pc) => req' \in [Req -> ReqState]
           /\ \A pc \in ReqPc : Finish(r, pc) =>
                 req' \in [Req -> ReqState] /\ inflight' \in [Proc -> SUBSET Dir]
<1>1. ASSUME NEW pc \in ReqPc, Goto(r, pc)
      PROVE  req' \in [Req -> ReqState]
  BY <1>1, GotoFields
<1>2. ASSUME NEW pc \in ReqPc, Finish(r, pc)
      PROVE  inflight' \in [Proc -> SUBSET Dir]
  BY <1>2 DEF Finish, TypeOK
<1> QED
  BY <1>1, <1>2 DEF Finish

LEMMA TeardownTypes ==
    ASSUME TypeOK, NEW p \in Proc, NEW d \in Dir, NEW gone \in BOOLEAN, Teardown(p, d, gone)
    PROVE  /\ registry' \in [Proc -> SUBSET Dir] /\ handles' \in [Proc -> SUBSET Dir]
           /\ mnt' \in [Dir -> MountState] /\ by' \in [Dir -> Proc \cup {None}]
           /\ excuse' \in [Dir -> SUBSET {"late", "clung", "slow", "joined"}]
           /\ faults' \in Nat
           /\ stuck' = stuck /\ stacked' = stacked
<1>1. CASE gone
  BY <1>1 DEF Teardown, TornDown, TypeOK, RowsLeft, MountState
<1>2. CASE ~gone
  <2>1. /\ mnt' \in {mnt, [mnt EXCEPT ![d] = "dead"], [mnt EXCEPT ![d] = "none"]}
        /\ by' = [by EXCEPT ![d] = IF mnt'[d] = "none" THEN None ELSE @]
        /\ excuse' = [excuse EXCEPT ![d] = @ \cup {"clung"}]
        /\ faults' = faults + 1
    BY <1>2 DEF Teardown, Clings, Fault, Excuse
  <2>2. mnt' \in [Dir -> MountState]
    BY <2>1 DEF TypeOK, MountState
  <2>3. by' \in [Dir -> Proc \cup {None}]
    BY <2>1 DEF TypeOK
  <2> QED
    BY <2>1, <2>2, <2>3 DEF Teardown, TypeOK, RowsLeft
<1> QED
  BY <1>1, <1>2

LEMMA MountTypes ==
    ASSUME TypeOK, NEW p \in Proc, NEW d \in Dir, Mount(p, d) \/ MountTimesOut(p, d)
    PROVE  /\ registry' \in [Proc -> SUBSET Dir] /\ handles' \in [Proc -> SUBSET Dir]
           /\ strikes' \in [Proc -> [Dir -> 0..deepWedgeStrikes]]
           /\ mnt' \in [Dir -> MountState] /\ by' \in [Dir -> Proc \cup {None}]
           /\ stuck' \subseteq Proc \X Dir /\ stacked' \subseteq Dir
           /\ excuse' \in [Dir -> SUBSET {"late", "clung", "slow", "joined"}]
           /\ faults' \in Nat
<1>1. CASE Mount(p, d)
  <2>1. registry' \in [Proc -> SUBSET Dir] /\ handles' \in [Proc -> SUBSET Dir]
    BY <1>1, Added DEF Mount, TypeOK
  <2>2. strikes' \in [Proc -> [Dir -> 0..deepWedgeStrikes]]
    BY <1>1, ZeroStrikes DEF Mount, TypeOK, FreshVerdict
  <2>3. mnt' \in [Dir -> MountState] /\ by' \in [Dir -> Proc \cup {None}]
    BY <1>1 DEF Mount, TypeOK, MountState
  <2>4. stuck' \subseteq Proc \X Dir /\ stacked' \subseteq Dir /\ faults' \in Nat
    BY <1>1 DEF Mount, TypeOK
  <2>5. excuse' \in [Dir -> SUBSET {"late", "clung", "slow", "joined"}]
    <3>1. excuse \in [Dir -> SUBSET {"late", "clung", "slow", "joined"}]
      BY DEF TypeOK
    <3>2. excuse' \in {excuse, [excuse EXCEPT ![d] = @ \cap {"late"}]}
      BY <1>1 DEF Mount
    <3> QED
      BY <3>1, <3>2
  <2> QED
    BY <2>1, <2>2, <2>3, <2>4, <2>5
<1>2. CASE MountTimesOut(p, d)
  <2>1. stuck' \subseteq stuck \cup {<<p, d>>} /\ <<p, d>> \in Proc \X Dir
    BY <1>2 DEF MountTimesOut
  <2>2. faults' \in Nat
    BY <1>2 DEF MountTimesOut, Fault, TypeOK
  <2> QED
    BY <1>2, <2>1, <2>2 DEF MountTimesOut, TypeOK
<1> QED
  BY <1>1, <1>2

(* What a teardown leaves: no row, no handle, and no mountpoint or an       *)
(* excuse.  Other directories are not touched.                             *)
LEMMA TeardownDoes ==
    ASSUME TypeOK, NEW p \in Proc, NEW d \in Dir, NEW gone \in BOOLEAN, Teardown(p, d, gone)
    PROVE  /\ registry' = [registry EXCEPT ![p] = @ \ {d}]
           /\ handles' = [handles EXCEPT ![p] = @ \ {d}]
           /\ gone => mnt'[d] = "none" /\ by'[d] = None
           /\ ~gone => "clung" \in excuse'[d] /\ excuse[d] \subseteq excuse'[d]
           /\ mnt[d] = "none" => mnt'[d] = "none"
           /\ mnt'[d] = "none" \/ excuse[d] \subseteq excuse'[d]
           /\ mnt'[d] = "live" => mnt[d] = "live"
           /\ by'[d] \in {by[d], None}
           /\ \A e \in Dir : e # d =>
                  mnt'[e] = mnt[e] /\ by'[e] = by[e] /\ excuse'[e] = excuse[e]
<1>1. CASE gone
  BY <1>1 DEF Teardown, TornDown, TypeOK, RowsLeft
<1>2. CASE ~gone
  <2>1. /\ mnt' \in {mnt, [mnt EXCEPT ![d] = "dead"], [mnt EXCEPT ![d] = "none"]}
        /\ mnt[d] # "none"
        /\ by' = [by EXCEPT ![d] = IF mnt'[d] = "none" THEN None ELSE @]
        /\ excuse' = [excuse EXCEPT ![d] = @ \cup {"clung"}]
    BY <1>2 DEF Teardown, Clings, Fault, Excuse
  <2> QED
    BY <1>2, <2>1 DEF Teardown, TypeOK, RowsLeft
<1> QED
  BY <1>1, <1>2

-----------------------------------------------------------------------------
(* Type correctness. *)

LEMMA InitTypeOK == Init => TypeOK
BY BoundAssumption DEF Init, TypeOK, IdleReq, NoProbe, ReqState, DeepState, ReqPc, ProcPc,
       MountState, deepWedgeStrikes

LEMMA GoneTypes ==
    ASSUME TypeOK, NEW p \in Proc, Gone(p), faults' \in Nat
    PROVE  TypeOK'
<1> USE DEF Gone, TypeOK
<1>1. req' \in [Req -> ReqState]
  BY DEF IdleReq, ReqState, ReqPc
<1>2. deep' \in [Proc -> DeepState]
  BY DEF NoProbe, DeepState
<1>3. mnt' \in [Dir -> MountState] /\ by' \in [Dir -> Proc \cup {None}]
  BY DEF MountState
<1>4. proc' \in [Proc -> ProcPc] /\ lock' \in Proc \cup {None}
  BY DEF ProcPc, Release
<1>5. /\ left' \in [Proc -> SUBSET Dir] /\ registry' \in [Proc -> SUBSET Dir]
      /\ inflight' \in [Proc -> SUBSET Dir] /\ handles' \in [Proc -> SUBSET Dir]
      /\ strikes' \in [Proc -> [Dir -> 0..deepWedgeStrikes]]
  BY DEF deepWedgeStrikes
<1> QED
  BY <1>1, <1>2, <1>3, <1>4, <1>5

LEMMA RunTypes ==
    ASSUME TypeOK, NEW p \in Proc, RunStep(p)
    PROVE  TypeOK'
<1> USE DEF TypeOK, holderVars, kernelVars, runVars, ProcPc
<1>1. CASE Start(p) \/ CheckPeer(p) \/ Bind(p)
  <2>1. CASE Start(p)
    BY <2>1 DEF Start
  <2>2. CASE CheckPeer(p)
    BY <2>2 DEF CheckPeer, Release
  <2>3. CASE Bind(p)
    <3>1. proc' \in [Proc -> ProcPc] /\ socket' \in Proc \cup {None}
      BY <2>3 DEF Bind
    <3>2. lock' \in Proc \cup {None} /\ faults' \in Nat
      BY <2>3 DEF Bind, Release, Fault
    <3> QED
      BY <2>3, <3>1, <3>2 DEF Bind
  <2> QED
    BY <1>1, <2>1, <2>2, <2>3
<1>2. CASE Signal(p) \/ CloseListener(p) \/ FinalSweep(p)
  BY <1>2 DEF Signal, CloseListener, FinalSweep
<1>3. ASSUME NEW d \in Dir, FinalTeardown(p, d)
      PROVE  TypeOK'
  <2>1. PICK gone \in BOOLEAN : Teardown(p, d, gone)
    BY <1>3 DEF FinalTeardown
  <2> QED
    BY <1>3, <2>1, TeardownTypes DEF FinalTeardown
<1>4. CASE Exit(p) \/ Kill(p)
  BY <1>4, GoneTypes DEF Exit, Kill, Fault
<1> QED
  BY <1>1, <1>2, <1>3, <1>4 DEF RunStep

LEMMA HandlerTypes ==
    ASSUME TypeOK, NEW r \in Req, HandlerStep(r), req[r].pc # "idle" => req[r].proc \in Proc,
           req[r].pc \in Working \cup {"new"} => req[r].dir \in Dir
    PROVE  TypeOK'
<1> USE DEF holderVars, kernelVars, runVars
<1>1. CASE Accept(r)
  <2>1. /\ UNCHANGED <<runVars, holderVars, deep, kernelVars, excuse, faults>>
        /\ socket \in Proc
    BY <1>1 DEF Accept, Answers, TypeOK
  <2>2. ASSUME NEW op \in {"mount", "unmount"}, NEW d \in Dir
        PROVE  [pc |-> "new", op |-> op, dir |-> d, proc |-> socket, todo |-> {}] \in ReqState
    BY <2>1 DEF ReqState, ReqPc
  <2>3. [pc |-> "sweep", op |-> "shutdown", dir |-> None, proc |-> socket,
         todo |-> registry[socket]] \in ReqState
    BY <2>1 DEF ReqState, ReqPc, TypeOK
  <2>4. req' \in [Req -> ReqState]
    <3>1. req \in [Req -> ReqState]
      BY DEF TypeOK
    <3> QED
      BY <1>1, <2>2, <2>3, <3>1 DEF Accept
  <2> QED
    BY <2>1, <2>4 DEF TypeOK
<1>2. CASE Claim(r)
  <2>1. req' \in [Req -> ReqState]
    BY <1>2, GotoTypes DEF Claim, ReqPc
  <2>2. req[r].proc \in Proc /\ req[r].dir \in Dir
    BY <1>2 DEF Claim
  <2>3. inflight' \in [Proc -> SUBSET Dir]
    <3>1. inflight \in [Proc -> SUBSET Dir]
      BY DEF TypeOK
    <3> QED
      BY <1>2, <2>2, <3>1, Added DEF Claim
  <2> QED
    BY <1>2, <2>1, <2>3 DEF Claim, TypeOK
<1>3. CASE MountProbe(r)
  <2>1. req' \in [Req -> ReqState] /\ inflight' \in [Proc -> SUBSET Dir]
    BY <1>3, GotoTypes DEF MountProbe, ReqPc, TypeOK
  <2> QED
    BY <1>3, <2>1 DEF MountProbe, TypeOK, Fault
<1>4. CASE UnmountProbe(r)
  <2>1. req' \in [Req -> ReqState] /\ inflight' \in [Proc -> SUBSET Dir]
    BY <1>4, GotoTypes DEF UnmountProbe, ReqPc, TypeOK
  <2> QED
    BY <1>4, <2>1 DEF UnmountProbe, TypeOK, Fault
<1>5. CASE Corpse(r) \/ Unmount(r)
  <2>1. req' \in [Req -> ReqState] /\ inflight' \in [Proc -> SUBSET Dir]
    BY <1>5, GotoTypes DEF Corpse, Unmount, ReqPc, TypeOK
  <2>2. PICK gone \in BOOLEAN : Teardown(req[r].proc, req[r].dir, gone)
    BY <1>5 DEF Corpse, Unmount
  <2>3. req[r].proc \in Proc /\ req[r].dir \in Dir
    BY <1>5 DEF Corpse, Unmount, Working
  <2> QED
    BY <1>5, <2>1, <2>2, <2>3, TeardownTypes DEF Corpse, Unmount, TypeOK
<1>7. CASE SetUp(r)
  <2>1. req' \in [Req -> ReqState] /\ inflight' \in [Proc -> SUBSET Dir]
    BY <1>7, GotoTypes DEF SetUp, ReqPc
  <2>2. req[r].proc \in Proc /\ req[r].dir \in Dir
    BY <1>7 DEF SetUp, Working
  <2>3. CASE Mount(req[r].proc, req[r].dir)
    BY <1>7, <2>1, <2>2, <2>3, MountTypes DEF SetUp, TypeOK
  <2>4. CASE MountTimesOut(req[r].proc, req[r].dir)
    BY <1>7, <2>1, <2>2, <2>4, MountTypes DEF SetUp, TypeOK
  <2> QED
    BY <1>7, <2>3, <2>4 DEF SetUp
<1>8. ASSUME NEW d \in Dir, SweepDir(r, d)
      PROVE  TypeOK'
  <2>1. req[r] \in ReqState /\ req[r].todo \ {d} \in SUBSET Dir
    BY DEF TypeOK, ReqState
  <2>2. req' \in [Req -> ReqState]
    BY <1>8, <2>1, ReqTodo DEF SweepDir, TypeOK
  <2>3. req[r].proc \in Proc
    BY <1>8 DEF SweepDir
  <2>4. CASE \E gone \in BOOLEAN : Teardown(req[r].proc, d, gone)
    BY <1>8, <2>2, <2>3, <2>4, TeardownTypes DEF SweepDir, TypeOK
  <2>5. CASE UNCHANGED <<registry, handles, kernelVars, excuse, faults>>
    BY <1>8, <2>2, <2>5 DEF SweepDir, TypeOK
  <2> QED
    BY <1>8, <2>4, <2>5 DEF SweepDir
<1>9. CASE Shutdown(r)
  BY <1>9, GotoFields DEF Shutdown, TypeOK, ReqPc, ProcPc
<1>10. CASE Reply(r)
  BY <1>10 DEF Reply, TypeOK, IdleReq, ReqState, ReqPc
<1> QED
  BY <1>1, <1>2, <1>3, <1>4, <1>5, <1>7, <1>8, <1>9, <1>10 DEF HandlerStep

LEMMA ProbeAndWorldTypes ==
    ASSUME TypeOK, (\E p \in Proc : DeepStep(p)) \/ (\E d \in Dir : World(d))
    PROVE  TypeOK'
<1> USE DEF holderVars, kernelVars, runVars
<1>0. ASSUME NEW p \in Proc
      PROVE  deep[p] \in DeepState /\ deep[p].todo \in SUBSET Dir /\ deep[p].parked \in SUBSET Dir
  BY DEF TypeOK, DeepState
<1>1. ASSUME NEW p \in Proc, DeepPass(p)
      PROVE  TypeOK'
  <2>1. registry[p] \in SUBSET Dir
    BY DEF TypeOK
  <2>2. deep' \in [Proc -> DeepState]
    BY <1>0, <1>1, <2>1, DeepUpdates DEF DeepPass, TypeOK
  <2> QED
    BY <1>1, <2>2 DEF DeepPass, TypeOK
<1>2. ASSUME NEW p \in Proc, NEW d \in Dir, DeepRead(p, d)
      PROVE  TypeOK'
  <2>0. deep \in [Proc -> DeepState]
    BY DEF TypeOK
  <2>1. ASSUME NEW o \in {"ok", "fail", "missing"}, NEW S \in SUBSET Dir, Reading(p, d, o, S)
        PROVE  deep' \in [Proc -> DeepState]
    <3>1. deep[p].todo \ {d} \in SUBSET Dir /\ deep[p].parked \cup S \in SUBSET Dir
      BY <1>0
    <3>2. [deep[p] EXCEPT !.todo = @ \ {d}, !.dir = d, !.read = o,
                          !.parked = @ \cup S] \in DeepState
      BY <1>0, <3>1, DeepUpdates
    <3> QED
      BY <2>0, <2>1, <3>2 DEF Reading
  <2>2. ASSUME deep' = [deep EXCEPT ![p].todo = @ \ {d}]
        PROVE  deep' \in [Proc -> DeepState]
    <3>1. [deep[p] EXCEPT !.todo = @ \ {d}] \in DeepState
      BY <1>0, DeepUpdates
    <3> QED
      BY <2>0, <2>2, <3>1
  <2>3. deep' \in [Proc -> DeepState]
    BY <1>2, <2>1, <2>2 DEF DeepRead, ReadOf
  <2>4. faults' \in Nat /\ excuse' \in [Dir -> SUBSET {"late", "clung", "slow", "joined"}]
    BY <1>2 DEF DeepRead, TypeOK, Fault, Excuse
  <2> QED
    BY <1>2, <2>3, <2>4 DEF DeepRead, TypeOK
<1>3. ASSUME NEW p \in Proc, DeepRecord(p)
      PROVE  TypeOK'
  <2>1. deep[p].dir \in Dir /\ deep[p].read \in {"ok", "fail", "missing"}
    BY <1>3 DEF DeepRecord, TypeOK, DeepState
  <2>2. [deep[p] EXCEPT !.dir = None, !.read = "ok"] \in DeepState
    BY <1>0, <2>1, DeepUpdates
  <2>3. deep' \in [Proc -> DeepState]
    BY <1>3, <2>2 DEF DeepRecord, TypeOK
  <2>4. strikes' \in [Proc -> [Dir -> 0..deepWedgeStrikes]]
    BY <1>3, <2>1 DEF DeepRecord, TypeOK, Strike, deepWedgeStrikes
  <2> QED
    BY <1>3, <2>3, <2>4 DEF DeepRecord, TypeOK
<1>4. ASSUME NEW d \in Dir, MirrorFails(d) \/ PulledAway(d)
      PROVE  TypeOK'
  <2>1. mnt' \in [Dir -> MountState]
    BY <1>4 DEF MirrorFails, PulledAway, TypeOK, MountState
  <2>2. by' \in [Dir -> Proc \cup {None}]
    BY <1>4 DEF MirrorFails, PulledAway, TypeOK
  <2>3. excuse' \in [Dir -> SUBSET {"late", "clung", "slow", "joined"}]
    BY <1>4 DEF MirrorFails, PulledAway, TypeOK
  <2>4. faults' \in Nat
    BY <1>4 DEF MirrorFails, PulledAway, TypeOK, Fault
  <2> QED
    BY <1>4, <2>1, <2>2, <2>3, <2>4 DEF MirrorFails, PulledAway, TypeOK
<1>5. ASSUME NEW d \in Dir, NEW p \in Proc, LateMount(p, d)
      PROVE  TypeOK'
  BY <1>5 DEF LateMount, TypeOK, Excuse, MountState
<1>6. ASSUME NEW p \in Proc, NEW d \in Dir, KernelAnswers(p, d)
      PROVE  TypeOK'
  <2>1. [deep[p] EXCEPT !.parked = @ \ {d}] \in DeepState
    BY <1>0, DeepUpdates
  <2> QED
    BY <1>6, <2>1 DEF KernelAnswers, TypeOK
<1> QED
  BY <1>1, <1>2, <1>3, <1>4, <1>5, <1>6 DEF DeepStep, World

-----------------------------------------------------------------------------
(* One holder at a time, and what a teardown keeps. *)

(* Every handler that has been accepted serves the holder with the lock.    *)
LEMMA OneHolder ==
    ASSUME LockHeld, Accepted
    PROVE  /\ \A r \in Req : req[r].pc # "idle" => req[r].proc = lock
           /\ \A p, q \in Proc : proc[p] # "off" /\ proc[q] # "off" => p = q
BY DEF LockHeld, Accepted

(* A teardown is made by the last sweep, or by a handler for a directory    *)
(* that no other handler is about to mount.                                *)
LEMMA TeardownKeeps ==
    ASSUME IInv, NEW p \in Proc, NEW d \in Dir, NEW gone \in BOOLEAN, Teardown(p, d, gone),
           \A r \in Req : req[r].pc = "setup" => req[r].dir \in Dir \ {d} /\ req[r].proc \in Proc,
           \A r \in Req : req'[r].pc = "setup" =>
               /\ req'[r].dir = req[r].dir /\ req'[r].proc = req[r].proc
               /\ \/ req[r].pc = "setup"
                  \/ gone /\ req[r].dir = d /\ req[r].proc = p,
           UNCHANGED <<strikes, deep, proc>>, left' \in {left, [left EXCEPT ![p] = @ \ {d}]}
    PROVE  /\ RowsHaveHandles' /\ SetupClear' /\ NeverStacked' /\ MirrorsKnown'
           /\ SweepComplete' /\ StrikesFresh'
<1> USE DEF IInv, HolderInv
<1>1. /\ registry' = [registry EXCEPT ![p] = @ \ {d}]
      /\ handles' = [handles EXCEPT ![p] = @ \ {d}]
      /\ registry \in [Proc -> SUBSET Dir] /\ handles \in [Proc -> SUBSET Dir]
      /\ left \in [Proc -> SUBSET Dir]
  BY TeardownDoes DEF TypeOK
<1>2. /\ gone => mnt'[d] = "none" /\ by'[d] = None
      /\ ~gone => "clung" \in excuse'[d] /\ excuse[d] \subseteq excuse'[d]
      /\ mnt'[d] = "live" => mnt[d] = "live"
      /\ by'[d] \in {by[d], None}
      /\ \A e \in Dir : e # d =>
            mnt'[e] = mnt[e] /\ by'[e] = by[e] /\ excuse'[e] = excuse[e]
  BY TeardownDoes
<1>3. RowsHaveHandles'
  BY <1>1 DEF RowsHaveHandles
<1>4. SetupClear'
  <2> SUFFICES ASSUME NEW r \in Req, req'[r].pc = "setup"
               PROVE  /\ req[r].dir \notin registry'[req[r].proc]
                      /\ mnt'[req[r].dir] = "none" \/ "late" \in excuse'[req[r].dir]
    BY DEF SetupClear
  <2>1. CASE req[r].pc = "setup"
    BY <1>1, <1>2, <2>1 DEF SetupClear
  <2>2. CASE gone /\ req[r].dir = d /\ req[r].proc = p
    BY <1>1, <1>2, <2>2
  <2> QED
    BY <2>1, <2>2
<1>5. NeverStacked'
  BY TeardownTypes DEF NeverStacked
<1>6. MirrorsKnown'
  <2> SUFFICES ASSUME NEW q \in Proc, NEW e \in Dir, by'[e] = q
               PROVE  e \in registry'[q] \/ excuse'[e] \cap {"clung", "late"} # {}
    BY DEF MirrorsKnown
  <2>1. CASE e = d
    BY <1>2, <2>1, NoneAssumption
  <2>2. CASE e # d
    BY <1>1, <1>2, <2>2 DEF MirrorsKnown
  <2> QED
    BY <2>1, <2>2
<1>7. SweepComplete'
  BY <1>1 DEF SweepComplete
<1>8. StrikesFresh'
  <2>1. ASSUME NEW q \in Proc, NEW e \in Dir, Blameless(q, e)'
        PROVE  Blameless(q, e)
    <3>1. e \in registry'[q] /\ by'[e] = q /\ mnt'[e] = "live"
          /\ excuse'[e] \cap {"slow", "joined", "late"} = {}
      BY <2>1 DEF Blameless
    <3>2. e \in registry[q]
      BY <1>1, <3>1
    <3>3. CASE e = d
      BY <1>2, <3>1, <3>2, <3>3, NoneAssumption DEF Blameless
    <3>4. CASE e # d
      BY <1>2, <3>1, <3>2, <3>4 DEF Blameless
    <3> QED
      BY <3>3, <3>4
  <2> QED
    BY <2>1 DEF StrikesFresh
<1> QED
  BY <1>3, <1>4, <1>5, <1>6, <1>7, <1>8

-----------------------------------------------------------------------------
(* Run. *)

LEMMA InitHolderInv == Init => HolderInv
BY NoneAssumption DEF Init, HolderInv, LockHeld, SocketReaches, Accepted, Operation, ClaimsApart,
   RowsHaveHandles, SetupClear, NeverStacked, MirrorsKnown, SweepComplete, StrikesFresh, Blameless,
   Working, IdleReq, NoProbe

(* A step that moves only the holder's own program keeps what the handlers  *)
(* and the mirrors rest on.                                                *)
LEMMA HandlersFrame ==
    ASSUME HolderInv, UNCHANGED <<holderVars, req, deep, kernelVars, excuse>>
    PROVE  /\ Operation' /\ ClaimsApart' /\ RowsHaveHandles' /\ SetupClear' /\ NeverStacked'
           /\ MirrorsKnown' /\ StrikesFresh'
BY DEF HolderInv, holderVars, kernelVars, Operation, ClaimsApart, RowsHaveHandles, SetupClear,
       NeverStacked, MirrorsKnown, StrikesFresh, Blameless

LEMMA StartKeeps ==
    ASSUME IInv, NEW p \in Proc,
           Start(p) \/ CheckPeer(p) \/ Bind(p) \/ Signal(p) \/ CloseListener(p) \/ FinalSweep(p)
    PROVE  HolderInv'
<1> USE DEF IInv, HolderInv
<1>1. UNCHANGED <<holderVars, req, deep, kernelVars, excuse>>
  BY DEF Start, CheckPeer, Bind, Signal, CloseListener, FinalSweep
<1>2. proc \in [Proc -> ProcPc] /\ lock \in Proc \cup {None} /\ left \in [Proc -> SUBSET Dir]
  BY DEF TypeOK
<1>3. LockHeld'
  BY <1>2, NoneAssumption DEF Start, CheckPeer, Bind, Signal, CloseListener, FinalSweep, LockFree,
     Release, LockHeld
<1>4. SocketReaches'
  BY <1>2, NoneAssumption DEF Start, CheckPeer, Bind, Signal, CloseListener, FinalSweep,
     SocketReaches, LockHeld
<1>5. Accepted'
  <2> SUFFICES ASSUME NEW r \in Req, req'[r].pc # "idle"
               PROVE  /\ req'[r].proc \in Proc
                      /\ proc'[req'[r].proc] \in {"serving", "cancelled", "draining"}
                      /\ req'[r].pc \in Working \cup {"new"} => req'[r].dir \in Dir
    BY DEF Accepted
  <2>1. /\ req' = req /\ req[r].proc \in Proc
        /\ proc[req[r].proc] \in {"serving", "cancelled", "draining"}
        /\ req[r].pc \in Working \cup {"new"} => req[r].dir \in Dir
    BY <1>1 DEF Accepted
  <2>2. CASE req[r].proc = p
    BY <1>2, <2>1, <2>2 DEF Start, CheckPeer, Bind, Signal, CloseListener, FinalSweep, Drained
  <2>3. CASE req[r].proc # p
    BY <1>2, <2>1, <2>3 DEF Start, CheckPeer, Bind, Signal, CloseListener, FinalSweep
  <2> QED
    BY <2>2, <2>3
<1>6. SweepComplete'
  BY <1>1, <1>2 DEF Start, CheckPeer, Bind, Signal, CloseListener, FinalSweep, SweepComplete,
     holderVars, runVars
<1> QED
  BY <1>1, <1>3, <1>4, <1>5, <1>6, HandlersFrame

LEMMA FinalTeardownKeeps ==
    ASSUME IInv, NEW p \in Proc, NEW d \in Dir, FinalTeardown(p, d)
    PROVE  HolderInv'
<1> USE DEF IInv, HolderInv
<1>1. /\ proc[p] = "sweeping" /\ left' = [left EXCEPT ![p] = @ \ {d}]
      /\ UNCHANGED <<proc, lock, socket, inflight, strikes, req, deep>>
  BY DEF FinalTeardown
<1>2. PICK gone \in BOOLEAN : Teardown(p, d, gone)
  BY DEF FinalTeardown
<1>3. \A r \in Req : req[r].pc = "idle"
  BY <1>1, OneHolder DEF Accepted
<1>4. /\ RowsHaveHandles' /\ SetupClear' /\ NeverStacked' /\ MirrorsKnown'
      /\ SweepComplete' /\ StrikesFresh'
  BY <1>1, <1>2, <1>3, TeardownKeeps
<1>5. LockHeld' /\ SocketReaches' /\ Accepted' /\ Operation' /\ ClaimsApart'
  BY <1>1, <1>3 DEF LockHeld, SocketReaches, Accepted, Operation, ClaimsApart, Working
<1> QED
  BY <1>4, <1>5

LEMMA GoneKeeps ==
    ASSUME IInv, NEW p \in Proc, proc[p] # "off", Gone(p)
    PROVE  HolderInv'
<1> USE DEF IInv, HolderInv
<1>1. \A r \in Req : req[r].pc # "idle" => req[r].proc = p
  BY OneHolder DEF LockHeld
<1>2. \A r \in Req : req'[r].pc = "idle"
  BY <1>1 DEF Gone, IdleReq
<1>3. Accepted' /\ Operation' /\ ClaimsApart' /\ SetupClear'
  BY <1>2 DEF Accepted, Operation, ClaimsApart, SetupClear, Working
<1>4. \A q \in Proc : proc'[q] = "off" /\ lock' = None
  <2>1. lock = p /\ \A q \in Proc : q # p => proc[q] = "off"
    BY DEF LockHeld
  <2> QED
    BY <2>1 DEF Gone, Release, TypeOK
<1>5. LockHeld' /\ SocketReaches' /\ SweepComplete'
  BY <1>4, NoneAssumption DEF LockHeld, SocketReaches, SweepComplete
<1>6. RowsHaveHandles' /\ NeverStacked'
  BY DEF Gone, RowsHaveHandles, NeverStacked, TypeOK
<1>7. /\ registry' = [registry EXCEPT ![p] = {}] /\ registry \in [Proc -> SUBSET Dir]
      /\ \A e \in Dir : by'[e] = IF by[e] = p THEN None ELSE by[e]
      /\ \A e \in Dir : mnt'[e] = "live" => mnt[e] = "live"
      /\ excuse' = excuse
      /\ \A q \in Proc : q # p => strikes'[q] = strikes[q] /\ deep'[q] = deep[q]
  BY DEF Gone, TypeOK
<1>8. MirrorsKnown'
  <2> SUFFICES ASSUME NEW q \in Proc, NEW e \in Dir, by'[e] = q
               PROVE  e \in registry'[q] \/ excuse'[e] \cap {"clung", "late"} # {}
    BY DEF MirrorsKnown
  <2>1. q # p /\ by[e] = q
    BY <1>7, NoneAssumption
  <2> QED
    BY <1>7, <2>1 DEF MirrorsKnown
<1>9. StrikesFresh'
  <2>1. ASSUME NEW q \in Proc, NEW e \in Dir, Blameless(q, e)'
        PROVE  q # p /\ Blameless(q, e)
    BY <1>7, <2>1, NoneAssumption DEF Blameless
  <2> QED
    BY <1>7, <2>1 DEF StrikesFresh
<1> QED
  BY <1>3, <1>5, <1>6, <1>8, <1>9

LEMMA RunKeeps ==
    ASSUME IInv, NEW p \in Proc, RunStep(p)
    PROVE  HolderInv'
<1>1. CASE \E d \in Dir : FinalTeardown(p, d)
  BY <1>1, FinalTeardownKeeps
<1>2. CASE Exit(p) \/ Kill(p)
  BY <1>2, GoneKeeps DEF Exit, Kill
<1> QED
  BY <1>1, <1>2, StartKeeps DEF RunStep

-----------------------------------------------------------------------------
(* Handlers.  First what a step of a handler's program does to the claims.  *)

LEMMA MoveKeeps ==
    ASSUME IInv, NEW r \in Req, NEW pc \in Working, Goto(r, pc), req[r].pc \in Working,
           pc \in {"corpse", "setup"} => req[r].op = "mount",
           pc = "teardown" => req[r].op = "unmount",
           UNCHANGED <<runVars, inflight>>
    PROVE  LockHeld' /\ SocketReaches' /\ Accepted' /\ Operation' /\ ClaimsApart'
<1> USE DEF IInv, HolderInv, runVars
<1>1. pc \in ReqPc
  BY DEF Working, ReqPc
<1>2. /\ req'[r].pc = pc /\ req'[r].op = req[r].op
      /\ \A q \in Req : /\ req'[q].dir = req[q].dir /\ req'[q].proc = req[q].proc
                        /\ q # r => req'[q] = req[q]
  BY <1>1, GotoFields
<1>3. LockHeld' /\ SocketReaches'
  BY DEF LockHeld, SocketReaches
<1>4. Accepted'
  BY <1>2 DEF Accepted, Working
<1>5. Operation'
  BY <1>2 DEF Operation
<1>6. ClaimsApart'
  BY <1>2 DEF ClaimsApart
<1> QED
  BY <1>3, <1>4, <1>5, <1>6

LEMMA FinishKeeps ==
    ASSUME IInv, NEW r \in Req, NEW pc \in {"ok", "failed"}, Finish(r, pc), req[r].pc \in Working,
           UNCHANGED runVars
    PROVE  LockHeld' /\ SocketReaches' /\ Accepted' /\ Operation' /\ ClaimsApart'
<1> USE DEF IInv, HolderInv, runVars
<1>1. pc \in ReqPc /\ pc \notin Working
  BY DEF Working, ReqPc
<1>2. /\ req'[r].pc = pc /\ req'[r].op = req[r].op
      /\ \A q \in Req : /\ req'[q].dir = req[q].dir /\ req'[q].proc = req[q].proc
                        /\ q # r => req'[q] = req[q]
  BY <1>1, GotoFields DEF Finish
<1>3. LockHeld' /\ SocketReaches'
  BY DEF LockHeld, SocketReaches
<1>4. Accepted'
  BY <1>1, <1>2 DEF Accepted, Working
<1>5. Operation'
  BY <1>2 DEF Operation
<1>6. ClaimsApart'
  <2>1. ASSUME NEW q \in Req, req'[q].pc \in Working
        PROVE  /\ req[q].pc \in Working /\ q # r
               /\ req[q].dir \in inflight'[req[q].proc]
    <3>1. q # r /\ req[q].pc \in Working
      BY <1>1, <1>2, <2>1
    <3>2. req[q].dir \in inflight[req[q].proc] /\ req[q].proc \in Proc
      BY <3>1 DEF ClaimsApart, Accepted, Working
    <3>3. req[q].proc = req[r].proc => req[q].dir # req[r].dir
      BY <3>1 DEF ClaimsApart
    <3> QED
      BY <3>1, <3>2, <3>3 DEF Finish, TypeOK
  <2> QED
    BY <1>2, <2>1 DEF ClaimsApart
<1> QED
  BY <1>3, <1>4, <1>5, <1>6

LEMMA OutsideKeeps ==
    ASSUME IInv, NEW r \in Req, req[r].pc \notin Working, req'[r].pc \notin Working,
           \A q \in Req : q # r => req'[q] = req[q], UNCHANGED inflight
    PROVE  Operation' /\ ClaimsApart'
BY DEF IInv, HolderInv, Operation, ClaimsApart, Working

(* A step that leaves the mirrors and what is known of them alone.          *)
LEMMA MirrorFrame ==
    ASSUME HolderInv, UNCHANGED <<proc, left, registry, handles, strikes, deep, mnt, by, stacked, excuse>>
    PROVE  RowsHaveHandles' /\ NeverStacked' /\ MirrorsKnown' /\ SweepComplete' /\ StrikesFresh'
BY DEF HolderInv, RowsHaveHandles, NeverStacked, MirrorsKnown, SweepComplete, StrikesFresh, Blameless

(* A handler that works has its claim, and alone.                           *)
LEMMA WorkerAlone ==
    ASSUME IInv, NEW r \in Req, req[r].pc \in Working
    PROVE  /\ req[r].proc \in Proc /\ req[r].dir \in Dir /\ proc[req[r].proc] # "off"
           /\ proc[req[r].proc] # "sweeping" /\ req[r].pc \in ReqPc
           /\ \A q \in Req : q # r /\ req[q].pc \in Working =>
                 /\ req[q].proc = req[r].proc /\ req[q].dir \in Dir \ {req[r].dir}
<1> USE DEF IInv, HolderInv
<1>1. \A q \in Req : req[q].pc \in Working => req[q].pc # "idle" /\ req[q].pc \in ReqPc
  BY DEF Working, ReqPc
<1>2. \A q \in Req : req[q].pc \in Working =>
          /\ req[q].proc \in Proc /\ req[q].dir \in Dir /\ req[q].proc = lock
          /\ proc[req[q].proc] \in {"serving", "cancelled", "draining"}
  BY <1>1, OneHolder DEF Accepted
<1> QED
  BY <1>1, <1>2 DEF ClaimsApart

LEMMA AcceptKeeps ==
    ASSUME IInv, NEW r \in Req, Accept(r)
    PROVE  HolderInv'
<1> USE DEF IInv, HolderInv
<1>1. /\ socket \in Proc /\ proc[socket] \in {"serving", "cancelled"} /\ req[r].pc = "idle"
      /\ UNCHANGED <<runVars, holderVars, deep, kernelVars, excuse>>
  BY DEF Accept, Answers, TypeOK
<1>2. /\ req'[r].pc \in {"new", "sweep"} /\ req'[r].proc = socket
      /\ req'[r].pc = "new" => req'[r].dir \in Dir
      /\ \A q \in Req : q # r => req'[q] = req[q]
  BY DEF Accept, TypeOK
<1>3. LockHeld' /\ SocketReaches'
  BY <1>1 DEF LockHeld, SocketReaches, runVars
<1>4. Accepted'
  BY <1>1, <1>2 DEF Accepted, Working, runVars
<1>5. Operation' /\ ClaimsApart'
  BY <1>1, <1>2, OutsideKeeps DEF Working, holderVars
<1>6. SetupClear'
  BY <1>1, <1>2 DEF SetupClear, holderVars, kernelVars
<1>7. RowsHaveHandles' /\ NeverStacked' /\ MirrorsKnown' /\ SweepComplete' /\ StrikesFresh'
  BY <1>1, MirrorFrame DEF holderVars, kernelVars, runVars
<1> QED
  BY <1>3, <1>4, <1>5, <1>6, <1>7

LEMMA ClaimKeeps ==
    ASSUME IInv, NEW r \in Req, Claim(r)
    PROVE  HolderInv'
<1> USE DEF IInv, HolderInv
<1>1. /\ req[r].pc = "new" /\ req[r].proc \in Proc /\ req[r].dir \in Dir
      /\ UNCHANGED <<runVars, registry, strikes, handles, deep, kernelVars, excuse>>
  BY DEF Claim, Accepted
<1>2. PICK pc \in {"probe", "failed"} : Goto(r, pc)
  BY DEF Claim
<1>3. /\ req'[r].pc = pc
      /\ \A q \in Req : /\ req'[q].dir = req[q].dir /\ req'[q].proc = req[q].proc
                        /\ q # r => req'[q] = req[q]
  BY <1>2, GotoFields DEF ReqPc
<1>4. LockHeld' /\ SocketReaches' /\ Accepted' /\ Operation'
  BY <1>1, <1>3 DEF LockHeld, SocketReaches, Accepted, Operation, Working, runVars
<1>5. ClaimsApart'
  <2>1. CASE req[r].dir \notin inflight[req[r].proc]
    <3>1. inflight' = [inflight EXCEPT ![req[r].proc] = @ \cup {req[r].dir}]
      BY <2>1 DEF Claim, ClaimFree
    <3>2. \A q \in Req : req[q].pc \in Working => req[q].proc \in Proc
      BY DEF Accepted, Working
    <3>3. \A q \in Req : req[q].pc \in Working /\ req[q].proc = req[r].proc =>
                              req[q].dir # req[r].dir
      BY <2>1 DEF ClaimsApart
    <3>4. \A x \in Proc : inflight[x] \subseteq inflight'[x]
      BY <3>1 DEF TypeOK
    <3>5. req[r].dir \in inflight'[req[r].proc]
      BY <1>1, <3>1 DEF TypeOK
    <3> QED
      BY <1>3, <3>2, <3>3, <3>4, <3>5 DEF ClaimsApart
  <2>2. CASE req[r].dir \in inflight[req[r].proc]
    <3>1. Goto(r, "failed") /\ inflight' = inflight
      BY <2>2 DEF Claim, ClaimFree
    <3>2. req'[r].pc = "failed"
      BY <3>1, GotoFields DEF ReqPc
    <3> QED
      BY <1>1, <1>3, <3>1, <3>2, OutsideKeeps DEF Working
  <2> QED
    BY <2>1, <2>2
<1>6. SetupClear'
  BY <1>1, <1>3 DEF SetupClear, kernelVars
<1>7. RowsHaveHandles' /\ NeverStacked' /\ MirrorsKnown' /\ SweepComplete' /\ StrikesFresh'
  BY <1>1, MirrorFrame DEF kernelVars, runVars
<1> QED
  BY <1>4, <1>5, <1>6, <1>7

LEMMA ProbeKeeps ==
    ASSUME IInv, NEW r \in Req, MountProbe(r) \/ UnmountProbe(r)
    PROVE  HolderInv'
<1> USE DEF IInv, HolderInv
<1>1. /\ req[r].pc = "probe" /\ req[r].pc \in Working
      /\ UNCHANGED <<runVars, registry, strikes, handles, deep, kernelVars, excuse>>
  BY DEF MountProbe, UnmountProbe, Working
<1>2. PICK pc \in {"corpse", "setup", "teardown", "ok", "failed"} :
         \/ Finish(r, pc) /\ pc \in {"ok", "failed"}
         \/ /\ Goto(r, pc) /\ UNCHANGED inflight /\ pc \in Working
            /\ pc \in {"corpse", "setup"} => req[r].op = "mount"
            /\ pc = "teardown" => req[r].op = "unmount"
            /\ pc = "setup" => /\ req[r].dir \notin registry[req[r].proc]
                              /\ mnt[req[r].dir] = "none"
  BY DEF MountProbe, UnmountProbe, Working
<1>3. LockHeld' /\ SocketReaches' /\ Accepted' /\ Operation' /\ ClaimsApart'
  BY <1>1, <1>2, MoveKeeps, FinishKeeps
<1>4. /\ req'[r].pc = pc
      /\ \A q \in Req : /\ req'[q].dir = req[q].dir /\ req'[q].proc = req[q].proc
                        /\ q # r => req'[q] = req[q]
  BY <1>2, GotoFields DEF ReqPc, Finish
<1>5. SetupClear'
  BY <1>1, <1>2, <1>4 DEF SetupClear, kernelVars
<1>6. RowsHaveHandles' /\ NeverStacked' /\ MirrorsKnown' /\ SweepComplete' /\ StrikesFresh'
  BY <1>1, MirrorFrame DEF kernelVars, runVars
<1> QED
  BY <1>3, <1>5, <1>6

LEMMA TeardownHandlerKeeps ==
    ASSUME IInv, NEW r \in Req, Corpse(r) \/ Unmount(r)
    PROVE  HolderInv'
<1> USE DEF IInv, HolderInv
<1>1. /\ req[r].pc \in {"corpse", "teardown"} /\ req[r].pc \in Working
      /\ UNCHANGED <<runVars, strikes, deep>>
      /\ req[r].pc = "corpse" => req[r].op = "mount"
  BY DEF Corpse, Unmount, Working, Operation
<1>2. PICK pc \in {"setup", "ok", "failed"}, gone \in BOOLEAN :
         /\ Teardown(req[r].proc, req[r].dir, gone)
         /\ \/ pc # "setup" /\ Finish(r, pc)
            \/ pc = "setup" /\ Goto(r, pc) /\ UNCHANGED inflight /\ gone /\ req[r].pc = "corpse"
  BY DEF Corpse, Unmount
<1>3. LockHeld' /\ SocketReaches' /\ Accepted' /\ Operation' /\ ClaimsApart'
  <2>1. CASE pc = "setup"
    BY <1>1, <1>2, <2>1, MoveKeeps DEF Working
  <2>2. CASE pc # "setup"
    BY <1>1, <1>2, <2>2, FinishKeeps
  <2> QED
    BY <2>1, <2>2
<1>4. /\ req'[r].pc = pc
      /\ \A q \in Req : /\ req'[q].dir = req[q].dir /\ req'[q].proc = req[q].proc
                        /\ q # r => req'[q] = req[q]
  BY <1>2, GotoFields DEF ReqPc, Finish
<1>5. /\ req[r].proc \in Proc /\ req[r].dir \in Dir
      /\ \A q \in Req : req[q].pc = "setup" =>
             req[q].dir \in Dir \ {req[r].dir} /\ req[q].proc \in Proc
  BY <1>1, WorkerAlone DEF Working
<1>6. /\ RowsHaveHandles' /\ SetupClear' /\ NeverStacked' /\ MirrorsKnown'
      /\ SweepComplete' /\ StrikesFresh'
  <2>1. \A q \in Req : req'[q].pc = "setup" =>
            /\ req'[q].dir = req[q].dir /\ req'[q].proc = req[q].proc
            /\ \/ req[q].pc = "setup"
               \/ gone /\ req[q].dir = req[r].dir /\ req[q].proc = req[r].proc
    <3> SUFFICES ASSUME NEW q \in Req, req'[q].pc = "setup"
                 PROVE  req[q].pc = "setup" \/ (gone /\ q = r)
      BY <1>4
    <3>1. CASE q = r
      <4>1. pc = "setup"
        BY <1>4, <3>1
      <4>2. gone
        BY <1>2, <4>1
      <4> QED
        BY <3>1, <4>2
    <3>2. CASE q # r
      <4>1. req[q].pc = "setup"
        BY <1>4, <3>2
      <4> QED
        BY <4>1
    <3> QED
      BY <3>1, <3>2
  <2>2. UNCHANGED <<strikes, deep, proc>> /\ left' = left
    BY <1>1 DEF runVars
  <2> QED
    BY <1>2, <1>5, <2>1, <2>2, TeardownKeeps
<1> QED
  BY <1>3, <1>6

LEMMA SweepDirKeeps ==
    ASSUME IInv, NEW r \in Req, NEW d \in Dir, SweepDir(r, d)
    PROVE  HolderInv'
<1> USE DEF IInv, HolderInv
<1>1. /\ req[r].pc = "sweep" /\ req[r].proc \in Proc /\ req[r].proc = lock
      /\ UNCHANGED <<runVars, inflight, strikes, deep>>
      /\ req' = [req EXCEPT ![r].todo = @ \ {d}]
  BY OneHolder DEF SweepDir, Accepted
<1>2. \A q \in Req : /\ req'[q].pc = req[q].pc /\ req'[q].op = req[q].op
                     /\ req'[q].dir = req[q].dir /\ req'[q].proc = req[q].proc
  BY <1>1 DEF TypeOK, ReqState
<1>3. LockHeld' /\ SocketReaches' /\ Accepted' /\ Operation' /\ ClaimsApart'
  BY <1>1, <1>2 DEF LockHeld, SocketReaches, Accepted, Operation, ClaimsApart, runVars
<1>4. CASE ClaimFree(req[r].proc, d) /\ \E gone \in BOOLEAN : Teardown(req[r].proc, d, gone)
  <2>1. PICK gone \in BOOLEAN : Teardown(req[r].proc, d, gone)
    BY <1>4
  <2>2. ASSUME NEW q \in Req, req[q].pc = "setup"
        PROVE  req[q].dir \in Dir \ {d} /\ req[q].proc \in Proc
    <3>1. req[q].pc \in Working /\ req[q].pc # "idle"
      BY <2>2 DEF Working
    <3>2. req[q].proc = req[r].proc /\ req[q].dir \in Dir /\ req[q].proc \in Proc
      BY <1>1, <3>1, OneHolder, WorkerAlone
    <3>3. req[q].dir \in inflight[req[q].proc]
      BY <3>1 DEF ClaimsApart
    <3> QED
      BY <1>4, <3>2, <3>3 DEF ClaimFree
  <2>3. UNCHANGED <<strikes, deep, proc>> /\ left' = left
    BY <1>1 DEF runVars
  <2>4. /\ RowsHaveHandles' /\ SetupClear' /\ NeverStacked' /\ MirrorsKnown'
        /\ SweepComplete' /\ StrikesFresh'
    <3>0. \A q \in Req : req'[q].pc = "setup" =>
              /\ req'[q].dir = req[q].dir /\ req'[q].proc = req[q].proc
              /\ req[q].pc = "setup"
      BY <1>2
    <3>1. \A q \in Req : req'[q].pc = "setup" =>
              /\ req'[q].dir = req[q].dir /\ req'[q].proc = req[q].proc
              /\ \/ req[q].pc = "setup"
                 \/ gone /\ req[q].dir = d /\ req[q].proc = req[r].proc
      BY <3>0
    <3>2. \A q \in Req : req[q].pc = "setup" =>
              req[q].dir \in Dir \ {d} /\ req[q].proc \in Proc
      BY <2>2
    <3> QED
      BY <1>1, <2>1, <2>3, <3>1, <3>2, TeardownKeeps
  <2> QED
    BY <1>3, <2>4
<1>5. CASE UNCHANGED <<registry, handles, kernelVars, excuse, faults>>
  <2>1. SetupClear'
    BY <1>2, <1>5 DEF SetupClear, kernelVars
  <2>2. RowsHaveHandles' /\ NeverStacked' /\ MirrorsKnown' /\ SweepComplete' /\ StrikesFresh'
    BY <1>1, <1>5, MirrorFrame DEF kernelVars, runVars
  <2> QED
    BY <1>3, <2>1, <2>2
<1> QED
  BY <1>4, <1>5 DEF SweepDir

LEMMA EndKeeps ==
    ASSUME IInv, NEW r \in Req, Shutdown(r) \/ Reply(r)
    PROVE  HolderInv'
<1> USE DEF IInv, HolderInv
<1>1. /\ req[r].pc \in {"sweep", "ok", "failed"} /\ req[r].proc \in Proc
      /\ UNCHANGED <<lock, socket, left, holderVars, deep, kernelVars, excuse>>
  BY DEF Shutdown, Reply, Accepted, runVars
<1>2. /\ proc' = proc \/ proc' = [proc EXCEPT ![req[r].proc] =
                                       IF @ = "serving" THEN "cancelled" ELSE @]
      /\ proc \in [Proc -> ProcPc]
  BY DEF Shutdown, Reply, runVars, TypeOK
<1>3. /\ req'[r].pc \in {"ok", "idle"}
      /\ req'[r].pc # "idle" => req'[r].proc = req[r].proc
      /\ \A q \in Req : q # r => req'[q] = req[q]
  <2>1. CASE Shutdown(r)
    BY <2>1, GotoFields DEF Shutdown, ReqPc
  <2>2. CASE Reply(r)
    BY <2>2 DEF Reply, IdleReq, TypeOK
  <2> QED
    BY <2>1, <2>2
<1>4. \A p \in Proc : \/ proc'[p] = proc[p]
                      \/ proc[p] = "serving" /\ proc'[p] = "cancelled"
  BY <1>1, <1>2
<1>5. LockHeld' /\ SocketReaches'
  BY <1>1, <1>4 DEF LockHeld, SocketReaches
<1>6. Accepted'
  BY <1>1, <1>3, <1>4 DEF Accepted, Working
<1>7. Operation' /\ ClaimsApart'
  BY <1>1, <1>3, OutsideKeeps DEF Working, holderVars
<1>8. SetupClear'
  BY <1>1, <1>3 DEF SetupClear, holderVars, kernelVars
<1>9. RowsHaveHandles' /\ NeverStacked' /\ MirrorsKnown' /\ StrikesFresh'
  BY <1>1 DEF RowsHaveHandles, NeverStacked, MirrorsKnown, StrikesFresh, Blameless, holderVars,
     kernelVars
<1>10. SweepComplete'
  BY <1>1, <1>4 DEF SweepComplete, holderVars
<1> QED
  BY <1>5, <1>6, <1>7, <1>8, <1>9, <1>10

(* The one step that adds a row and a mirror: the mirror starts without     *)
(* strikes, and nothing was mounted, or something that came up late.       *)
LEMMA SetUpKeeps ==
    ASSUME IInv, NEW r \in Req, SetUp(r)
    PROVE  HolderInv'
<1> USE DEF IInv, HolderInv
<1>1. /\ req[r].pc = "setup" /\ req[r].pc \in Working /\ UNCHANGED <<runVars, deep>>
  BY DEF SetUp, Working
<1>2. PICK pc \in {"ok", "failed"} :
         /\ Finish(r, pc)
         /\ \/ Mount(req[r].proc, req[r].dir)
            \/ MountTimesOut(req[r].proc, req[r].dir)
  BY DEF SetUp
<1>3. LockHeld' /\ SocketReaches' /\ Accepted' /\ Operation' /\ ClaimsApart'
  BY <1>1, <1>2, FinishKeeps
<1>4. /\ req'[r].pc = pc
      /\ \A q \in Req : /\ req'[q].dir = req[q].dir /\ req'[q].proc = req[q].proc
                        /\ q # r => req'[q] = req[q]
  BY <1>2, GotoFields DEF ReqPc, Finish
<1>5. /\ req[r].proc \in Proc /\ req[r].dir \in Dir /\ proc[req[r].proc] # "sweeping"
      /\ \A q \in Req : req[q].pc = "setup" /\ q # r =>
             req[q].dir \in Dir \ {req[r].dir} /\ req[q].proc \in Proc
  BY <1>1, WorkerAlone DEF Working
<1>6. CASE MountTimesOut(req[r].proc, req[r].dir)
  <2>1. UNCHANGED <<mnt, by, stacked, excuse, handles, registry, strikes>>
    BY <1>6 DEF MountTimesOut
  <2>2. SetupClear'
    BY <1>4, <2>1 DEF SetupClear
  <2>3. RowsHaveHandles' /\ NeverStacked' /\ MirrorsKnown' /\ SweepComplete' /\ StrikesFresh'
    BY <1>1, <2>1, MirrorFrame DEF runVars
  <2> QED
    BY <1>3, <2>2, <2>3
<1>7. CASE Mount(req[r].proc, req[r].dir)
  <2> DEFINE p == req[r].proc
             d == req[r].dir
  <2>1. /\ d \notin registry[p] /\ d \notin handles[p]
        /\ mnt[d] = "none" \/ "late" \in excuse[d]
    BY <1>1, <1>5 DEF SetupClear, RowsHaveHandles
  <2>2. /\ mnt' = [mnt EXCEPT ![d] = "live"] /\ by' = [by EXCEPT ![d] = p]
        /\ excuse' = [excuse EXCEPT ![d] = @ \cap {"late"}] /\ stacked' = stacked
        /\ handles' = [handles EXCEPT ![p] = @ \cup {d}]
        /\ registry' = [registry EXCEPT ![p] = @ \cup {d}]
        /\ strikes' = [strikes EXCEPT ![p][d] = 0]
    BY <1>7, <2>1 DEF Mount, FreshVerdict
  <2>3. /\ \A e \in Dir : e # d => mnt'[e] = mnt[e] /\ by'[e] = by[e] /\ excuse'[e] = excuse[e]
        /\ mnt'[d] = "live" /\ by'[d] = p
        /\ \A q \in Proc : q # p => registry'[q] = registry[q] /\ strikes'[q] = strikes[q]
        /\ registry'[p] = registry[p] \cup {d} /\ strikes'[p][d] = 0
        /\ \A e \in Dir : e # d => strikes'[p][e] = strikes[p][e]
    BY <1>5, <2>2 DEF TypeOK
  <2>4. RowsHaveHandles' /\ NeverStacked'
    BY <1>5, <2>2 DEF RowsHaveHandles, NeverStacked, TypeOK
  <2>5. SetupClear'
    <3> SUFFICES ASSUME NEW q \in Req, req'[q].pc = "setup"
                 PROVE  /\ req[q].dir \notin registry'[req[q].proc]
                        /\ mnt'[req[q].dir] = "none" \/ "late" \in excuse'[req[q].dir]
      BY <1>4 DEF SetupClear
    <3>1. q # r /\ req[q].pc = "setup"
      BY <1>4
    <3>2. req[q].dir \in Dir /\ req[q].dir # d /\ req[q].proc \in Proc
      BY <1>5, <3>1
    <3> QED
      BY <2>3, <3>1, <3>2 DEF SetupClear
  <2>6. MirrorsKnown'
    <3> SUFFICES ASSUME NEW q \in Proc, NEW e \in Dir, by'[e] = q
                 PROVE  e \in registry'[q] \/ excuse'[e] \cap {"clung", "late"} # {}
      BY DEF MirrorsKnown
    <3> QED
      BY <2>3 DEF MirrorsKnown
  <2>7. SweepComplete'
    BY <1>1, <1>5, <2>3 DEF SweepComplete, runVars
  <2>8. StrikesFresh'
    <3> SUFFICES ASSUME NEW q \in Proc, NEW e \in Dir, Blameless(q, e)'
                 PROVE  /\ strikes'[q][e] < deepWedgeStrikes
                        /\ deep'[q].dir = e /\ deep'[q].read = "fail" => strikes'[q][e] = 0
      BY DEF StrikesFresh
    <3>1. CASE e = d
      <4>1. q = p
        BY <2>3, <3>1 DEF Blameless
      <4> QED
        BY <2>3, <3>1, <4>1 DEF deepWedgeStrikes
    <3>2. CASE e # d
      <4>1. Blameless(q, e)
        BY <2>3, <3>2 DEF Blameless
      <4>2. strikes'[q][e] = strikes[q][e]
        BY <2>3, <3>2
      <4> QED
        BY <1>1, <4>1, <4>2 DEF StrikesFresh
    <3> QED
      BY <3>1, <3>2
  <2> QED
    BY <1>3, <2>4, <2>5, <2>6, <2>7, <2>8
<1> QED
  BY <1>2, <1>6, <1>7

LEMMA HandlerKeeps ==
    ASSUME IInv, NEW r \in Req, HandlerStep(r)
    PROVE  HolderInv'
BY AcceptKeeps, ClaimKeeps, ProbeKeeps, TeardownHandlerKeeps, SetUpKeeps, SweepDirKeeps, EndKeeps
   DEF HandlerStep

-----------------------------------------------------------------------------
(* Deep probes and the world. *)

LEMMA DeepKeeps ==
    ASSUME IInv, NEW p \in Proc, DeepStep(p)
    PROVE  HolderInv'
<1> USE DEF IInv, HolderInv
<1>1. /\ UNCHANGED <<runVars, registry, inflight, handles, req, kernelVars>>
      /\ \A d \in Dir : excuse[d] \subseteq excuse'[d]
  <2>1. UNCHANGED <<runVars, registry, inflight, handles, req, kernelVars>>
    BY DEF DeepStep, DeepPass, DeepRead, DeepRecord, KernelAnswers, holderVars
  <2>2. excuse \in [Dir -> SUBSET {"late", "clung", "slow", "joined"}]
    BY DEF TypeOK
  <2>3. \/ excuse' = excuse
        \/ \E d \in Dir, what \in {"slow", "joined"} : Excuse(d, what)
    BY DEF DeepStep, DeepPass, DeepRead, DeepRecord, KernelAnswers
  <2> QED
    BY <2>1, <2>2, <2>3 DEF Excuse
<1>2. /\ LockHeld' /\ SocketReaches' /\ Accepted' /\ Operation' /\ ClaimsApart'
      /\ RowsHaveHandles' /\ NeverStacked' /\ SweepComplete'
  BY <1>1 DEF LockHeld, SocketReaches, Accepted, Operation, ClaimsApart, RowsHaveHandles,
     NeverStacked, SweepComplete, runVars, kernelVars
<1>3. SetupClear'
  <2> SUFFICES ASSUME NEW r \in Req, req[r].pc = "setup"
               PROVE  /\ req[r].dir \notin registry[req[r].proc]
                      /\ mnt[req[r].dir] = "none" \/ "late" \in excuse'[req[r].dir]
    BY <1>1 DEF SetupClear, kernelVars
  <2>1. req[r].dir \in Dir
    BY DEF Accepted, Working
  <2> QED
    BY <1>1, <2>1 DEF SetupClear
<1>4. MirrorsKnown'
  BY <1>1 DEF MirrorsKnown, kernelVars
<1>5. \A q \in Proc, e \in Dir : Blameless(q, e)' => Blameless(q, e)
  BY <1>1 DEF Blameless, kernelVars
<1>6. ASSUME NEW q \in Proc, NEW e \in Dir, Blameless(q, e)'
      PROVE  /\ strikes'[q][e] < deepWedgeStrikes
             /\ deep'[q].dir = e /\ deep'[q].read = "fail" => strikes'[q][e] = 0
  <2>1. /\ Blameless(q, e) /\ strikes[q][e] \in 0..1
        /\ deep[q].dir = e /\ deep[q].read = "fail" => strikes[q][e] = 0
    BY <1>5, <1>6 DEF StrikesFresh, TypeOK, deepWedgeStrikes
  <2>2. deep \in [Proc -> DeepState] /\ strikes \in [Proc -> [Dir -> 0..deepWedgeStrikes]]
    BY DEF TypeOK
  <2>3. CASE DeepPass(p) \/ (\E d \in Dir : KernelAnswers(p, d))
    <3>1. strikes' = strikes
      BY <2>3 DEF DeepPass, KernelAnswers, holderVars
    <3>2. deep'[q].dir = deep[q].dir /\ deep'[q].read = deep[q].read
      <4>1. CASE DeepPass(p)
        BY <2>2, <4>1 DEF DeepPass, DeepState
      <4>2. ASSUME NEW d \in Dir, KernelAnswers(p, d)
            PROVE  deep'[q].dir = deep[q].dir /\ deep'[q].read = deep[q].read
        BY <2>2, <4>2 DEF KernelAnswers, DeepState
      <4> QED
        BY <2>3, <4>1, <4>2
    <3> QED
      BY <2>1, <3>1, <3>2 DEF deepWedgeStrikes
  <2>4. ASSUME NEW d \in Dir, DeepRead(p, d)
        PROVE  /\ strikes' = strikes
               /\ deep'[q].dir = e /\ deep'[q].read = "fail" => strikes'[q][e] = 0
    <3>1. strikes' = strikes
      BY <2>4 DEF DeepRead, holderVars
    <3>2. CASE q # p
      BY <2>1, <2>2, <2>4, <3>1, <3>2 DEF DeepRead, Reading
    <3>3. CASE q = p /\ deep' = [deep EXCEPT ![p].todo = @ \ {d}]
      BY <2>1, <2>2, <3>1, <3>3 DEF DeepState
    <3>4. ASSUME NEW o \in {"ok", "missing", "fail"}, NEW S, Reading(p, d, o, S), q = p
          PROVE  deep'[q].dir = d /\ deep'[q].read = o
      BY <2>2, <3>4 DEF Reading, DeepState
    <3>5. CASE d # e /\ q = p
      BY <2>4, <3>1, <3>3, <3>4, <3>5 DEF DeepRead, ReadOf
    <3>6. CASE d = e /\ q = p
      <4>1. /\ mnt[e] = "live" /\ ~("slow" \in excuse'[e]) /\ ~("joined" \in excuse'[e])
        BY <1>6, <2>1 DEF Blameless
      <4>2. \/ deep' = [deep EXCEPT ![p].todo = @ \ {d}]
            \/ Reading(p, d, "ok", {})
        BY <2>4, <3>6, <4>1 DEF DeepRead, ReadOf, Excuse, TypeOK
      <4> QED
        BY <3>1, <3>3, <3>4, <3>6, <4>2
    <3> QED
      BY <3>1, <3>2, <3>5, <3>6
  <2>5. CASE DeepRecord(p)
    <3>1. deep[p].dir \in Dir /\ deep[p].read \in {"ok", "fail", "missing"}
      BY <2>2, <2>5 DEF DeepRecord, DeepState
    <3>2. /\ deep'[p].dir = None /\ \A x \in Proc : x # p => deep'[x] = deep[x]
          /\ \A x \in Proc : x # p => strikes'[x] = strikes[x]
          /\ \A y \in Dir : y # deep[p].dir => strikes'[p][y] = strikes[p][y]
      BY <2>2, <2>5 DEF DeepRecord, DeepState
    <3>3. strikes'[p][deep[p].dir] = IF deep[p].read = "ok" THEN 0
                                     ELSE IF deep[p].read = "fail"
                                            THEN Strike(strikes[p][deep[p].dir])
                                            ELSE strikes[p][deep[p].dir]
      BY <2>2, <2>5, <3>1 DEF DeepRecord
    <3>4. CASE q = p /\ e = deep[p].dir
      BY <2>1, <3>1, <3>2, <3>3, <3>4, NoneAssumption DEF Strike, deepWedgeStrikes
    <3>5. CASE q # p \/ e # deep[p].dir
      BY <2>1, <3>2, <3>5, NoneAssumption DEF deepWedgeStrikes
    <3> QED
      BY <3>4, <3>5
  <2> QED
    BY <2>1, <2>3, <2>4, <2>5 DEF DeepStep, deepWedgeStrikes
<1>7. StrikesFresh'
  BY <1>6 DEF StrikesFresh
<1> QED
  BY <1>2, <1>3, <1>4, <1>7

LEMMA WorldKeeps ==
    ASSUME IInv, NEW d \in Dir, World(d)
    PROVE  HolderInv'
<1> USE DEF IInv, HolderInv
<1>1. UNCHANGED <<runVars, holderVars, req, deep, stacked>>
  BY DEF World, MirrorFails, PulledAway, LateMount
<1>2. /\ LockHeld' /\ SocketReaches' /\ Accepted' /\ Operation' /\ ClaimsApart'
      /\ RowsHaveHandles' /\ NeverStacked' /\ SweepComplete'
  BY <1>1 DEF LockHeld, SocketReaches, Accepted, Operation, ClaimsApart, RowsHaveHandles,
     NeverStacked, SweepComplete, runVars, holderVars
<1>3. /\ \A e \in Dir : e # d => mnt'[e] = mnt[e] /\ by'[e] = by[e] /\ excuse'[e] = excuse[e]
      /\ \/ mnt[d] = "live" /\ mnt'[d] # "live" /\ by'[d] = by[d] /\ excuse'[d] = excuse[d]
         \/ mnt'[d] = "none" /\ by'[d] = None
         \/ "late" \in excuse'[d]
  <2>1. CASE MirrorFails(d)
    BY <2>1 DEF MirrorFails, TypeOK
  <2>2. CASE PulledAway(d)
    BY <2>2 DEF PulledAway, TypeOK
  <2>3. CASE \E p \in Proc : LateMount(p, d)
    BY <2>3 DEF LateMount, Excuse, TypeOK
  <2> QED
    BY <2>1, <2>2, <2>3 DEF World
<1>4. SetupClear'
  <2> SUFFICES ASSUME NEW r \in Req, req[r].pc = "setup"
               PROVE  /\ req[r].dir \notin registry[req[r].proc]
                      /\ mnt'[req[r].dir] = "none" \/ "late" \in excuse'[req[r].dir]
    BY <1>1 DEF SetupClear, holderVars
  <2>1. req[r].dir \in Dir
    BY DEF Accepted, Working
  <2> QED
    BY <1>3, <2>1 DEF SetupClear
<1>5. MirrorsKnown'
  <2> SUFFICES ASSUME NEW q \in Proc, NEW e \in Dir, by'[e] = q
               PROVE  e \in registry'[q] \/ excuse'[e] \cap {"clung", "late"} # {}
    BY DEF MirrorsKnown
  <2> QED
    BY <1>1, <1>3, NoneAssumption DEF MirrorsKnown, holderVars
<1>6. \A q \in Proc, e \in Dir : Blameless(q, e)' => Blameless(q, e)
  BY <1>1, <1>3 DEF Blameless, holderVars
<1>7. StrikesFresh'
  BY <1>1, <1>6 DEF StrikesFresh, holderVars
<1> QED
  BY <1>2, <1>4, <1>5, <1>7

-----------------------------------------------------------------------------
(* The theorems. *)

LEMMA IInvInvariant == Spec => []IInv
<1>1. Init => IInv
  BY InitTypeOK, InitHolderInv DEF IInv
<1>2. ASSUME IInv, [Next]_vars
      PROVE  IInv'
  <2>1. CASE UNCHANGED vars
    BY <1>2, <2>1 DEF IInv, HolderInv, TypeOK, LockHeld, SocketReaches, Accepted, Operation,
       ClaimsApart, RowsHaveHandles, SetupClear, NeverStacked, MirrorsKnown, SweepComplete,
       StrikesFresh, Blameless, vars, runVars, holderVars, kernelVars
  <2>2. ASSUME NEW p \in Proc, RunStep(p)
        PROVE  IInv'
    BY <1>2, <2>2, RunTypes, RunKeeps DEF IInv
  <2>3. ASSUME NEW r \in Req, HandlerStep(r)
        PROVE  IInv'
    <3>1. /\ req[r].pc # "idle" => req[r].proc \in Proc
          /\ req[r].pc \in Working \cup {"new"} => req[r].dir \in Dir
      BY <1>2 DEF IInv, HolderInv, Accepted, Working
    <3> QED
      BY <1>2, <2>3, <3>1, HandlerTypes, HandlerKeeps DEF IInv
  <2>4. ASSUME NEW p \in Proc, DeepStep(p)
        PROVE  IInv'
    BY <1>2, <2>4, ProbeAndWorldTypes, DeepKeeps DEF IInv
  <2>5. ASSUME NEW d \in Dir, World(d)
        PROVE  IInv'
    BY <1>2, <2>5, ProbeAndWorldTypes, WorldKeeps DEF IInv
  <2> QED
    BY <1>2, <2>1, <2>2, <2>3, <2>4, <2>5 DEF Next
<1> QED
  BY <1>1, <1>2, PTL DEF Spec

(* The state of the holder, its handlers and the kernel has its type.      *)
THEOREM TypeCorrect == Spec => []TypeOK
<1>1. IInv => TypeOK
  BY DEF IInv
<1> QED
  BY <1>1, IInvInvariant, PTL

(* The holder that accepts connections is the one the socket leads to,      *)
(* however many holders are started (listen, closeListener).               *)
THEOREM OneServes == Spec => []SocketReaches
<1>1. IInv => SocketReaches
  BY DEF IInv, HolderInv
<1> QED
  BY <1>1, IInvInvariant, PTL

(* No mountpoint is mounted over by handleMount, with any number of         *)
(* handlers at once.                                                       *)
THEOREM MountsApart == Spec => []NeverStacked
<1>1. IInv => NeverStacked
  BY DEF IInv, HolderInv
<1> QED
  BY <1>1, IInvInvariant, PTL

(* The registry and the fuse provider agree on what is mounted.            *)
THEOREM RowsAndHandlesAgree == Spec => []RegistersAgree
<1>1. IInv => RegistersAgree
  BY DEF IInv, HolderInv, RowsHaveHandles, RegistersAgree
<1> QED
  BY <1>1, IInvInvariant, PTL

(* A holder on its way out has taken down all it could (Run's last sweep).  *)
THEOREM ShutdownClean == Spec => []NoneLeftBehind
<1>1. IInv => NoneLeftBehind
  BY DEF IInv, HolderInv, MirrorsKnown, SweepComplete, NoneLeftBehind
<1> QED
  BY <1>1, IInvInvariant, PTL

(* No healthy mirror is called wedged for what an earlier one did, but by a *)
(* read that is still parked (deepProbePass, recordDeepVerdict).           *)
THEOREM VerdictsFair == Spec => []CondemnedRightly
<1>1. IInv => CondemnedRightly
  BY DEF IInv, HolderInv, StrikesFresh, Blameless, CondemnedRightly, deepWedgeStrikes
<1> QED
  BY <1>1, IInvInvariant, PTL

(* A handler changes its own state only.                                   *)
LEMMA HandlerAlone ==
    ASSUME TypeOK, NEW r \in Req, HandlerStep(r)
    PROVE  \A q \in Req : q # r => req'[q] = req[q]
<1>1. ASSUME NEW pc, Goto(r, pc) \/ Finish(r, pc)
      PROVE  \A q \in Req : q # r => req'[q] = req[q]
  BY <1>1 DEF Goto, Finish, TypeOK
<1>2. CASE Accept(r) \/ Reply(r) \/ \E d \in Dir : SweepDir(r, d)
  BY <1>2 DEF Accept, Reply, SweepDir, TypeOK
<1>3. CASE Claim(r) \/ Shutdown(r)
  BY <1>1, <1>3 DEF Claim, Shutdown
<1>4. CASE MountProbe(r)
  BY <1>1, <1>4 DEF MountProbe
<1>5. CASE UnmountProbe(r)
  BY <1>1, <1>5 DEF UnmountProbe
<1>6. CASE Corpse(r) \/ SetUp(r) \/ Unmount(r)
  BY <1>1, <1>6 DEF Corpse, SetUp, Unmount
<1> QED
  BY <1>2, <1>3, <1>4, <1>5, <1>6 DEF HandlerStep

(* A mount answered OK serves, an unmount answered OK is no mountpoint      *)
(* (handleMount, handleUnmount).                                           *)
THEOREM AnswersHold == Spec => RepliesHonest
<1>1. ASSUME IInv, [Next]_vars
      PROVE  [\A r \in Req : LET d == req[r].dir IN
                req[r].pc \in {"probe", "setup", "teardown"} /\ req'[r].pc = "ok" =>
                    IF req[r].op = "mount" THEN mnt'[d] \in {"live", "wedged"}
                                           ELSE mnt'[d] = "none"]_vars
  <2> USE DEF IInv, HolderInv
  <2> SUFFICES ASSUME NEW r \in Req, req[r].pc \in {"probe", "setup", "teardown"},
                      req'[r].pc = "ok", Next
               PROVE  IF req[r].op = "mount" THEN mnt'[req[r].dir] \in {"live", "wedged"}
                                             ELSE mnt'[req[r].dir] = "none"
    BY <1>1 DEF vars
  <2>1. req[r].proc \in Proc /\ req[r].dir \in Dir /\ req[r].pc \in Working
    BY <1>1, WorkerAlone DEF Working
  <2>2. req'[r] # req[r] /\ req'[r].pc # "idle"
    OBVIOUS
  <2>3. HandlerStep(r)
    <3>1. ASSUME NEW p \in Proc, RunStep(p)
          PROVE  FALSE
      <4>1. req' = req \/ Gone(p)
        BY <3>1 DEF RunStep, Start, CheckPeer, Bind, Signal, CloseListener, FinalSweep,
           FinalTeardown, Exit, Kill
      <4> QED
        BY <2>2, <4>1 DEF Gone, IdleReq
    <3>2. ASSUME NEW p \in Proc, DeepStep(p)
          PROVE  FALSE
      BY <2>2, <3>2 DEF DeepStep, DeepPass, DeepRead, DeepRecord, KernelAnswers
    <3>3. ASSUME NEW d \in Dir, World(d)
          PROVE  FALSE
      BY <2>2, <3>3 DEF World, MirrorFails, PulledAway, LateMount
    <3>4. ASSUME NEW q \in Req, HandlerStep(q), q # r
          PROVE  FALSE
      BY <1>1, <2>2, <3>4, HandlerAlone
    <3> QED
      BY <3>1, <3>2, <3>3, <3>4 DEF Next
  <2>4. \A pc \in ReqPc : Goto(r, pc) \/ Finish(r, pc) => pc = "ok"
    BY <1>1, GotoFields DEF Finish
  <2>5. CASE MountProbe(r)
    BY <2>4, <2>5 DEF MountProbe, HeldLive, kernelVars, ReqPc
  <2>6. CASE UnmountProbe(r)
    BY <2>4, <2>6 DEF UnmountProbe, kernelVars, ReqPc, MountProbe
  <2>7. CASE SetUp(r)
    <3>1. Mount(req[r].proc, req[r].dir)
      BY <2>4, <2>7 DEF SetUp, ReqPc
    <3>2. req[r].op = "mount" /\ req[r].dir \notin handles[req[r].proc]
      BY <2>1, <2>7, <1>1 DEF SetUp, Operation, SetupClear, RowsHaveHandles
    <3>3. mnt' = [mnt EXCEPT ![req[r].dir] = "live"]
      BY <3>1, <3>2 DEF Mount
    <3> QED
      BY <1>1, <2>1, <3>2, <3>3 DEF TypeOK
  <2>8. CASE Unmount(r)
    <3>1. Teardown(req[r].proc, req[r].dir, TRUE) /\ req[r].op = "unmount"
      BY <1>1, <2>4, <2>8 DEF Unmount, ReqPc, Operation
    <3>2. mnt'[req[r].dir] = "none"
      BY <1>1, <2>1, <3>1, TeardownDoes
    <3> QED
      BY <3>1, <3>2
  <2> QED
    BY <2>3, <2>5, <2>6, <2>7, <2>8 DEF HandlerStep, Accept, Claim, Corpse, SweepDir, Shutdown, Reply
<1> QED
  BY <1>1, IInvInvariant, PTL DEF Spec, RepliesHonest
=============================================================================
