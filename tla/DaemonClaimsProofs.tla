-------------------------- MODULE DaemonClaimsProofs --------------------------
(***************************************************************************)
(* Proofs about DaemonClaims for any number of accounts, clients and       *)
(* migrates, any bounds, and selects with or without the daemon.           *)
(***************************************************************************)
EXTENDS DaemonClaims, TLAPS

Falling == {"gate", "unmount", "commit"}

(* Whoever works on an account holds its claim. *)
OwnersHold ==
    /\ \A m \in Migrator : mig[m].pc # "idle" => mig[m].acct \in converting
    /\ \A w \in Worker : worker[w].pc # "idle" /\ ~UnderReplace(w) => worker[w].acct \in polling
    /\ \A w \in Worker : worker[w].pc \in Falling =>
           worker[w].acct \in converting /\ ~UnderReplace(w)
    /\ sup.pc \in ReplacePc => sup.ids \subseteq converting
    /\ replacing <=> sup.pc \in ReplacePc

(* The supervisor's visits are part of a tick or of a replacement. *)
SupPlace ==
    /\ worker["sup"].pc # "idle" => sup.pc \in {"rows", "remount"}
    /\ UnderReplace("sup") /\ worker["sup"].pc # "idle" => worker["sup"].acct \in sup.ids
    /\ sup.pc = "remount" => sup.todo \subseteq sup.ids

(* No account has two owners. *)
OwnersApart ==
    /\ \A m1, m2 \in Migrator : /\ m1 # m2
                                /\ mig[m1].pc # "idle" /\ mig[m2].pc # "idle"
                                => mig[m1].acct # mig[m2].acct
    /\ \A m \in Migrator, w \in Worker :
           mig[m].pc # "idle" /\ worker[w].pc # "idle" => mig[m].acct # worker[w].acct
    /\ worker["loop"].pc # "idle" /\ worker["sup"].pc # "idle" =>
           worker["loop"].acct # worker["sup"].acct
    /\ sup.pc \in ReplacePc =>
           /\ \A m \in Migrator : mig[m].pc # "idle" => mig[m].acct \notin sup.ids
           /\ worker["loop"].pc # "idle" => worker["loop"].acct \notin sup.ids

(* Every claim has an owner. *)
ClaimsOwned ==
    /\ \A a \in converting :
           \/ \E m \in Migrator : mig[m].pc # "idle" /\ mig[m].acct = a
           \/ \E w \in Worker : worker[w].pc \in Falling /\ worker[w].acct = a
           \/ sup.pc \in ReplacePc /\ a \in sup.ids
    /\ \A a \in polling : \E w \in Worker :
           worker[w].pc # "idle" /\ ~UnderReplace(w) /\ worker[w].acct = a

(* A request that has chosen an account chose a real one. *)
Chosen == \A c \in Client : client[c].pc # "idle" => client[c].acct \in Account

ClaimInv ==
    /\ OwnersHold /\ SupPlace /\ OwnersApart /\ ClaimsOwned
    /\ ReservedNotConverting

IInv == TypeOK /\ Chosen /\ ClaimInv

-----------------------------------------------------------------------------
(* The records keep their shape when a program counter moves. *)

LEMMA ClientGoto ==
    ASSUME NEW r \in ClientState, NEW pc \in ClientPc
    PROVE  /\ [r EXCEPT !.pc = pc] \in ClientState
           /\ [r EXCEPT !.pc = pc].pc = pc
           /\ [r EXCEPT !.pc = pc].acct = r.acct
           /\ [r EXCEPT !.pc = pc].known = r.known
BY DEF ClientState

LEMMA MigGoto ==
    ASSUME NEW r \in MigState, NEW pc \in MigPc
    PROVE  /\ [r EXCEPT !.pc = pc] \in MigState
           /\ [r EXCEPT !.pc = pc].pc = pc
           /\ [r EXCEPT !.pc = pc].acct = r.acct
BY DEF MigState

LEMMA WorkerGoto ==
    ASSUME NEW r \in WorkerState, NEW pc \in WorkerPc
    PROVE  /\ [r EXCEPT !.pc = pc] \in WorkerState
           /\ [r EXCEPT !.pc = pc].pc = pc
           /\ [r EXCEPT !.pc = pc].acct = r.acct
BY DEF WorkerState

LEMMA SupGoto ==
    ASSUME NEW r \in SupState, NEW pc \in SupPc, NEW S \in SUBSET Account
    PROVE  /\ [r EXCEPT !.pc = pc] \in SupState
           /\ [r EXCEPT !.pc = pc, !.ids = S] \in SupState
           /\ [r EXCEPT !.pc = pc, !.todo = S] \in SupState
           /\ [r EXCEPT !.todo = S] \in SupState
BY DEF SupState

LEMMA IdleStates ==
    /\ IdleClient \in ClientState /\ IdleMig \in MigState
    /\ IdleWorker \in WorkerState /\ IdleSup \in SupState
BY DEF IdleClient, IdleMig, IdleWorker, IdleSup, ClientState, MigState, WorkerState, SupState,
       ClientPc, MigPc, WorkerPc, SupPc, Kind

LEMMA InitIInv == Init => IInv
<1> SUFFICES ASSUME Init PROVE IInv
  OBVIOUS
<1> USE DEF Init
<1>1. TypeOK
  BY IdleStates DEF TypeOK, Kind, MirrorState, LoopState, NoRows
<1>2. Chosen
  BY DEF Chosen, IdleClient
<1>3. /\ \A m \in Migrator : mig[m].pc = "idle"
      /\ \A w \in Worker : worker[w].pc = "idle"
      /\ sup.pc = "idle"
  BY DEF IdleMig, IdleWorker, IdleSup
<1>4. ClaimInv
  BY <1>3 DEF ClaimInv, OwnersHold, SupPlace, OwnersApart, ClaimsOwned, ReservedNotConverting,
         UnderReplace, Falling, ReplacePc, Worker
<1> QED
  BY <1>1, <1>2, <1>4 DEF IInv

(* A step that moves no claim, no conversion and no worker keeps ClaimInv. *)
LEMMA ClaimFrame ==
    ASSUME ClaimInv, UNCHANGED <<claimVars, mig, worker, sup>>
    PROVE  ClaimInv'
BY DEF claimVars, ClaimInv, OwnersHold, SupPlace, OwnersApart, ClaimsOwned,
       ReservedNotConverting, UnderReplace

-----------------------------------------------------------------------------
(* Select. *)

LEMMA SelectKeepsIInv ==
    ASSUME IInv, SelectNext
    PROVE  IInv'
<1> USE DEF IInv, dirVars, boundVars, claimVars
<1>1. ASSUME NEW c \in Client, NEW a \in Account, SelectList(c, a)
      PROVE  IInv'
  <2>1. [pc |-> "listed", acct |-> a, kind |-> row[a], known |-> "no"] \in ClientState
    BY DEF TypeOK, ClientState, ClientPc
  <2>2. TypeOK' /\ Chosen'
    BY <1>1, <2>1 DEF SelectList, TypeOK, Chosen
  <2> QED
    BY <1>1, <2>2, ClaimFrame DEF SelectList
<1>2. ASSUME NEW c \in Client, NEW a \in Account, SelectDaemonless(c, a)
      PROVE  IInv'
  <2>1. [pc |-> "bypass", acct |-> a, kind |-> "symlink", known |-> "no"] \in ClientState
    BY DEF ClientState, ClientPc, Kind
  <2>2. TypeOK' /\ Chosen'
    BY <1>2, <2>1 DEF SelectDaemonless, TypeOK, Chosen
  <2> QED
    BY <1>2, <2>2, ClaimFrame DEF SelectDaemonless
<1>3. ASSUME NEW c \in Client, SelectFilter(c)
      PROVE  IInv'
  <2>1. client[c].acct \in Account
    BY <1>3 DEF SelectFilter, Chosen
  <2>2. [pc |-> "ready", acct |-> client[c].acct, kind |-> "symlink", known |-> "no"]
            \in ClientState
    BY <2>1 DEF ClientState, ClientPc, Kind
  <2>3. vouched' \subseteq Account
    BY <1>3 DEF SelectFilter, CacheChoices, Served, TypeOK
  <2>4. TypeOK'
    BY <1>3, <2>2, <2>3, IdleStates DEF SelectFilter, TypeOK
  <2>5. Chosen'
    BY <1>3, <2>1 DEF SelectFilter, TypeOK, Chosen, IdleClient
  <2> QED
    BY <1>3, <2>4, <2>5, ClaimFrame DEF SelectFilter
<1>4. ASSUME NEW c \in Client, SelectReserve(c)
      PROVE  IInv'
  <2>1. client[c].acct \in Account
    BY <1>4 DEF SelectReserve, Chosen
  <2>2. [pc |-> "launching", acct |-> client[c].acct, kind |-> "symlink", known |-> "yes"]
            \in ClientState
    BY <2>1 DEF ClientState, ClientPc, Kind
  <2>3. TypeOK'
    BY <1>4, <2>1, <2>2, IdleStates DEF SelectReserve, TypeOK
  <2>4. Chosen'
    BY <1>4, <2>1, <2>2 DEF SelectReserve, TypeOK, Chosen, IdleClient
  <2>5. ClaimInv'
    BY <1>4 DEF SelectReserve, TryReserve, ClaimInv, OwnersHold, SupPlace, OwnersApart,
                ClaimsOwned, ReservedNotConverting, UnderReplace
  <2> QED
    BY <2>3, <2>4, <2>5
<1>5. ASSUME NEW c \in Client, Launch(c)
      PROVE  IInv'
  <2>1. client[c].acct \in Account
    BY <1>5 DEF Launch, Chosen
  <2>2. [client[c] EXCEPT !.pc = "session"] \in ClientState
    BY ClientGoto DEF TypeOK, ClientPc
  <2>3. TypeOK'
    BY <1>5, <2>2 DEF Launch, TypeOK
  <2>4. Chosen'
    BY <1>5, <2>1 DEF Launch, TypeOK, Chosen, ClientState
  <2> QED
    BY <1>5, <2>3, <2>4, ClaimFrame DEF Launch
<1>6. ASSUME NEW c \in Client, Leave(c)
      PROVE  IInv'
  <2>1. TypeOK' /\ Chosen'
    BY <1>6, IdleStates DEF Leave, TypeOK, Chosen, IdleClient
  <2> QED
    BY <1>6, <2>1, ClaimFrame DEF Leave
<1> QED
  BY <1>1, <1>2, <1>3, <1>4, <1>5, <1>6 DEF SelectNext

-----------------------------------------------------------------------------
(* Migrate. *)

(* Releasing a migrate's claim, whatever happens to the directories. *)
LEMMA MigrateReleaseKeepsClaimInv ==
    ASSUME TypeOK, ClaimInv, NEW m \in Migrator, mig[m].pc # "idle", MigrateRelease(m),
           UNCHANGED <<reserved, polling, replacing, worker, sup>>
    PROVE  ClaimInv'
<1>1. mig' = [mig EXCEPT ![m] = IdleMig] /\ mig'[m].pc = "idle"
  BY DEF MigrateRelease, TypeOK, IdleMig
<1>2. \A n \in Migrator : n # m => mig'[n] = mig[n]
  BY <1>1 DEF TypeOK
<1>3. converting' = converting \ {mig[m].acct}
  BY DEF MigrateRelease
<1> QED
  BY <1>1, <1>2, <1>3 DEF ClaimInv, OwnersHold, SupPlace, OwnersApart, ClaimsOwned,
     ReservedNotConverting, UnderReplace, Falling, ReplacePc, Worker

(* Moving on inside a migrate. *)
LEMMA MigrateGotoKeepsClaimInv ==
    ASSUME TypeOK, ClaimInv, NEW m \in Migrator, mig[m].pc # "idle",
           NEW pc \in MigPc \ {"idle"}, mig' = [mig EXCEPT ![m].pc = pc],
           UNCHANGED <<reserved, converting, polling, replacing, worker, sup>>
    PROVE  ClaimInv'
<1>1. mig'[m].pc = pc /\ mig'[m].acct = mig[m].acct
  BY MigGoto DEF TypeOK, MigState
<1>2. \A n \in Migrator : n # m => mig'[n] = mig[n]
  BY DEF TypeOK
<1> QED
  BY <1>1, <1>2 DEF ClaimInv, OwnersHold, SupPlace, OwnersApart, ClaimsOwned,
     ReservedNotConverting, UnderReplace

LEMMA MigrateKeepsIInv ==
    ASSUME IInv, MigrateNext
    PROVE  IInv'
<1> USE DEF IInv, dirVars, boundVars
<1>1. ASSUME NEW m \in Migrator, NEW a \in Account, NEW to \in Kind, NEW force \in BOOLEAN,
             MigrateClaim(m, a, to, force)
      PROVE  IInv'
  <2>1. [pc |-> "claimed", acct |-> a, to |-> to, force |-> force] \in MigState
    BY DEF MigState, MigPc
  <2>2. TypeOK' /\ Chosen'
    BY <1>1, <2>1 DEF MigrateClaim, TypeOK, Chosen
  <2>3. ClaimInv'
    BY <1>1 DEF MigrateClaim, BeginConvert, TypeOK, ClaimInv, OwnersHold, SupPlace, OwnersApart,
                ClaimsOwned, ReservedNotConverting, UnderReplace, Falling, ReplacePc, Worker
  <2> QED
    BY <2>2, <2>3
<1>2. ASSUME NEW m \in Migrator, MigrateGate(m)
      PROVE  IInv'
  <2>1. [mig[m] EXCEPT !.pc = "cleared"] \in MigState
    BY MigGoto DEF TypeOK, MigPc
  <2>2. TypeOK' /\ Chosen'
    BY <1>2, <2>1, IdleStates DEF MigrateGate, MigrateRelease, Fault, TypeOK, Chosen
  <2>3. ClaimInv'
    BY <1>2, MigrateReleaseKeepsClaimInv, MigrateGotoKeepsClaimInv DEF MigrateGate, MigPc
  <2> QED
    BY <2>2, <2>3
<1>3. ASSUME NEW m \in Migrator, MigrateMove(m)
      PROVE  IInv'
  <2>1. [mig[m] EXCEPT !.pc = "moved"] \in MigState
    BY MigGoto DEF TypeOK, MigPc
  <2>2. mirror' \in [Account -> MirrorState] /\ holder' \in {"up", "skewed", "down"}
    BY <1>3 DEF MigrateMove, EnsureRunning, TypeOK, MirrorState
  <2>3. TypeOK' /\ Chosen'
    BY <1>3, <2>1, <2>2, IdleStates DEF MigrateMove, MigrateRelease, Fault, TypeOK, Chosen
  <2>4. ClaimInv'
    BY <1>3, MigrateReleaseKeepsClaimInv, MigrateGotoKeepsClaimInv DEF MigrateMove, MigPc
  <2> QED
    BY <2>3, <2>4
<1>4. ASSUME NEW m \in Migrator, MigrateCommit(m)
      PROVE  IInv'
  <2>1. mig[m].acct \in Account /\ mig[m].to \in Kind
    BY <1>4 DEF MigrateCommit, TypeOK, ClaimInv, OwnersHold, MigState
  <2>2. /\ row' \in [Account -> Kind] /\ vouched' \subseteq Account
        /\ mirror' \in [Account -> MirrorState]
    BY <1>4, <2>1 DEF MigrateCommit, TypeOK, MirrorState
  <2>3. TypeOK' /\ Chosen'
    BY <1>4, <2>2, IdleStates DEF MigrateCommit, MigrateRelease, Fault, TypeOK, Chosen
  <2>4. ClaimInv'
    BY <1>4, MigrateReleaseKeepsClaimInv DEF MigrateCommit
  <2> QED
    BY <2>3, <2>4
<1> QED
  BY <1>1, <1>2, <1>3, <1>4 DEF MigrateNext, MigrateStep

-----------------------------------------------------------------------------
(* The work of a goroutine on one account. *)

(* endPoll outside a conversion. *)
LEMMA FinishKeepsClaimInv ==
    ASSUME TypeOK, ClaimInv, NEW w \in Worker,
           worker[w].pc # "idle", worker[w].pc \notin Falling, Finish(w),
           UNCHANGED <<reserved, converting, replacing, mig, sup>>
    PROVE  ClaimInv'
<1>1. worker'[w].pc = "idle" /\ \A v \in Worker : v # w => worker'[v] = worker[v]
  BY DEF Finish, TypeOK, IdleWorker
<1>2. polling' = IF UnderReplace(w) THEN polling ELSE polling \ {worker[w].acct}
  BY DEF Finish
<1> QED
  BY <1>1, <1>2 DEF ClaimInv, OwnersHold, SupPlace, OwnersApart, ClaimsOwned,
     ReservedNotConverting, UnderReplace, Falling, ReplacePc, Worker

(* endConvert, then endPoll: the return paths of fallbackToSymlink. *)
LEMMA FallbackReleaseKeepsClaimInv ==
    ASSUME TypeOK, ClaimInv, NEW w \in Worker, worker[w].pc \in Falling,
           FallbackRelease(w), Finish(w), UNCHANGED <<reserved, replacing, mig, sup>>
    PROVE  ClaimInv'
<1>1. worker'[w].pc = "idle" /\ \A v \in Worker : v # w => worker'[v] = worker[v]
  BY DEF Finish, TypeOK, IdleWorker
<1>2. ~UnderReplace(w)
  BY DEF ClaimInv, OwnersHold
<1>3. /\ polling' = polling \ {worker[w].acct}
      /\ converting' = converting \ {worker[w].acct}
  BY <1>2 DEF Finish, FallbackRelease
<1>4. /\ w = "loop" => (sup.pc \in ReplacePc => worker[w].acct \notin sup.ids)
      /\ w = "sup" => sup.pc \notin ReplacePc
  BY <1>2 DEF ClaimInv, SupPlace, OwnersApart, UnderReplace, Falling, ReplacePc
<1>5. OwnersHold' /\ SupPlace' /\ OwnersApart'
  BY <1>1, <1>2, <1>3, <1>4 DEF ClaimInv, OwnersHold, SupPlace, OwnersApart, UnderReplace,
     Falling, ReplacePc, Worker
<1>6. ClaimsOwned'
  BY <1>1, <1>2, <1>3 DEF ClaimInv, ClaimsOwned, UnderReplace, Falling, ReplacePc, Worker
<1> QED
  BY <1>3, <1>5, <1>6 DEF ClaimInv, ReservedNotConverting

(* Moving on, inside a conversion or outside one. *)
LEMMA WorkerGotoKeepsClaimInv ==
    ASSUME TypeOK, ClaimInv, NEW w \in Worker, worker[w].pc # "idle",
           NEW pc \in WorkerPc \ {"idle"}, pc \in Falling <=> worker[w].pc \in Falling,
           Goto(w, pc), UNCHANGED <<reserved, converting, replacing, mig, sup>>
    PROVE  ClaimInv'
<1>1. worker'[w].pc = pc /\ worker'[w].acct = worker[w].acct
  BY WorkerGoto DEF Goto, TypeOK, WorkerState
<1>2. \A v \in Worker : v # w => worker'[v] = worker[v]
  BY DEF Goto, TypeOK
<1>3. UNCHANGED polling
  BY DEF Goto
<1> QED
  BY <1>1, <1>2, <1>3 DEF ClaimInv, OwnersHold, SupPlace, OwnersApart, ClaimsOwned,
     ReservedNotConverting, UnderReplace, Falling, Worker

(* Whoever works on an account works on a real one, and stays well typed. *)
LEMMA WorkerTyped ==
    ASSUME TypeOK, ClaimInv, NEW w \in Worker, worker[w].pc # "idle"
    PROVE  /\ worker[w].acct \in Account
           /\ Finish(w) => worker' \in [Worker -> WorkerState] /\ polling' \subseteq Account
           /\ \A pc \in WorkerPc : Goto(w, pc) =>
                  worker' \in [Worker -> WorkerState] /\ polling' \subseteq Account
<1>1. worker[w].acct \in Account
  BY DEF TypeOK, ClaimInv, OwnersHold, SupPlace, UnderReplace, SupState
<1>2. Finish(w) => worker' \in [Worker -> WorkerState] /\ polling' \subseteq Account
  BY IdleStates DEF Finish, TypeOK
<1>3. ASSUME NEW pc \in WorkerPc, Goto(w, pc)
      PROVE  worker' \in [Worker -> WorkerState] /\ polling' \subseteq Account
  <2>1. [worker[w] EXCEPT !.pc = pc] \in WorkerState
    BY WorkerGoto DEF TypeOK
  <2> QED
    BY <1>3, <2>1 DEF Goto, TypeOK
<1> QED
  BY <1>1, <1>2, <1>3

LEMMA HealKeepsIInv ==
    ASSUME IInv, NEW w \in Worker, HealStep(w)
    PROVE  IInv'
<1> USE DEF IInv, dirVars, boundVars
<1>1. CASE HealClear(w)
  <2>1. worker[w].pc # "idle" /\ worker[w].pc \notin Falling
    BY <1>1 DEF HealClear, Falling
  <2>2. mirror' \in [Account -> MirrorState] /\ holder' \in {"up", "skewed", "down"}
    BY <1>1 DEF HealClear, EnsureRunning, TypeOK, MirrorState
  <2>3. TypeOK' /\ Chosen'
    BY <1>1, <2>1, <2>2, WorkerTyped DEF HealClear, Fault, TypeOK, Chosen, WorkerPc
  <2>4. ClaimInv'
    BY <1>1, <2>1, FinishKeepsClaimInv, WorkerGotoKeepsClaimInv
    DEF HealClear, WorkerPc, Falling
  <2> QED
    BY <2>3, <2>4
<1>2. CASE HealMount(w)
  <2>1. worker[w].pc # "idle" /\ worker[w].pc \notin Falling
    BY <1>2 DEF HealMount, Falling
  <2>2. worker[w].acct \in Account
    BY <2>1, WorkerTyped
  <2>3. /\ mirror' \in [Account -> MirrorState] /\ holder' \in {"up", "skewed", "down"}
        /\ vouched' \subseteq Account
    BY <1>2, <2>2 DEF HealMount, EnsureRunning, TypeOK, MirrorState
  <2>4. TypeOK' /\ Chosen'
    BY <1>2, <2>1, <2>3, WorkerTyped DEF HealMount, ReadsDead, Fault, TypeOK, Chosen, WorkerPc
  <2>5. ClaimInv'
    BY <1>2, <2>1, FinishKeepsClaimInv, WorkerGotoKeepsClaimInv
    DEF HealMount, WorkerPc, Falling
  <2> QED
    BY <2>4, <2>5
<1>3. CASE FallbackClaim(w)
  <2>1. worker[w].pc # "idle" /\ worker[w].pc \notin Falling
    BY <1>3 DEF FallbackClaim, Falling
  <2>2. TypeOK' /\ Chosen'
    BY <1>3, <2>1, WorkerTyped DEF FallbackClaim, TypeOK, Chosen, WorkerPc
  <2>3. CASE BeginConvertUnderPoll(worker[w].acct)
    <3>1. /\ Goto(w, "gate") /\ converting' = converting \cup {worker[w].acct}
          /\ UNCHANGED <<reserved, replacing, mig, sup>>
      BY <1>3, <2>3 DEF FallbackClaim
    <3>2. /\ worker'[w].pc = "gate" /\ worker'[w].acct = worker[w].acct
          /\ \A v \in Worker : v # w => worker'[v] = worker[v]
          /\ UNCHANGED polling
      BY <3>1, WorkerGoto DEF Goto, TypeOK, WorkerPc
    <3>3. ~replacing /\ worker[w].acct \notin reserved
      BY <2>3 DEF BeginConvertUnderPoll
    <3>4. sup.pc \notin ReplacePc
      BY <3>3 DEF ClaimInv, OwnersHold
    <3>5. OwnersHold' /\ SupPlace' /\ OwnersApart'
      BY <2>1, <3>1, <3>2, <3>4 DEF ClaimInv, OwnersHold, SupPlace, OwnersApart, UnderReplace,
         Falling, ReplacePc, Worker
    <3>6. ClaimsOwned'
      BY <2>1, <3>1, <3>2, <3>4 DEF ClaimInv, ClaimsOwned, UnderReplace, Falling
    <3>7. ReservedNotConverting'
      BY <3>1, <3>3 DEF ClaimInv, ReservedNotConverting
    <3> QED
      BY <2>2, <3>5, <3>6, <3>7 DEF ClaimInv
  <2>4. CASE ~BeginConvertUnderPoll(worker[w].acct)
    <3>1. Finish(w) /\ UNCHANGED <<reserved, converting, replacing, mig, sup>>
      BY <1>3, <2>4 DEF FallbackClaim
    <3> QED
      BY <2>1, <2>2, <3>1, FinishKeepsClaimInv
  <2> QED
    BY <2>3, <2>4
<1>4. CASE FallbackGate(w)
  <2>1. worker[w].pc # "idle" /\ worker[w].pc \in Falling
    BY <1>4 DEF FallbackGate, Falling
  <2>2. TypeOK' /\ Chosen'
    BY <1>4, <2>1, WorkerTyped
    DEF FallbackGate, FallbackRelease, Fault, TypeOK, Chosen, WorkerPc
  <2>3. ClaimInv'
    BY <1>4, <2>1, FallbackReleaseKeepsClaimInv, WorkerGotoKeepsClaimInv
    DEF FallbackGate, WorkerPc, Falling
  <2> QED
    BY <2>2, <2>3
<1>5. CASE FallbackUnmount(w)
  <2>1. worker[w].pc # "idle" /\ worker[w].pc \in Falling
    BY <1>5 DEF FallbackUnmount, Falling
  <2>2. mirror' \in [Account -> MirrorState] /\ holder' \in {"up", "skewed", "down"}
    BY <1>5 DEF FallbackUnmount, EnsureRunning, TypeOK, MirrorState
  <2>3. TypeOK' /\ Chosen'
    BY <1>5, <2>1, <2>2, WorkerTyped
    DEF FallbackUnmount, FallbackRelease, Fault, TypeOK, Chosen, WorkerPc
  <2>4. ClaimInv'
    BY <1>5, <2>1, FallbackReleaseKeepsClaimInv, WorkerGotoKeepsClaimInv
    DEF FallbackUnmount, WorkerPc, Falling
  <2> QED
    BY <2>3, <2>4
<1>6. CASE FallbackCommit(w)
  <2>1. worker[w].pc # "idle" /\ worker[w].pc \in Falling
    BY <1>6 DEF FallbackCommit, Falling
  <2>2. row' \in [Account -> Kind] /\ vouched' \subseteq Account
    BY <1>6 DEF FallbackCommit, TypeOK, Kind
  <2>3. TypeOK' /\ Chosen'
    BY <1>6, <2>1, <2>2, WorkerTyped
    DEF FallbackCommit, FallbackRelease, Fault, TypeOK, Chosen
  <2>4. ClaimInv'
    BY <1>6, <2>1, FallbackReleaseKeepsClaimInv DEF FallbackCommit
  <2> QED
    BY <2>3, <2>4
<1>7. CASE HealProbe(w)
  <2>1. worker[w].pc # "idle" /\ worker[w].pc \notin Falling
    BY <1>7 DEF HealProbe, Falling
  <2>2. TypeOK' /\ Chosen'
    BY <1>7, <2>1, WorkerTyped DEF HealProbe, ReadsDead, Fault, TypeOK, Chosen, WorkerPc
  <2>3. ClaimInv'
    BY <1>7, <2>1, WorkerGotoKeepsClaimInv DEF HealProbe, WorkerPc, Falling
  <2> QED
    BY <2>2, <2>3
<1> QED
  BY <1>1, <1>2, <1>3, <1>4, <1>5, <1>6, <1>7 DEF HealStep

-----------------------------------------------------------------------------
(* The loop goroutine. *)

(* A poll claim taken on an account nobody has. *)
LEMMA PollClaimKeepsClaimInv ==
    ASSUME TypeOK, ClaimInv, NEW w \in Worker, NEW a \in Account, NEW k \in Kind,
           worker[w].pc = "idle", w = "sup" => sup.pc = "rows", BeginPoll(a),
           polling' = polling \cup {a},
           worker' = [worker EXCEPT ![w] = [pc |-> "claimed", acct |-> a, kind |-> k]],
           sup'.pc = sup.pc, sup'.ids = sup.ids,
           sup.pc = "remount" => sup' = sup,
           UNCHANGED <<reserved, converting, replacing, mig>>
    PROVE  ClaimInv'
<1>1. /\ worker'[w].pc = "claimed" /\ worker'[w].acct = a
      /\ \A v \in Worker : v # w => worker'[v] = worker[v]
  BY DEF TypeOK
<1>2. a \notin converting /\ a \notin polling
  BY DEF BeginPoll
<1>3. sup.pc \in ReplacePc => w # "sup" /\ a \notin sup.ids
  BY <1>2 DEF ClaimInv, OwnersHold, ReplacePc
<1>4. OwnersHold' /\ SupPlace'
  BY <1>1, <1>3 DEF ClaimInv, OwnersHold, SupPlace, UnderReplace, Falling, Worker
<1>5. OwnersApart'
  <2>1. \A v \in Worker : v # w /\ worker[v].pc # "idle" => worker[v].acct # a
    BY <1>2 DEF ClaimInv, OwnersHold, SupPlace, UnderReplace, ReplacePc, Worker
  <2> QED
    BY <1>1, <1>2, <1>3, <2>1 DEF ClaimInv, OwnersHold, OwnersApart, Worker
<1>6. ClaimsOwned'
  BY <1>1, <1>3 DEF ClaimInv, ClaimsOwned, UnderReplace, Falling, ReplacePc
<1> QED
  BY <1>4, <1>5, <1>6 DEF ClaimInv, ReservedNotConverting

LEMMA LoopKeepsIInv ==
    ASSUME IInv, LoopStep
    PROVE  IInv'
<1> USE DEF IInv, dirVars, boundVars, claimVars
<1>1. CASE LoopList
  <2>1. [loop EXCEPT !.walking = TRUE, !.rows = row, !.todo = Account] \in LoopState
    BY DEF TypeOK, LoopState
  <2>2. TypeOK' /\ Chosen'
    BY <1>1, <2>1 DEF LoopList, Served, TypeOK, Chosen
  <2> QED
    BY <1>1, <2>2, ClaimFrame DEF LoopList
<1>2. ASSUME NEW a \in Account, LoopClaim(a)
      PROVE  IInv'
  <2>1. [loop EXCEPT !.todo = @ \ {a}] \in LoopState /\ loop.rows[a] \in Kind
    BY DEF TypeOK, LoopState
  <2>2. [pc |-> "claimed", acct |-> a, kind |-> loop.rows[a]] \in WorkerState
    BY <2>1 DEF WorkerState, WorkerPc
  <2>3. TypeOK' /\ Chosen'
    BY <1>2, <2>1, <2>2 DEF LoopClaim, TypeOK, Chosen
  <2>4. CASE BeginPoll(a)
    BY <1>2, <2>1, <2>3, <2>4, PollClaimKeepsClaimInv DEF LoopClaim, Worker
  <2>5. CASE ~BeginPoll(a)
    BY <1>2, <2>3, <2>5, ClaimFrame DEF LoopClaim
  <2> QED
    BY <2>4, <2>5
<1>3. CASE Reconcile
  <2>1. "loop" \in Worker /\ worker["loop"].pc # "idle" /\ worker["loop"].pc \notin Falling
    BY <1>3 DEF Reconcile, Falling, Worker
  <2>2. worker["loop"].acct \in Account
    BY <2>1, WorkerTyped
  <2>3. /\ mirror' \in [Account -> MirrorState] /\ holder' \in {"up", "skewed", "down"}
        /\ vouched' \subseteq Account
    BY <1>3, <2>2 DEF Reconcile, EnsureRunning, TypeOK, MirrorState
  <2>4. TypeOK' /\ Chosen'
    BY <1>3, <2>1, <2>3, WorkerTyped DEF Reconcile, ReadsDead, HealFrom, Fault, TypeOK, Chosen, WorkerPc
  <2>5. ClaimInv'
    BY <1>3, <2>1, FinishKeepsClaimInv, WorkerGotoKeepsClaimInv
    DEF Reconcile, HealFrom, WorkerPc, Falling
  <2> QED
    BY <2>4, <2>5
<1>4. CASE Poll
  <2>1. "loop" \in Worker /\ worker["loop"].pc # "idle" /\ worker["loop"].pc \notin Falling
    BY <1>4 DEF Poll, Falling, Worker
  <2>2. TypeOK' /\ Chosen'
    BY <1>4, <2>1, WorkerTyped
    DEF Poll, PollUnhealthy, ReadsDead, HealFrom, Fault, TypeOK, Chosen, WorkerPc
  <2>3. ClaimInv'
    BY <1>4, <2>1, FinishKeepsClaimInv, WorkerGotoKeepsClaimInv
    DEF Poll, HealFrom, WorkerPc, Falling
  <2> QED
    BY <2>2, <2>3
<1>5. CASE LoopDone
  <2>1. [phase |-> "poll", walking |-> FALSE, rows |-> NoRows, todo |-> {}] \in LoopState
    BY DEF LoopState, NoRows, Kind
  <2>2. TypeOK' /\ Chosen'
    BY <1>5, <2>1 DEF LoopDone, TypeOK, Chosen
  <2> QED
    BY <1>5, <2>2, ClaimFrame DEF LoopDone
<1>6. CASE HealStep("loop")
  BY <1>6, HealKeepsIInv DEF Worker
<1> QED
  BY <1>1, <1>2, <1>3, <1>4, <1>5, <1>6 DEF LoopStep

-----------------------------------------------------------------------------
(* The supervisor. *)

(* Moving on while no account is visited. *)
LEMMA SupGotoKeepsClaimInv ==
    ASSUME ClaimInv, worker["sup"].pc = "idle",
           sup'.pc \in ReplacePc <=> sup.pc \in ReplacePc,
           sup.pc \in ReplacePc => sup'.ids = sup.ids,
           sup'.pc = "remount" => sup'.todo \subseteq sup'.ids,
           UNCHANGED <<claimVars, mig, worker>>
    PROVE  ClaimInv'
BY DEF claimVars, ClaimInv, OwnersHold, SupPlace, OwnersApart, ClaimsOwned,
   ReservedNotConverting, UnderReplace, Falling, ReplacePc, Worker

(* endReplace. *)
LEMMA ReplaceReleaseKeepsClaimInv ==
    ASSUME TypeOK, ClaimInv, worker["sup"].pc = "idle", sup.pc \in ReplacePc, ReplaceRelease,
           UNCHANGED <<reserved, polling, mig, worker>>
    PROVE  ClaimInv'
<1>1. /\ converting' = converting \ sup.ids /\ ~replacing' /\ sup'.pc = "idle"
      /\ replacing' \in BOOLEAN
  BY DEF ReplaceRelease, IdleSup
<1>2. \A w \in Worker : worker[w].pc # "idle" =>
          w = "loop" /\ worker[w].acct \notin sup.ids
  BY DEF ClaimInv, OwnersApart, Worker
<1>3. OwnersHold' /\ SupPlace' /\ OwnersApart'
  BY <1>1, <1>2 DEF ClaimInv, OwnersHold, SupPlace, OwnersApart, UnderReplace, Falling,
     ReplacePc, Worker
<1>4. ClaimsOwned'
  BY <1>1, <1>2 DEF ClaimInv, ClaimsOwned, UnderReplace, Falling, ReplacePc
<1> QED
  BY <1>1, <1>3, <1>4 DEF ClaimInv, ReservedNotConverting

LEMMA ReplaceReleaseTyped ==
    ASSUME TypeOK, ReplaceRelease
    PROVE  converting' \subseteq Account /\ replacing' \in BOOLEAN /\ sup' \in SupState
BY IdleStates DEF TypeOK, ReplaceRelease

(* No account is visited except in a pass over rows or in the remount. *)
LEMMA SupIdle ==
    ASSUME ClaimInv, sup.pc \notin {"rows", "remount"}
    PROVE  worker["sup"].pc = "idle"
BY DEF ClaimInv, SupPlace

LEMMA ReplaceKeepsIInv ==
    ASSUME IInv, ReplaceStep
    PROVE  IInv'
<1> USE DEF IInv, dirVars, boundVars
<1>1. CASE ReplaceClaim
  <2>1. [sup EXCEPT !.pc = "gate"] \in SupState /\ sup.ids \subseteq Account
    BY SupGoto DEF TypeOK, SupPc, ReplacePc, SupState
  <2>2. TypeOK' /\ Chosen'
    BY <1>1, <2>1, IdleStates DEF ReplaceClaim, TypeOK, Chosen
  <2>3. sup.pc = "listed" /\ worker["sup"].pc = "idle"
    BY <1>1, SupIdle DEF ReplaceClaim
  <2>4. CASE BeginReplace(sup.ids)
    <3>0. sup' = [sup EXCEPT !.pc = "gate"]
      BY <1>1, <2>4 DEF ReplaceClaim
    <3>1. /\ converting = {} /\ converting' = sup.ids /\ replacing' = TRUE
          /\ sup'.pc = "gate" /\ sup'.ids = sup.ids
          /\ UNCHANGED <<reserved, polling, mig, worker>>
      BY <1>1, <2>4, <3>0 DEF ReplaceClaim, BeginReplace, TypeOK, SupState
    <3>2. sup.ids \cap reserved = {} /\ sup.ids \cap polling = {}
      BY <2>4 DEF BeginReplace
    <3>3. /\ \A m \in Migrator : mig[m].pc = "idle"
          /\ \A w \in Worker : worker[w].pc \notin Falling
      BY <3>1 DEF ClaimInv, OwnersHold
    <3>4. worker["loop"].pc # "idle" => worker["loop"].acct \in polling
      BY DEF ClaimInv, OwnersHold, UnderReplace, Worker
    <3>5. OwnersHold' /\ SupPlace' /\ OwnersApart'
      BY <2>3, <3>1, <3>2, <3>3, <3>4 DEF ClaimInv, OwnersHold, SupPlace, OwnersApart,
         UnderReplace, Falling, ReplacePc, Worker
    <3>6. ClaimsOwned'
      BY <2>3, <3>1, <3>3 DEF ClaimInv, ClaimsOwned, UnderReplace, Falling, ReplacePc
    <3> QED
      BY <2>2, <3>1, <3>2, <3>5, <3>6 DEF ClaimInv, ReservedNotConverting
  <2>5. CASE ~BeginReplace(sup.ids)
    <3>1. sup'.pc = "idle" /\ UNCHANGED <<claimVars, mig, worker>>
      BY <1>1, <2>5 DEF ReplaceClaim, IdleSup, claimVars
    <3> QED
      BY <2>2, <2>3, <3>1, SupGotoKeepsClaimInv DEF ReplacePc
  <2> QED
    BY <2>4, <2>5
<1>2. CASE ReplaceGate
  <2>1. [sup EXCEPT !.pc = "shutdown"] \in SupState /\ sup.ids \subseteq Account
    BY SupGoto DEF TypeOK, SupPc, ReplacePc, SupState
  <2>2. TypeOK' /\ Chosen'
    <3>1. /\ converting' \subseteq Account /\ replacing' \in BOOLEAN
          /\ sup' \in SupState /\ faults' \in Nat
      BY <1>2, <2>1, ReplaceReleaseTyped DEF ReplaceGate, Fault, TypeOK
    <3> QED
      BY <1>2, <2>1, <3>1 DEF ReplaceGate, TypeOK, Chosen
  <2>3. sup.pc = "gate" /\ worker["sup"].pc = "idle"
    BY <1>2, SupIdle DEF ReplaceGate
  <2>4. CASE ReplaceRelease
    BY <1>2, <2>2, <2>3, <2>4, ReplaceReleaseKeepsClaimInv DEF ReplaceGate, ReplacePc
  <2>5. CASE sup' = [sup EXCEPT !.pc = "shutdown"] /\ UNCHANGED <<converting, replacing>>
    BY <1>2, <2>2, <2>3, <2>5, SupGotoKeepsClaimInv
    DEF ReplaceGate, ReplacePc, claimVars, TypeOK, SupState
  <2> QED
    BY <1>2, <2>4, <2>5 DEF ReplaceGate
<1>3. CASE ReplaceShutdown
  <2>1. [sup EXCEPT !.pc = "spawn"] \in SupState /\ sup.ids \subseteq Account
    BY SupGoto DEF TypeOK, SupPc, ReplacePc, SupState
  <2>2. mirror' \in [Account -> MirrorState] /\ holder' \in {"up", "skewed", "down"}
    BY <1>3 DEF ReplaceShutdown, Swept, TypeOK, MirrorState
  <2>3. TypeOK' /\ Chosen'
    <3>1. /\ converting' \subseteq Account /\ replacing' \in BOOLEAN
          /\ sup' \in SupState /\ faults' \in Nat
      BY <1>3, <2>1, ReplaceReleaseTyped DEF ReplaceShutdown, Fault, TypeOK
    <3> QED
      BY <1>3, <2>1, <2>2, <3>1 DEF ReplaceShutdown, TypeOK, Chosen
  <2>4. sup.pc = "shutdown" /\ worker["sup"].pc = "idle"
    BY <1>3, SupIdle DEF ReplaceShutdown
  <2>5. CASE ReplaceRelease
    BY <1>3, <2>3, <2>4, <2>5, ReplaceReleaseKeepsClaimInv DEF ReplaceShutdown, ReplacePc
  <2>6. CASE sup' = [sup EXCEPT !.pc = "spawn"] /\ UNCHANGED <<converting, replacing>>
    BY <1>3, <2>3, <2>4, <2>6, SupGotoKeepsClaimInv
    DEF ReplaceShutdown, ReplacePc, claimVars, TypeOK, SupState
  <2> QED
    BY <1>3, <2>5, <2>6 DEF ReplaceShutdown
<1>4. CASE ReplaceSpawn
  <2>1. [sup EXCEPT !.pc = "remount", !.todo = sup.ids] \in SupState /\ sup.ids \subseteq Account
    BY SupGoto DEF TypeOK, SupPc, ReplacePc, SupState
  <2>2. vouched' \subseteq Account /\ holder' \in {"up", "skewed", "down"}
    BY <1>4 DEF ReplaceSpawn, EnsureRunning, TypeOK
  <2>3. TypeOK' /\ Chosen'
    <3>1. /\ converting' \subseteq Account /\ replacing' \in BOOLEAN
          /\ sup' \in SupState /\ faults' \in Nat
      BY <1>4, <2>1, ReplaceReleaseTyped DEF ReplaceSpawn, Fault, TypeOK
    <3> QED
      BY <1>4, <2>1, <2>2, <3>1 DEF ReplaceSpawn, TypeOK, Chosen
  <2>4. sup.pc = "spawn" /\ worker["sup"].pc = "idle"
    BY <1>4, SupIdle DEF ReplaceSpawn
  <2>5. CASE ReplaceRelease
    BY <1>4, <2>3, <2>4, <2>5, ReplaceReleaseKeepsClaimInv DEF ReplaceSpawn, ReplacePc
  <2>6. CASE /\ sup' = [sup EXCEPT !.pc = "remount", !.todo = sup.ids]
             /\ UNCHANGED <<converting, replacing>>
    <3>1. sup'.pc = "remount" /\ sup'.ids = sup.ids
      BY <2>6 DEF TypeOK, SupState
    <3> QED
      BY <1>4, <2>3, <2>4, <2>6, <3>1, SupGotoKeepsClaimInv
      DEF ReplaceSpawn, ReplacePc, claimVars
  <2> QED
    BY <1>4, <2>5, <2>6 DEF ReplaceSpawn
<1>5. CASE ReplaceEnd
  <2>1. TypeOK' /\ Chosen'
    BY <1>5, IdleStates DEF ReplaceEnd, ReplaceRelease, TypeOK, Chosen
  <2> QED
    BY <1>5, <2>1, ReplaceReleaseKeepsClaimInv DEF ReplaceEnd, ReplacePc
<1>6. ASSUME NEW a \in Account, ReplaceRemount(a)
      PROVE  IInv'
  <2>1. [sup EXCEPT !.todo = @ \ {a}] \in SupState
    BY DEF TypeOK, SupState
  <2>2. [pc |-> "heal", acct |-> a, kind |-> "fuse"] \in WorkerState
    BY DEF WorkerState, WorkerPc, Kind
  <2>3. /\ sup.pc = "remount" /\ worker["sup"].pc = "idle" /\ a \in sup.ids
        /\ sup' = [sup EXCEPT !.todo = @ \ {a}]
    BY <1>6 DEF ReplaceRemount, ClaimInv, SupPlace
  <2>4. /\ sup'.pc = "remount" /\ sup'.ids = sup.ids /\ sup'.todo \subseteq sup.ids
        /\ UNCHANGED <<reserved, converting, polling, replacing, mig>>
    BY <1>6, <2>3 DEF ReplaceRemount, ClaimInv, SupPlace, TypeOK, SupState, claimVars
  <2>5. CASE a \in vouched
    <3>1. UNCHANGED worker
      BY <1>6, <2>5 DEF ReplaceRemount
    <3>2. TypeOK' /\ Chosen'
      BY <1>6, <2>1, <2>3, <3>1 DEF ReplaceRemount, TypeOK, Chosen, claimVars
    <3> QED
      BY <2>3, <2>4, <3>1, <3>2, SupGotoKeepsClaimInv DEF claimVars
  <2>6. CASE a \notin vouched
    <3>1. worker' = [worker EXCEPT !["sup"] = [pc |-> "heal", acct |-> a, kind |-> "fuse"]]
      BY <1>6, <2>6 DEF ReplaceRemount
    <3>2. TypeOK' /\ Chosen'
      BY <1>6, <2>1, <2>2, <2>3, <3>1 DEF ReplaceRemount, TypeOK, Chosen, claimVars
    <3>3. /\ worker'["sup"].pc = "heal" /\ worker'["sup"].acct = a
          /\ worker'["loop"] = worker["loop"]
      BY <3>1 DEF TypeOK, Worker
    <3>4. OwnersHold' /\ SupPlace'
      BY <2>3, <2>4, <3>3 DEF ClaimInv, OwnersHold, SupPlace, UnderReplace, Falling,
         ReplacePc, Worker
    <3>5. OwnersApart'
      BY <2>3, <2>4, <3>3 DEF ClaimInv, OwnersApart, ReplacePc, Worker
    <3>6. ClaimsOwned'
      BY <2>3, <2>4, <3>3 DEF ClaimInv, ClaimsOwned, UnderReplace, Falling, ReplacePc, Worker
    <3> QED
      BY <2>4, <3>2, <3>4, <3>5, <3>6 DEF ClaimInv, ReservedNotConverting
  <2> QED
    BY <2>5, <2>6
<1> QED
  BY <1>1, <1>2, <1>3, <1>4, <1>5, <1>6 DEF ReplaceStep

LEMMA SupKeepsIInv ==
    ASSUME IInv, SupStep
    PROVE  IInv'
<1> USE DEF IInv, dirVars, boundVars
<1>1. CASE SupTick
  <2>1. sup.pc = "idle" /\ worker["sup"].pc = "idle"
    BY <1>1, SupIdle DEF SupTick
  <2>2. FuseRows \subseteq Account /\ Served \subseteq Account
    BY DEF FuseRows, Served
  <2>3. /\ sup' \in SupState
        /\ sup'.pc \in {"idle", "rows", "listed"}
    <3>1. CASE sup' = sup
      BY <2>1, <3>1 DEF TypeOK
    <3>2. ASSUME NEW S \in SUBSET Account, sup' = [sup EXCEPT !.pc = "rows", !.todo = S]
          PROVE  sup' \in SupState /\ sup'.pc \in {"idle", "rows", "listed"}
      BY <3>2, SupGoto DEF TypeOK, SupPc, SupState
    <3>3. CASE sup' = [sup EXCEPT !.pc = "listed", !.ids = FuseRows]
      BY <2>2, <3>3, SupGoto DEF TypeOK, SupPc, SupState
    <3> QED
      BY <1>1, <2>2, <3>1, <3>2, <3>3 DEF SupTick
  <2>4. holder' \in {"up", "skewed", "down"} /\ vouched' \subseteq Account /\ faults' \in Nat
    <3>1. faults' \in Nat
      <4>1. Fault \/ UNCHANGED faults
        BY <1>1 DEF SupTick
      <4> QED
        BY <4>1 DEF Fault, TypeOK
    <3>2. holder' \in {"up", "skewed", "down"}
      BY <1>1 DEF SupTick, TypeOK
    <3> QED
      BY <1>1, <2>2, <3>1, <3>2 DEF SupTick
  <2>5. TypeOK' /\ Chosen'
    BY <1>1, <2>3, <2>4 DEF SupTick, TypeOK, Chosen, claimVars
  <2> QED
    BY <1>1, <2>1, <2>3, <2>5, SupGotoKeepsClaimInv DEF SupTick, ReplacePc
<1>2. ASSUME NEW a \in Account, SupClaim(a)
      PROVE  IInv'
  <2>1. [sup EXCEPT !.todo = @ \ {a}] \in SupState
    BY DEF TypeOK, SupState
  <2>2. [pc |-> "claimed", acct |-> a, kind |-> "fuse"] \in WorkerState
    BY DEF WorkerState, WorkerPc, Kind
  <2>3. TypeOK' /\ Chosen'
    BY <1>2, <2>1, <2>2 DEF SupClaim, TypeOK, Chosen
  <2>4. sup.pc = "rows" /\ sup'.pc = "rows" /\ sup'.ids = sup.ids /\ worker["sup"].pc = "idle"
    BY <1>2 DEF SupClaim, TypeOK, SupState
  <2>5. CASE a \notin vouched /\ BeginPoll(a)
    BY <1>2, <2>3, <2>4, <2>5, PollClaimKeepsClaimInv DEF SupClaim, Worker, Kind
  <2>6. CASE ~(a \notin vouched /\ BeginPoll(a))
    BY <1>2, <2>3, <2>4, <2>6, SupGotoKeepsClaimInv DEF SupClaim, claimVars, ReplacePc
  <2> QED
    BY <2>5, <2>6
<1>3. CASE SupReread
  <2>1. "sup" \in Worker /\ worker["sup"].pc # "idle" /\ worker["sup"].pc \notin Falling
    BY <1>3 DEF SupReread, Falling, Worker
  <2>2. TypeOK' /\ Chosen'
    BY <1>3, <2>1, WorkerTyped DEF SupReread, TypeOK, Chosen, WorkerPc
  <2>3. ClaimInv'
    BY <1>3, <2>1, FinishKeepsClaimInv, WorkerGotoKeepsClaimInv
    DEF SupReread, WorkerPc, Falling
  <2> QED
    BY <2>2, <2>3
<1>4. CASE SupDone
  <2>1. TypeOK' /\ Chosen'
    BY <1>4, IdleStates DEF SupDone, TypeOK, Chosen, claimVars
  <2> QED
    BY <1>4, <2>1, SupGotoKeepsClaimInv DEF SupDone, IdleSup, ReplacePc
<1>5. CASE HealStep("sup")
  BY <1>5, HealKeepsIInv DEF Worker
<1>6. CASE ReplaceStep
  BY <1>6, ReplaceKeepsIInv
<1> QED
  BY <1>1, <1>2, <1>3, <1>4, <1>5, <1>6 DEF SupStep

-----------------------------------------------------------------------------
(* The world outside. *)

(* What a restart does to the claudes and those about to be launched. *)
LEMMA RestartClients ==
    ASSUME TypeOK, Restart, NEW c \in Client
    PROVE  /\ client'[c] \in ClientState
           /\ \/ client'[c] = IdleClient
              \/ /\ client'[c].pc = client[c].pc /\ client'[c].acct = client[c].acct
                 /\ client'[c].pc = "session" \/ client'[c].known = "no"
<1>1. client[c] \in ClientState
  BY DEF TypeOK
<1>2. CASE client[c].pc \in {"listed", "ready"}
  BY <1>2, IdleStates DEF Restart
<1>3. CASE client[c].pc = "session"
  <2>1. client'[c] = [client[c] EXCEPT !.known = "yes"]
    BY <1>3 DEF Restart
  <2> QED
    BY <1>1, <1>3, <2>1 DEF ClientState
<1>4. CASE client[c].pc \notin {"listed", "ready", "session"}
  <2>1. client'[c] = [client[c] EXCEPT !.known = "no"]
    BY <1>4 DEF Restart
  <2> QED
    BY <1>1, <2>1 DEF ClientState
<1> QED
  BY <1>2, <1>3, <1>4

LEMMA EnvKeepsIInv ==
    ASSUME IInv, EnvNext
    PROVE  IInv'
<1> USE DEF IInv, claimVars, dirVars, actorVars, boundVars
<1>1. CASE HolderDies
  <2>1. TypeOK' /\ Chosen'
    BY <1>1 DEF HolderDies, Fault, TypeOK, Chosen, MirrorState
  <2> QED
    BY <1>1, <2>1, ClaimFrame DEF HolderDies
<1>2. CASE Mature
  <2>1. TypeOK' /\ Chosen'
    BY <1>2 DEF Mature, TypeOK, Chosen
  <2> QED
    BY <1>2, <2>1, ClaimFrame DEF Mature
<1>3. ASSUME NEW a \in Account, Expire(a)
      PROVE  IInv'
  <2>1. TypeOK' /\ Chosen'
    BY <1>3 DEF Expire, TypeOK, Chosen
  <2>2. ClaimInv'
    BY <1>3 DEF Expire, ClaimInv, OwnersHold, SupPlace, OwnersApart, ClaimsOwned,
                ReservedNotConverting, UnderReplace
  <2> QED
    BY <2>1, <2>2
<1>4. CASE Restart
  <2>1. client' \in [Client -> ClientState] /\ Chosen'
    <3>1. DOMAIN client' = Client /\ client' = [c \in Client |-> client'[c]]
      BY <1>4 DEF Restart
    <3> QED
      BY <1>4, <3>1, RestartClients DEF Chosen, IdleClient
  <2>2. [phase |-> "reconcile", walking |-> FALSE, rows |-> NoRows, todo |-> {}] \in LoopState
    BY DEF LoopState, NoRows, Kind
  <2>3. TypeOK'
    <3>1. mig' \in [Migrator -> MigState] /\ worker' \in [Worker -> WorkerState]
      BY <1>4, IdleStates DEF Restart
    <3>2. /\ reserved' = {} /\ converting' = {} /\ polling' = {} /\ vouched' = {}
          /\ replacing' \in BOOLEAN /\ young' \in BOOLEAN
          /\ loop' \in LoopState /\ sup' \in SupState
      BY <1>4, <2>2, IdleStates DEF Restart
    <3>3. restarts' \in Nat
      BY <1>4 DEF Restart, TypeOK
    <3> QED
      BY <1>4, <2>1, <3>1, <3>2, <3>3 DEF Restart, TypeOK
  <2>4. /\ \A m \in Migrator : mig'[m].pc = "idle"
        /\ \A w \in Worker : worker'[w].pc = "idle"
        /\ sup'.pc = "idle" /\ converting' = {} /\ polling' = {} /\ ~replacing'
    BY <1>4 DEF Restart, IdleMig, IdleWorker, IdleSup
  <2>5. ClaimInv'
    BY <2>3, <2>4 DEF TypeOK, ClaimInv, OwnersHold, SupPlace, OwnersApart, ClaimsOwned,
       ReservedNotConverting, UnderReplace, Falling, ReplacePc, Worker
  <2> QED
    BY <2>1, <2>3, <2>5
<1> QED
  BY <1>1, <1>2, <1>3, <1>4 DEF EnvNext

-----------------------------------------------------------------------------
(* The inductive invariant and what it gives. *)

(* The claim table is consistent with the actors in every reachable state:  *)
(* the inductive invariant behind the theorems below.                      *)
THEOREM Claims == Spec => []IInv
<1>1. Init => IInv
  BY InitIInv
<1>2. IInv /\ [Next]_vars => IInv'
  <2> SUFFICES ASSUME IInv, [Next]_vars PROVE IInv'
    OBVIOUS
  <2>1. CASE Next
    BY <2>1, SelectKeepsIInv, MigrateKeepsIInv, LoopKeepsIInv, SupKeepsIInv, EnvKeepsIInv
    DEF Next
  <2>2. CASE UNCHANGED vars
    <3>1. UNCHANGED <<claimVars, mig, worker, sup>> /\ UNCHANGED client
      BY <2>2 DEF vars, actorVars
    <3>2. TypeOK' /\ Chosen'
      BY <2>2 DEF vars, claimVars, dirVars, actorVars, boundVars, IInv, TypeOK, Chosen
    <3> QED
      BY <3>1, <3>2, ClaimFrame DEF IInv
  <2> QED
    BY <2>1, <2>2
<1> QED
  BY <1>1, <1>2, PTL DEF Spec

(* Every variable keeps its type (the daemon's maps name real accounts). *)
THEOREM TypeCorrect == Spec => []TypeOK
<1>1. IInv => TypeOK
  BY DEF IInv
<1> QED
  BY <1>1, Claims, PTL

(* beginConvert and tryReserve never both win an account. *)
THEOREM ReservationsAndConversionsApart == Spec => []ReservedNotConverting
<1>1. IInv => ReservedNotConverting
  BY DEF IInv, ClaimInv
<1> QED
  BY <1>1, Claims, PTL

(* The claim maps hold what the handlers own, no more and no less, on every *)
(* return path of every one of them.                                       *)
THEOREM NoClaimLeaks == Spec => []ClaimsMatchOwners
<1>1. IInv => ClaimsMatchOwners
  <2> SUFFICES ASSUME IInv PROVE ClaimsMatchOwners
    OBVIOUS
  <2> USE DEF IInv, ClaimInv
  <2>1. converting = (UNION {MigOwns(m) : m \in Migrator})
                     \cup (UNION {FallbackOwns(w) : w \in Worker}) \cup ReplaceOwns
    <3> DEFINE Owned == (UNION {MigOwns(m) : m \in Migrator})
                        \cup (UNION {FallbackOwns(w) : w \in Worker}) \cup ReplaceOwns
    <3>1. ASSUME NEW m \in Migrator PROVE MigOwns(m) \subseteq converting
      BY DEF OwnersHold, MigOwns
    <3>2. ASSUME NEW w \in Worker PROVE FallbackOwns(w) \subseteq converting
      BY DEF OwnersHold, FallbackOwns, Falling
    <3>3. ReplaceOwns \subseteq converting
      BY DEF OwnersHold, ReplaceOwns
    <3>4. Owned \subseteq converting
      <4>1. UNION {MigOwns(m) : m \in Migrator} \subseteq converting
        BY <3>1
      <4>2. UNION {FallbackOwns(w) : w \in Worker} \subseteq converting
        BY <3>2
      <4> QED
        BY <3>3, <4>1, <4>2
    <3>5. ASSUME NEW a \in converting PROVE a \in Owned
      <4>1. CASE \E m \in Migrator : mig[m].pc # "idle" /\ mig[m].acct = a
        <5>1. PICK m \in Migrator : mig[m].pc # "idle" /\ mig[m].acct = a
          BY <4>1
        <5>2. a \in MigOwns(m)
          BY <5>1 DEF MigOwns
        <5> QED
          BY <5>2
      <4>2. CASE \E w \in Worker : worker[w].pc \in Falling /\ worker[w].acct = a
        <5>1. PICK w \in Worker : worker[w].pc \in Falling /\ worker[w].acct = a
          BY <4>2
        <5>2. a \in FallbackOwns(w)
          BY <5>1 DEF FallbackOwns, Falling
        <5> QED
          BY <5>2
      <4>3. CASE sup.pc \in ReplacePc /\ a \in sup.ids
        BY <4>3 DEF ReplaceOwns
      <4> QED
        BY <4>1, <4>2, <4>3 DEF ClaimsOwned
    <3> QED
      BY <3>4, <3>5
  <2>2. polling = UNION {IF UnderReplace(w) THEN {} ELSE WorkerOn(w) : w \in Worker}
    BY DEF OwnersHold, ClaimsOwned, WorkerOn
  <2> QED
    BY <2>1, <2>2 DEF OwnersHold, ClaimsMatchOwners
<1> QED
  BY <1>1, Claims, PTL

(* No two actors of the daemon ever work on one account. *)
THEOREM OneMutator == Spec => []SoleMutator
<1>1. IInv => SoleMutator
  BY DEF IInv, ClaimInv, OwnersApart, SoleMutator, MigOwns, WorkerOn, ReplaceOwns, Worker
<1> QED
  BY <1>1, Claims, PTL

-----------------------------------------------------------------------------
(* A remake begins on an idle directory.                                   *)

(* No directory is remade after a step unless it was before it, or no       *)
(* process scan can find a session there.                                  *)
OnlyIdleRemade == \A a \in Account : Remaking(a)' => Remaking(a) \/ a \notin Busy

Retiring == {"shutdown", "spawn", "remount"}

LEMMA MigrateRemakes ==
    ASSUME TypeOK, NEW m \in Migrator, UNCHANGED <<worker, sup>>,
           \/ MigrateRelease(m)
           \/ mig' = [mig EXCEPT ![m].pc = "cleared"] /\ MigrateGateOpen(m)
           \/ mig' = [mig EXCEPT ![m].pc = "moved"] /\ mig[m].pc = "cleared"
    PROVE  OnlyIdleRemade
<1>1. \A n \in Migrator : n # m => mig'[n] = mig[n]
  BY DEF MigrateRelease, TypeOK
<1>2. /\ mig'[m].pc \in {"cleared", "moved"} =>
            /\ mig'[m].acct = mig[m].acct /\ mig'[m].force = mig[m].force
            /\ mig[m].pc = "cleared" \/ MigrateGateOpen(m)
  BY DEF MigrateRelease, IdleMig, TypeOK, MigState
<1>3. MigrateGateOpen(m) /\ ~mig[m].force => mig[m].acct \notin Busy
  BY DEF MigrateGateOpen
<1> QED
  BY <1>1, <1>2, <1>3 DEF OnlyIdleRemade, Remaking

LEMMA WorkerRemakes ==
    ASSUME TypeOK, NEW w \in Worker, UNCHANGED <<mig, sup>>,
           \/ Finish(w)
           \/ \E pc \in WorkerPc \ {"unmount", "commit"} : Goto(w, pc)
           \/ Goto(w, "unmount") /\ worker[w].acct \notin Busy
           \/ Goto(w, "commit") /\ worker[w].pc = "unmount"
    PROVE  OnlyIdleRemade
<1>1. \A v \in Worker : v # w => worker'[v] = worker[v]
  BY DEF Finish, Goto, TypeOK
<1>2. worker'[w].pc \in {"unmount", "commit"} =>
          /\ worker'[w].acct = worker[w].acct
          /\ worker[w].pc = "unmount" \/ worker[w].acct \notin Busy
  BY DEF Finish, Goto, IdleWorker, TypeOK, WorkerState
<1> QED
  BY <1>1, <1>2 DEF OnlyIdleRemade, Remaking

LEMMA SupRemakes ==
    ASSUME TypeOK, UNCHANGED mig,
           \A w \in Worker : worker'[w].pc \in {"unmount", "commit"} => worker'[w] = worker[w],
           sup'.pc \in Retiring =>
               /\ sup'.ids = sup.ids
               /\ sup.pc \in Retiring \/ sup.ids \cap Busy = {}
    PROVE  OnlyIdleRemade
BY DEF OnlyIdleRemade, Remaking, Retiring

(* A step of the daemon remakes no directory a session is seen on. *)
LEMMA RemakeStep ==
    ASSUME IInv, Next
    PROVE  OnlyIdleRemade
<1> USE DEF IInv
<1>1. CASE SelectNext \/ EnvNext
  <2>1. \/ UNCHANGED <<mig, worker, sup>>
        \/ /\ \A m \in Migrator : mig'[m].pc = "idle"
           /\ \A w \in Worker : worker'[w].pc = "idle"
           /\ sup'.pc = "idle"
    BY <1>1 DEF SelectNext, SelectList, SelectDaemonless, SelectFilter, SelectReserve, Launch,
       Leave, EnvNext, HolderDies, Mature, Expire, Restart, IdleMig, IdleWorker, IdleSup,
       actorVars
  <2> QED
    BY <2>1 DEF OnlyIdleRemade, Remaking
<1>2. CASE MigrateNext
  <2>1. ASSUME NEW m \in Migrator, NEW a \in Account, NEW to \in Kind, NEW force \in BOOLEAN,
               MigrateClaim(m, a, to, force)
        PROVE  OnlyIdleRemade
    BY <2>1 DEF MigrateClaim, OnlyIdleRemade, Remaking, TypeOK
  <2>2. ASSUME NEW m \in Migrator, MigrateStep(m)
        PROVE  OnlyIdleRemade
    BY <2>2, MigrateRemakes DEF MigrateStep, MigrateGate, MigrateMove, MigrateCommit
  <2> QED
    BY <1>2, <2>1, <2>2 DEF MigrateNext
<1>3. ASSUME NEW w \in Worker, HealStep(w)
      PROVE  OnlyIdleRemade
  <2>1. CASE HealProbe(w) \/ HealClear(w)
    BY <2>1, WorkerRemakes DEF HealProbe, HealClear, WorkerPc
  <2>2. CASE HealMount(w)
    BY <2>2, WorkerRemakes DEF HealMount, WorkerPc
  <2>3. CASE FallbackClaim(w)
    BY <2>3, WorkerRemakes DEF FallbackClaim, WorkerPc
  <2>4. CASE FallbackGate(w)
    BY <2>4, WorkerRemakes DEF FallbackGate, FallbackGateOpen
  <2>5. CASE FallbackUnmount(w)
    BY <2>5, WorkerRemakes DEF FallbackUnmount
  <2>6. CASE FallbackCommit(w)
    BY <2>6, WorkerRemakes DEF FallbackCommit
  <2> QED
    BY <1>3, <2>1, <2>2, <2>3, <2>4, <2>5, <2>6 DEF HealStep
<1>4. CASE LoopStep
  <2>1. CASE LoopList \/ LoopDone
    BY <2>1 DEF LoopList, LoopDone, OnlyIdleRemade, Remaking
  <2>2. ASSUME NEW a \in Account, LoopClaim(a)
        PROVE  OnlyIdleRemade
    BY <2>2 DEF LoopClaim, TypeOK, OnlyIdleRemade, Remaking
  <2>3. CASE Reconcile
    BY <2>3, WorkerRemakes DEF Reconcile, HealFrom, WorkerPc, Worker
  <2>4. CASE Poll
    BY <2>4, WorkerRemakes DEF Poll, HealFrom, WorkerPc, Worker
  <2> QED
    BY <1>3, <1>4, <2>1, <2>2, <2>3, <2>4 DEF LoopStep, Worker
<1>5. CASE SupStep
  <2>1. CASE SupTick
    <3>1. sup.pc = "idle" /\ UNCHANGED <<mig, worker>>
      BY <2>1 DEF SupTick
    <3>2. \/ sup' = sup
          \/ \E S \in SUBSET Account : sup' = [sup EXCEPT !.pc = "rows", !.todo = S]
          \/ sup' = [sup EXCEPT !.pc = "listed", !.ids = FuseRows]
      BY <2>1 DEF SupTick, FuseRows
    <3>3. sup'.pc \notin Retiring
      BY <3>1, <3>2 DEF TypeOK, SupState, Retiring
    <3> QED
      BY <3>1, <3>3, SupRemakes
  <2>2. ASSUME NEW a \in Account, SupClaim(a)
        PROVE  OnlyIdleRemade
    <3>1. /\ UNCHANGED mig /\ sup'.pc \notin Retiring
          /\ \A w \in Worker : worker'[w].pc \in {"unmount", "commit"} => worker'[w] = worker[w]
      BY <2>2 DEF SupClaim, TypeOK, SupState, Retiring
    <3> QED
      BY <3>1, SupRemakes
  <2>3. CASE SupReread
    BY <2>3, WorkerRemakes DEF SupReread, WorkerPc, Worker
  <2>4. CASE SupDone
    BY <2>4, SupRemakes DEF SupDone, IdleSup, Retiring
  <2>5. CASE ReplaceClaim
    BY <2>5, SupRemakes DEF ReplaceClaim, IdleSup, Retiring, TypeOK, SupState
  <2>6. CASE ReplaceGate
    BY <2>6, SupRemakes
    DEF ReplaceGate, ReplaceGateOpen, ReplaceRelease, IdleSup, Retiring, TypeOK, SupState
  <2>7. CASE ReplaceShutdown
    BY <2>7, SupRemakes
    DEF ReplaceShutdown, ReplaceRelease, IdleSup, Retiring, TypeOK, SupState
  <2>8. CASE ReplaceSpawn
    <3>1. sup.pc = "spawn" /\ UNCHANGED <<mig, worker>>
      BY <2>8 DEF ReplaceSpawn
    <3>2. sup' = IdleSup \/ sup' = [sup EXCEPT !.pc = "remount", !.todo = sup.ids]
      BY <2>8 DEF ReplaceSpawn, ReplaceRelease
    <3>3. sup'.pc \in Retiring => sup'.ids = sup.ids
      <4>1. CASE sup' = IdleSup
        BY <4>1 DEF IdleSup, Retiring
      <4>2. CASE sup' = [sup EXCEPT !.pc = "remount", !.todo = sup.ids]
        BY <4>2 DEF TypeOK, SupState
      <4> QED
        BY <3>2, <4>1, <4>2
    <3> QED
      BY <3>1, <3>3, SupRemakes DEF Retiring
  <2>9. CASE ReplaceEnd
    BY <2>9, SupRemakes DEF ReplaceEnd, ReplaceRelease, IdleSup, Retiring
  <2>10. ASSUME NEW a \in Account, ReplaceRemount(a)
         PROVE  OnlyIdleRemade
    <3>1. /\ UNCHANGED mig /\ sup'.ids = sup.ids /\ sup.pc \in Retiring
          /\ \A w \in Worker : worker'[w].pc \in {"unmount", "commit"} => worker'[w] = worker[w]
      BY <2>10 DEF ReplaceRemount, TypeOK, SupState, Retiring
    <3> QED
      BY <3>1, SupRemakes
  <2> QED
    BY <1>3, <1>5, <2>1, <2>2, <2>3, <2>4, <2>5, <2>6, <2>7, <2>8, <2>9, <2>10
    DEF SupStep, ReplaceStep, Worker
<1> QED
  BY <1>1, <1>2, <1>4, <1>5 DEF Next

-----------------------------------------------------------------------------
(* The claims keep remakes and claudes apart.                              *)

(* Those about to launch that the daemon knows of still hold the            *)
(* reservation they were given; it knows of none that came in without it.   *)
Asked ==
    \A c \in Client :
        /\ client[c].pc = "bypass" => client[c].known = "no"
        /\ client[c].pc = "launching" /\ client[c].known = "yes" => client[c].acct \in reserved

LeaseInv == IInv /\ Asked /\ NoRemakeUnderClient

LEMMA RemakingIsClaimed ==
    ASSUME IInv, NEW a \in Account, Remaking(a)
    PROVE  a \in converting
BY DEF IInv, ClaimInv, OwnersHold, Remaking, Falling, ReplacePc

(* Only selects and the world outside touch clients, reservations, uptime. *)
LEMMA OthersLeaveClients ==
    ASSUME MigrateNext \/ LoopStep \/ SupStep
    PROVE  UNCHANGED <<client, reserved, young>>
<1> USE DEF dirVars, boundVars, claimVars
<1>1. MigrateNext => UNCHANGED <<client, reserved, young>>
  BY DEF MigrateNext, MigrateClaim, MigrateStep, MigrateGate, MigrateMove, MigrateCommit
<1>2. ASSUME NEW w \in Worker, HealStep(w) PROVE UNCHANGED <<client, reserved, young>>
  BY <1>2 DEF HealStep, HealProbe, HealClear, HealMount, FallbackClaim, FallbackGate, FallbackUnmount,
     FallbackCommit
<1>3. LoopStep => UNCHANGED <<client, reserved, young>>
  BY <1>2 DEF LoopStep, LoopList, LoopClaim, Reconcile, Poll, LoopDone, Worker
<1>4. ReplaceStep => UNCHANGED <<client, reserved, young>>
  BY DEF ReplaceStep, ReplaceClaim, ReplaceGate, ReplaceShutdown, ReplaceSpawn, ReplaceEnd,
     ReplaceRemount
<1>5. SupStep => UNCHANGED <<client, reserved, young>>
  BY <1>2, <1>4 DEF SupStep, SupTick, SupClaim, SupReread, SupDone, Worker
<1> QED
  BY <1>1, <1>3, <1>5

(* What a select step does to the clients, all at once. *)
LEMMA SelectMoves ==
    ASSUME IInv, SelectNext
    PROVE  /\ UNCHANGED <<mig, worker, sup, row, converting, young>>
           /\ reserved \subseteq reserved'
           /\ \A c \in Client :
                \/ client'[c] = client[c]
                \/ client'[c].pc \in {"idle", "listed", "ready"}
                \/ client'[c].pc = "bypass" /\ client'[c].known = "no" /\ Daemonless
                \/ /\ client'[c].pc = "launching" /\ client'[c].acct \notin converting
                   /\ client[c].pc = "ready" /\ client'[c].acct \in reserved'
                   /\ client'[c].known = "yes"
                \/ /\ client'[c].pc = "session" /\ client[c].pc \in {"launching", "bypass"}
                   /\ client'[c].acct = client[c].acct /\ client'[c].known = client[c].known
<1> USE DEF IInv, TypeOK, claimVars, dirVars, boundVars
<1>1. ASSUME NEW c \in Client, NEW a \in Account, SelectList(c, a)
      PROVE  /\ UNCHANGED <<mig, worker, sup, row, converting, young, reserved>>
             /\ \A d \in Client : client'[d] = client[d] \/ client'[d].pc = "listed"
  BY <1>1 DEF SelectList
<1>2. ASSUME NEW c \in Client, SelectFilter(c)
      PROVE  /\ UNCHANGED <<mig, worker, sup, row, converting, young, reserved>>
             /\ \A d \in Client : client'[d] = client[d] \/ client'[d].pc \in {"idle", "ready"}
  BY <1>2 DEF SelectFilter, IdleClient
<1>3. ASSUME NEW c \in Client, SelectReserve(c)
      PROVE  /\ UNCHANGED <<mig, worker, sup, row, converting, young>>
             /\ reserved \subseteq reserved'
             /\ \A d \in Client :
                  \/ client'[d] = client[d]
                  \/ client'[d].pc = "idle"
                  \/ /\ client'[d].pc = "launching" /\ client'[d].acct \notin converting
                     /\ client[d].pc = "ready" /\ client'[d].acct \in reserved'
                     /\ client'[d].known = "yes"
  <2>1. CASE TryReserve(client[c].acct)
    <3>1. /\ client' = [client EXCEPT ![c] = [pc |-> "launching", acct |-> client[c].acct,
                                               kind |-> "symlink", known |-> "yes"]]
          /\ client[c].pc = "ready"
          /\ reserved' = reserved \cup {client[c].acct}
          /\ client[c].acct \notin converting
          /\ UNCHANGED <<mig, worker, sup, row, converting, young>>
      BY <1>3, <2>1 DEF SelectReserve, TryReserve
    <3>2. /\ client'[c].pc = "launching" /\ client'[c].acct = client[c].acct
          /\ client'[c].known = "yes"
      BY <3>1
    <3> QED
      BY <3>1, <3>2
  <2>2. CASE ~TryReserve(client[c].acct)
    BY <1>3, <2>2 DEF SelectReserve, IdleClient
  <2> QED
    BY <2>1, <2>2
<1>4. ASSUME NEW c \in Client, Launch(c)
      PROVE  /\ UNCHANGED <<mig, worker, sup, row, converting, young, reserved>>
             /\ \A d \in Client :
                  \/ client'[d] = client[d]
                  \/ /\ client'[d].pc = "session" /\ client[d].pc \in {"launching", "bypass"}
                     /\ client'[d].acct = client[d].acct /\ client'[d].known = client[d].known
  BY <1>4, ClientGoto DEF Launch, ClientPc
<1>5. ASSUME NEW c \in Client, Leave(c)
      PROVE  /\ UNCHANGED <<mig, worker, sup, row, converting, young, reserved>>
             /\ \A d \in Client : client'[d] = client[d] \/ client'[d].pc = "idle"
  BY <1>5 DEF Leave, IdleClient
<1>6. ASSUME NEW c \in Client, NEW a \in Account, SelectDaemonless(c, a)
      PROVE  /\ UNCHANGED <<mig, worker, sup, row, converting, young, reserved>>
             /\ \A d \in Client : \/ client'[d] = client[d]
                                  \/ client'[d].pc = "bypass" /\ client'[d].known = "no" /\ Daemonless
  BY <1>6 DEF SelectDaemonless
<1>7. \/ \E c \in Client, a \in Account : SelectList(c, a) \/ SelectDaemonless(c, a)
      \/ \E c \in Client : SelectFilter(c) \/ SelectReserve(c) \/ Launch(c) \/ Leave(c)
  BY DEF SelectNext
<1> QED
  BY <1>1, <1>2, <1>3, <1>4, <1>5, <1>6, <1>7

LEMMA LeaseStep ==
    ASSUME LeaseInv, Next
    PROVE  Asked' /\ NoRemakeUnderClient'
<1> USE DEF LeaseInv
<1>1. IInv'
  BY SelectKeepsIInv, MigrateKeepsIInv, LoopKeepsIInv, SupKeepsIInv, EnvKeepsIInv DEF Next
<1>2. CASE SelectNext
  <2>1. Asked'
    BY <1>2, SelectMoves DEF Asked
  <2>2. ASSUME NEW a \in Account, Remaking(a)', NEW c \in Client,
               client'[c].pc \in {"launching", "session"}, client'[c].acct = a, client'[c].known = "yes"
        PROVE  FALSE
    <3>1. Remaking(a) /\ a \in converting
      BY <1>2, <2>2, SelectMoves, RemakingIsClaimed DEF Remaking
    <3>2. client[c].pc \in {"launching", "session"} /\ client[c].known = "yes" => client[c].acct # a
      BY <3>1 DEF NoRemakeUnderClient, Users
    <3> QED
      <4>1. \/ client'[c] = client[c]
            \/ client'[c].pc = "launching" /\ client'[c].acct \notin converting
            \/ /\ client'[c].pc = "session" /\ client[c].pc \in {"launching", "bypass"}
               /\ client'[c].acct = client[c].acct /\ client'[c].known = client[c].known
        BY <1>2, <2>2, SelectMoves
      <4>2. client[c].pc = "bypass" => client[c].known = "no"
        BY DEF Asked
      <4> QED
        BY <2>2, <3>1, <3>2, <4>1, <4>2
  <2>3. \A a \in Account : Remaking(a)' => \A c \in Users(a)' : client'[c].known = "no"
    <3> SUFFICES ASSUME NEW a \in Account, Remaking(a)', NEW c \in Users(a)'
                 PROVE  client'[c].known = "no"
      OBVIOUS
    <3>1. c \in Client /\ client'[c].pc \in {"launching", "session"} /\ client'[c].acct = a
      BY DEF Users
    <3>2. client'[c].known \in {"yes", "no"}
      BY <1>1, <3>1 DEF IInv, TypeOK, ClientState
    <3> QED
      BY <2>2, <3>1, <3>2
  <2> QED
    BY <2>1, <2>3 DEF NoRemakeUnderClient
<1>3. CASE EnvNext
  <2>1. CASE Restart
    <3>2. \A c \in Client : client'[c].pc \in {"bypass", "launching"} => client'[c].known = "no"
      BY <2>1, RestartClients DEF IdleClient, IInv
    <3>3. \A a \in Account : ~Remaking(a)'
      BY <2>1 DEF Restart, Remaking, IdleMig, IdleWorker, IdleSup, Worker
    <3> QED
      BY <3>2, <3>3 DEF Asked, NoRemakeUnderClient
  <2>2. CASE ~Restart
    <3>1. UNCHANGED <<client, mig, worker, sup>> /\ Asked'
      BY <1>3, <2>2
      DEF EnvNext, HolderDies, Mature, Expire, Asked, claimVars, actorVars
    <3> QED
      BY <3>1 DEF NoRemakeUnderClient, Remaking, Users
  <2> QED
    BY <2>1, <2>2
<1>4. CASE MigrateNext \/ LoopStep \/ SupStep
  <2>1. UNCHANGED <<client, reserved>>
    BY <1>4, OthersLeaveClients
  <2>2. Asked'
    BY <2>1 DEF Asked
  <2>3. ASSUME NEW a \in Account, Remaking(a)', NEW c \in Client,
               client[c].pc \in {"launching", "session"}, client[c].acct = a, client[c].known = "yes"
        PROVE  FALSE
    <3>1. a \notin reserved
      <4>1. a \in converting'
        BY <1>1, <2>3 DEF IInv, ClaimInv, OwnersHold, Remaking, Falling, ReplacePc
      <4> QED
        BY <1>1, <2>1, <4>1 DEF IInv, ClaimInv, ReservedNotConverting
    <3>2. Remaking(a) \/ a \notin Busy
      BY <1>4, <2>3, RemakeStep DEF OnlyIdleRemade
    <3> QED
      <4>1. client[c].pc = "session"
        BY <2>3, <3>1 DEF Asked
      <4>2. a \in Busy /\ c \in Users(a)
        BY <2>3, <4>1 DEF Busy, Users
      <4> QED
        BY <2>3, <3>2, <4>2 DEF NoRemakeUnderClient
  <2>4. \A a \in Account : Remaking(a)' => \A c \in Users(a) : client[c].known = "no"
    <3> SUFFICES ASSUME NEW a \in Account, Remaking(a)', NEW c \in Users(a)
                 PROVE  client[c].known = "no"
      OBVIOUS
    <3>1. c \in Client /\ client[c].pc \in {"launching", "session"} /\ client[c].acct = a
      BY DEF Users
    <3>2. client[c].known \in {"yes", "no"}
      BY <3>1 DEF IInv, TypeOK, ClientState
    <3> QED
      BY <2>3, <3>1, <3>2
  <2> QED
    BY <2>1, <2>2, <2>4 DEF NoRemakeUnderClient, Users
<1> QED
  BY <1>2, <1>3, <1>4 DEF Next

LEMMA LeaseHeld == Spec => []LeaseInv
<1>1. Init => Asked /\ NoRemakeUnderClient
  BY DEF Init, Asked, NoRemakeUnderClient, Users, Remaking, IdleClient, IdleMig, IdleWorker,
     IdleSup, Worker
<1>2. IInv /\ Asked /\ NoRemakeUnderClient /\ [Next]_vars =>
          Asked' /\ NoRemakeUnderClient'
  <2>1. IInv /\ Asked /\ NoRemakeUnderClient /\ UNCHANGED vars =>
            Asked' /\ NoRemakeUnderClient'
    BY DEF vars, claimVars, actorVars, Asked, NoRemakeUnderClient, Users, Remaking
  <2> QED
    BY <2>1, LeaseStep DEF LeaseInv
<1>3. IInv /\ Asked /\ NoRemakeUnderClient => LeaseInv
  BY DEF LeaseInv
<1> QED
  BY <1>1, <1>2, <1>3, Claims, PTL DEF Spec

(* However often the daemon is restarted, and whoever does without it, no   *)
(* directory is remade under a claude that the running daemon has reserved  *)
(* for or found running.                                                    *)
THEOREM NoRemakeUnderClaude == Spec => []NoRemakeUnderClient
<1>1. LeaseInv => NoRemakeUnderClient
  BY DEF LeaseInv
<1> QED
  BY <1>1, LeaseHeld, PTL

-----------------------------------------------------------------------------
(* The holder is replaced over an idle pool, across restarts.              *)

(* A daemon that has been up for reservationTTL knows every launch that is  *)
(* still to come.                                                          *)
Mature4All ==
    /\ \A c \in Client : client[c].pc # "bypass"
    /\ ~young => \A c \in Client : client[c].pc = "launching" => client[c].acct \in reserved
    /\ sup.pc \in ReplacePc \cup {"listed"} => ~young

(* No conversion is in flight while the holder is being replaced, so the    *)
(* rows listed at the gate stay the fuse rows.                             *)
ConversionsFenced ==
    sup.pc \in ReplacePc => /\ \A m \in Migrator : mig[m].pc = "idle"
                            /\ \A w \in Worker : worker[w].pc \notin Falling

RowsStable == sup.pc \in Retiring => FuseRows = sup.ids

NoUserOnRetired ==
    sup.pc \in Retiring => \A c \in Client :
        client[c].pc \in {"launching", "session"} => client[c].acct \notin sup.ids

RowsFenced == ConversionsFenced /\ RowsStable

FenceInv == Mature4All /\ RowsFenced /\ NoUserOnRetired

(* How the supervisor moves through a replacement. *)
SupMoves ==
    \/ sup' = sup
    \/ sup'.pc \notin ReplacePc \cup {"listed"}
    \/ sup'.pc = "listed" /\ ~young'
    \/ /\ sup.pc = "listed" /\ sup'.pc = "gate"
       /\ converting = {} /\ UNCHANGED <<mig, worker, young>>
    \/ /\ sup'.pc \in Retiring /\ sup'.ids = sup.ids
       /\ sup.pc \in Retiring \/ (sup.pc = "gate" /\ ReplaceGateOpen)
       /\ UNCHANGED <<client, row, young>>

LEMMA SupPath ==
    ASSUME IInv, Next
    PROVE  SupMoves
<1> USE DEF IInv, SupMoves, dirVars, boundVars, claimVars, actorVars
<1>1. CASE SelectNext
  BY <1>1 DEF SelectNext, SelectList, SelectDaemonless, SelectFilter, SelectReserve, Launch, Leave
<1>2. CASE EnvNext
  BY <1>2 DEF EnvNext, HolderDies, Mature, Expire, Restart, IdleSup, Retiring, ReplacePc
<1>3. CASE MigrateNext
  BY <1>3 DEF MigrateNext, MigrateClaim, MigrateStep, MigrateGate, MigrateMove, MigrateCommit
<1>4. ASSUME NEW w \in Worker, HealStep(w)
      PROVE  UNCHANGED sup
  BY <1>4 DEF HealStep, HealProbe, HealClear, HealMount, FallbackClaim, FallbackGate, FallbackUnmount,
     FallbackCommit
<1>5. CASE LoopStep
  <2>1. UNCHANGED sup
    BY <1>4, <1>5 DEF LoopStep, LoopList, LoopClaim, Reconcile, Poll, LoopDone, Worker
  <2> QED
    BY <2>1
<1>6. CASE SupStep
  <2>1. CASE SupTick
    <3>1. \/ sup' = sup
          \/ \E S \in SUBSET Account : sup' = [sup EXCEPT !.pc = "rows", !.todo = S]
          \/ sup' = [sup EXCEPT !.pc = "listed", !.ids = FuseRows] /\ ~young'
      BY <2>1 DEF SupTick, FuseRows, UptimeClear
    <3>2. \/ sup' = sup
          \/ sup'.pc = "rows"
          \/ sup'.pc = "listed" /\ ~young'
      BY <3>1 DEF TypeOK, SupState
    <3> QED
      BY <3>2 DEF Retiring, ReplacePc
  <2>2. ASSUME NEW a \in Account, SupClaim(a)
        PROVE  sup'.pc = "rows"
    BY <2>2 DEF SupClaim, TypeOK, SupState
  <2>3. CASE SupReread \/ HealStep("sup")
    <3>1. UNCHANGED sup
      BY <1>4, <2>3 DEF SupReread, Worker
    <3> QED
      BY <3>1
  <2>4. CASE SupDone \/ ReplaceEnd
    BY <2>4 DEF SupDone, ReplaceEnd, ReplaceRelease, IdleSup, Retiring, ReplacePc
  <2>5. CASE ReplaceClaim
    <3>1. \/ sup'.pc = "idle"
          \/ sup'.pc = "gate" /\ converting = {}
      BY <2>5 DEF ReplaceClaim, BeginReplace, IdleSup, TypeOK, SupState
    <3> QED
      BY <2>5, <3>1 DEF ReplaceClaim, Retiring, ReplacePc
  <2>6. CASE ReplaceGate
    <3>1. \/ sup'.pc = "idle"
          \/ sup'.pc = "shutdown" /\ sup'.ids = sup.ids /\ ReplaceGateOpen
      BY <2>6 DEF ReplaceGate, ReplaceRelease, IdleSup, TypeOK, SupState
    <3> QED
      BY <2>6, <3>1 DEF ReplaceGate, Retiring, ReplacePc
  <2>7. CASE ReplaceShutdown
    <3>1. \/ sup'.pc = "idle"
          \/ sup'.pc = "spawn" /\ sup'.ids = sup.ids
      BY <2>7 DEF ReplaceShutdown, ReplaceRelease, IdleSup, TypeOK, SupState
    <3>2. sup.pc = "shutdown" /\ UNCHANGED <<client, row, young>>
      BY <2>7 DEF ReplaceShutdown
    <3> QED
      BY <3>1, <3>2 DEF Retiring, ReplacePc
  <2>8. CASE ReplaceSpawn
    <3>1. sup' = IdleSup \/ sup' = [sup EXCEPT !.pc = "remount", !.todo = sup.ids]
      BY <2>8 DEF ReplaceSpawn, ReplaceRelease
    <3>2. \/ sup'.pc = "idle"
          \/ sup'.pc = "remount" /\ sup'.ids = sup.ids
      <4>1. CASE sup' = IdleSup
        BY <4>1 DEF IdleSup
      <4>2. CASE sup' = [sup EXCEPT !.pc = "remount", !.todo = sup.ids]
        BY <4>2 DEF TypeOK, SupState
      <4> QED
        BY <3>1, <4>1, <4>2
    <3>3. sup.pc = "spawn" /\ UNCHANGED <<client, row, young>>
      BY <2>8 DEF ReplaceSpawn
    <3> QED
      BY <3>2, <3>3 DEF Retiring, ReplacePc
  <2>9. ASSUME NEW a \in Account, ReplaceRemount(a)
        PROVE  SupMoves
    <3>1. /\ sup.pc = "remount" /\ sup'.pc = "remount" /\ sup'.ids = sup.ids
          /\ UNCHANGED <<client, row, young>>
      BY <2>9 DEF ReplaceRemount, TypeOK, SupState
    <3> QED
      BY <3>1 DEF Retiring, ReplacePc
  <2>10. ASSUME NEW a \in Account, SupClaim(a)
         PROVE  SupMoves
    BY <2>2, <2>10 DEF ReplacePc
  <2> HIDE DEF SupMoves
  <2>11. ReplaceStep => SupMoves
    BY <2>4, <2>5, <2>6, <2>7, <2>8, <2>9 DEF ReplaceStep
  <2> QED
    BY <1>6, <2>1, <2>3, <2>4, <2>10, <2>11 DEF SupStep
<1> QED
  BY <1>1, <1>2, <1>3, <1>5, <1>6 DEF Next

(* No conversion is in flight. *)
NoConversion ==
    /\ \A m \in Migrator : mig[m].pc = "idle"
    /\ \A w \in Worker : worker[w].pc \notin Falling

(* While the fence is up none starts, and so no row changes. *)
LEMMA FenceHolds ==
    ASSUME IInv, Next, replacing, NoConversion
    PROVE  NoConversion' /\ row' = row
<1> USE DEF IInv, TypeOK, dirVars, boundVars, claimVars
<1>1. CASE SelectNext
  <2>1. UNCHANGED <<mig, worker, row>>
    BY <1>1 DEF SelectNext, SelectList, SelectDaemonless, SelectFilter, SelectReserve, Launch, Leave
  <2> QED
    BY <2>1 DEF NoConversion
<1>2. CASE EnvNext
  <2>1. row' = row
    BY <1>2 DEF EnvNext, HolderDies, Mature, Expire, Restart
  <2>2. UNCHANGED <<mig, worker>> \/ Restart
    BY <1>2 DEF EnvNext, HolderDies, Mature, Expire, actorVars
  <2>3. CASE Restart
    BY <2>1, <2>3 DEF Restart, NoConversion, IdleMig, IdleWorker, Falling
  <2> QED
    BY <2>1, <2>2, <2>3 DEF NoConversion
<1>3. ~MigrateNext
  BY DEF MigrateNext, MigrateClaim, MigrateStep, MigrateGate, MigrateMove, MigrateCommit,
     BeginConvert, NoConversion
<1>4. ASSUME NEW w \in Worker,
             UNCHANGED <<mig, row>>,
             Finish(w) \/ \E pc \in WorkerPc \ Falling : Goto(w, pc)
      PROVE  NoConversion' /\ row' = row
  BY <1>4 DEF NoConversion, Finish, Goto, IdleWorker, Falling, WorkerState
<1>5. ASSUME NEW w \in Worker, HealStep(w)
      PROVE  NoConversion' /\ row' = row
  <2>1. HealProbe(w) \/ HealClear(w) \/ HealMount(w) \/ FallbackClaim(w)
    BY <1>5 DEF HealStep, FallbackGate, FallbackUnmount, FallbackCommit, NoConversion, Falling
  <2>2. UNCHANGED <<mig, row>>
    BY <2>1 DEF HealProbe, HealClear, HealMount, FallbackClaim
  <2>3. Finish(w) \/ \E pc \in WorkerPc \ Falling : Goto(w, pc)
    <3>1. {"clear", "mount", "fallback"} \subseteq WorkerPc \ Falling
      BY DEF WorkerPc, Falling
    <3>2. Finish(w) \/ Goto(w, "clear") \/ Goto(w, "mount") \/ Goto(w, "fallback")
      BY <2>1 DEF HealProbe, HealClear, HealMount, FallbackClaim, BeginConvertUnderPoll
    <3> QED
      BY <3>1, <3>2
  <2> QED
    BY <1>4, <2>2, <2>3
<1>6. ASSUME UNCHANGED <<mig, row>>,
             \A w \in Worker : worker'[w] = worker[w] \/ worker'[w].pc \in {"claimed", "heal", "idle"}
      PROVE  NoConversion' /\ row' = row
  BY <1>6 DEF NoConversion, Falling
<1>7. CASE LoopStep
  <2>1. CASE HealStep("loop")
    BY <1>5, <2>1 DEF Worker
  <2>2. CASE LoopList \/ LoopDone
    BY <1>6, <2>2 DEF LoopList, LoopDone
  <2>3. ASSUME NEW a \in Account, LoopClaim(a)
        PROVE  NoConversion' /\ row' = row
    BY <1>6, <2>3 DEF LoopClaim
  <2>4. CASE Reconcile \/ Poll
    <3>1. Finish("loop") \/ Goto("loop", "heal") \/ Goto("loop", "clear")
      BY <2>4 DEF Reconcile, Poll, HealFrom
    <3>2. UNCHANGED <<mig, row>> /\ {"heal", "clear"} \subseteq WorkerPc \ Falling
      BY <2>4 DEF Reconcile, Poll, WorkerPc, Falling
    <3> QED
      BY <1>4, <3>1, <3>2 DEF Worker
  <2> QED
    BY <1>7, <2>1, <2>2, <2>3, <2>4 DEF LoopStep
<1>8. CASE SupStep
  <2>1. CASE HealStep("sup")
    BY <1>5, <2>1 DEF Worker
  <2>2. CASE SupTick \/ SupDone
    BY <1>6, <2>2 DEF SupTick, SupDone
  <2>3. ASSUME NEW a \in Account, SupClaim(a)
        PROVE  NoConversion' /\ row' = row
    BY <1>6, <2>3 DEF SupClaim
  <2>4. CASE SupReread
    BY <1>6, <2>4 DEF SupReread, Finish, Goto, IdleWorker, WorkerState, Worker
  <2>5. CASE ReplaceStep
    <3>1. ASSUME NEW a \in Account, ReplaceRemount(a)
          PROVE  NoConversion' /\ row' = row
      BY <1>6, <3>1 DEF ReplaceRemount
    <3>2. CASE ReplaceClaim \/ ReplaceGate \/ ReplaceShutdown \/ ReplaceSpawn \/ ReplaceEnd
      <4>1. UNCHANGED <<mig, row, worker>>
        BY <3>2 DEF ReplaceClaim, ReplaceGate, ReplaceShutdown, ReplaceSpawn, ReplaceEnd
      <4> QED
        BY <1>6, <4>1
    <3> QED
      BY <2>5, <3>1, <3>2 DEF ReplaceStep
  <2> QED
    BY <1>8, <2>1, <2>2, <2>3, <2>4, <2>5 DEF SupStep
<1> QED
  BY <1>1, <1>2, <1>3, <1>7, <1>8 DEF Next

(* The reservations a mature daemon holds stand for every launch to come. *)
LEMMA MatureStep ==
    ASSUME IInv, Mature4All, Next, ~Daemonless
    PROVE  Mature4All'
<1> USE DEF Mature4All
<1>1. \A c \in Client : client'[c].pc # "bypass"
  <2>1. CASE SelectNext
    <3>1. \A c \in Client : client'[c] = client[c] \/ client'[c].pc # "bypass"
      BY <2>1, SelectMoves
    <3> QED
      BY <3>1
  <2>2. CASE EnvNext
    BY <2>2, RestartClients
    DEF EnvNext, HolderDies, Mature, Expire, actorVars, IdleClient, IInv
  <2> QED
    BY <2>1, <2>2, OthersLeaveClients DEF Next
<1>2. ~young' => \A c \in Client : client'[c].pc = "launching" => client'[c].acct \in reserved'
  <2>1. CASE SelectNext
    BY <2>1, SelectMoves
  <2>2. CASE EnvNext
    BY <2>2 DEF EnvNext, HolderDies, Mature, Restart, Expire, actorVars, claimVars, boundVars
  <2> QED
    BY <2>1, <2>2, OthersLeaveClients DEF Next
<1>3. young' = young \/ ~young' \/ sup' = IdleSup
  <2>1. CASE SelectNext
    BY <2>1, SelectMoves
  <2>2. CASE EnvNext
    BY <2>2 DEF EnvNext, HolderDies, Mature, Restart, Expire, boundVars
  <2> QED
    BY <2>1, <2>2, OthersLeaveClients DEF Next
<1>4. sup'.pc \in ReplacePc \cup {"listed"} => ~young'
  <2>1. IdleSup.pc \notin ReplacePc \cup {"listed"}
    BY DEF IdleSup, ReplacePc
  <2>2. Retiring \subseteq ReplacePc /\ "gate" \in ReplacePc
    BY DEF Retiring, ReplacePc
  <2> QED
    BY <1>3, <2>1, <2>2, SupPath DEF SupMoves
<1> QED
  BY <1>1, <1>2, <1>4

LEMMA RowsStep ==
    ASSUME IInv, RowsFenced, Next
    PROVE  RowsFenced'
<1> USE DEF RowsFenced
<1>2. Retiring \subseteq ReplacePc /\ "gate" \in ReplacePc /\ "listed" \notin ReplacePc
  BY DEF Retiring, ReplacePc
<1>3. sup.pc \in ReplacePc => NoConversion' /\ row' = row
  BY FenceHolds DEF ConversionsFenced, NoConversion, IInv, ClaimInv, OwnersHold
<1>4. ConversionsFenced'
  <2>1. ASSUME sup.pc = "listed", sup'.pc = "gate", converting = {}, UNCHANGED <<mig, worker>>
        PROVE  NoConversion'
    BY <2>1 DEF IInv, ClaimInv, OwnersHold, NoConversion
  <2>2. sup'.pc \in ReplacePc => NoConversion'
    BY <1>2, <1>3, <2>1, SupPath DEF SupMoves
  <2> QED
    BY <2>2 DEF ConversionsFenced, NoConversion
<1>5. RowsStable'
  <2>1. ASSUME sup'.pc \in Retiring
        PROVE  /\ sup.pc \in Retiring \/ (sup.pc = "gate" /\ ReplaceGateOpen)
               /\ sup'.ids = sup.ids
    BY <1>2, <2>1, SupPath DEF SupMoves, Retiring
  <2>2. ASSUME sup'.pc \in Retiring
        PROVE  FuseRows' = sup'.ids
    <3>1. FuseRows = sup.ids
      BY <2>1, <2>2 DEF RowsStable, ReplaceGateOpen
    <3>2. row' = row
      BY <1>2, <1>3, <2>1, <2>2
    <3> QED
      BY <2>1, <2>2, <3>1, <3>2 DEF FuseRows
  <2> QED
    BY <2>2 DEF RowsStable
<1> QED
  BY <1>4, <1>5

LEMMA FenceStep ==
    ASSUME IInv, FenceInv, Next, ~Daemonless
    PROVE  FenceInv'
<1> USE DEF FenceInv
<1>1. Mature4All'
  BY MatureStep
<1>2. Retiring \subseteq ReplacePc /\ "gate" \in ReplacePc /\ "listed" \notin ReplacePc
  BY DEF Retiring, ReplacePc
<1>3. RowsFenced'
  BY RowsStep
<1>6. NoUserOnRetired'
  <2>1. CASE sup'.pc \in Retiring /\ sup'.ids = sup.ids /\ UNCHANGED client
             /\ sup.pc = "gate" /\ ReplaceGateOpen
    <3>1. ~young /\ sup.ids \subseteq converting /\ reserved \cap converting = {}
      BY <1>2, <2>1 DEF Mature4All, IInv, ClaimInv, OwnersHold, ReservedNotConverting
    <3>2. \A c \in Client : client[c].pc = "launching" => client[c].acct \notin sup.ids
      BY <3>1 DEF Mature4All
    <3>3. \A c \in Client : client[c].pc = "session" => client[c].acct \notin sup.ids
      BY <2>1 DEF ReplaceGateOpen, Busy, IInv, TypeOK, SupState
    <3> QED
      BY <2>1, <3>2, <3>3 DEF NoUserOnRetired
  <2>2. CASE sup'.pc \in Retiring /\ sup'.ids = sup.ids /\ sup.pc \in Retiring
    <3>1. \A c \in Client :
              client[c].pc \in {"launching", "session"} => client[c].acct \notin sup.ids
      BY <2>2 DEF NoUserOnRetired
    <3>2. sup.ids \subseteq converting
      BY <1>2, <2>2 DEF IInv, ClaimInv, OwnersHold
    <3>3. CASE SelectNext
      BY <2>2, <3>1, <3>2, <3>3, SelectMoves DEF Mature4All, NoUserOnRetired
    <3>4. CASE EnvNext
      <4>1. ~Restart
        BY <2>2 DEF Restart, IdleSup, Retiring
      <4>2. UNCHANGED client
        BY <3>4, <4>1 DEF EnvNext, HolderDies, Mature, Expire, actorVars
      <4> QED
        BY <2>2, <3>1, <4>2 DEF NoUserOnRetired
    <3> QED
      BY <2>2, <3>1, <3>3, <3>4, OthersLeaveClients DEF Next, NoUserOnRetired
  <2>3. sup'.pc \in Retiring =>
            /\ sup'.ids = sup.ids
            /\ sup.pc \in Retiring \/ (sup.pc = "gate" /\ ReplaceGateOpen /\ UNCHANGED client)
    BY <1>2, SupPath DEF SupMoves, Retiring
  <2> QED
    BY <2>1, <2>2, <2>3 DEF NoUserOnRetired
<1> QED
  BY <1>1, <1>3, <1>6

(* However often the daemon is restarted, the holder is retired only while  *)
(* nobody is on a fuse row or on the way to one, provided every client asks *)
(* the daemon: the uptime gate stands in for the reservations lost.         *)
THEOREM HolderRetiredIdle ==
    ASSUME ~Daemonless
    PROVE  Spec => []ReplaceFenced
<1>1. Init => FenceInv
  BY DEF Init, FenceInv, RowsFenced, Mature4All, ConversionsFenced, RowsStable, NoUserOnRetired,
     IdleClient, IdleSup, ReplacePc, Retiring
<1>2. IInv /\ FenceInv /\ [Next]_vars => FenceInv'
  <2>1. IInv /\ FenceInv /\ UNCHANGED vars => FenceInv'
    BY DEF vars, claimVars, dirVars, actorVars, boundVars, FenceInv, RowsFenced, Mature4All,
       ConversionsFenced, RowsStable, NoUserOnRetired, FuseRows
  <2> QED
    BY <2>1, FenceStep
<1>3. IInv /\ FenceInv => ReplaceFenced
  BY DEF IInv, ClaimInv, OwnersHold, FenceInv, RowsFenced, RowsStable, NoUserOnRetired, ReplaceFenced,
     Users, Retiring, ReplacePc
<1> QED
  BY <1>1, <1>2, <1>3, Claims, PTL DEF Spec

-----------------------------------------------------------------------------
(* The claims implement the lease.                                         *)

LeaseUsers == [a \in Account |-> Users(a)]
LeaseRemaking == {a \in Account : Remaking(a)}

LEMMA LeaseSteps ==
    /\ LeaseUsers = [a \in Account |-> {}] /\ LeaseRemaking = {} => Lease!LeaseInit
    /\ LeaseUsers' = LeaseUsers /\ LeaseRemaking' = LeaseRemaking => UNCHANGED Lease!leaseVars
    /\ \A c \in Client, a \in Account :
          /\ a \notin LeaseRemaking /\ LeaseRemaking' = LeaseRemaking
          /\ LeaseUsers' = [LeaseUsers EXCEPT ![a] = @ \cup {c}]
          => Lease!LeaseNext
    /\ \A c \in Client, a \in Account :
          /\ c \in LeaseUsers[a] /\ LeaseRemaking' = LeaseRemaking
          /\ LeaseUsers' = [LeaseUsers EXCEPT ![a] = @ \ {c}]
          => Lease!LeaseNext
    /\ \A S \in SUBSET Account :
          /\ \A a \in S : LeaseUsers[a] = {}
          /\ LeaseRemaking' = LeaseRemaking \cup S /\ LeaseUsers' = LeaseUsers
          => Lease!LeaseNext
    /\ \A S \in SUBSET Account :
          /\ S \subseteq LeaseRemaking
          /\ LeaseRemaking' = LeaseRemaking \ S /\ LeaseUsers' = LeaseUsers
          => Lease!LeaseNext
BY DEF LeaseUsers, LeaseRemaking, Lease!LeaseInit, Lease!leaseVars, Lease!LeaseNext, Lease!Enter,
       Lease!Leave, Lease!BeginRemake, Lease!EndRemake

(* Where every client asks and the daemon is never killed, it knows of all. *)
AllKnown ==
    \A c \in Client : /\ client[c].pc # "bypass"
                      /\ client[c].pc \in {"launching", "session"} => client[c].known = "yes"

LEMMA KnownStep ==
    ASSUME IInv, AllKnown, Next, ~Daemonless, MaxRestarts = 0
    PROVE  AllKnown'
<1>1. CASE SelectNext
  BY <1>1, SelectMoves DEF AllKnown
<1>2. CASE EnvNext
  <2>1. ~Restart
    BY DEF Restart, IInv, TypeOK
  <2> QED
    BY <1>2, <2>1 DEF EnvNext, HolderDies, Mature, Expire, AllKnown, actorVars
<1> QED
  BY <1>1, <1>2, OthersLeaveClients DEF Next, AllKnown

(* A select handler moves its own client only. *)
LEMMA ClientsMoveAlone ==
    ASSUME TypeOK, SelectNext
    PROVE  \E c \in Client : \A d \in Client \ {c} : client'[d] = client[d]
BY DEF SelectNext, SelectList, SelectDaemonless, SelectFilter, SelectReserve, Launch, Leave,
       TypeOK

(* It enters the lease, leaves it, or does neither. *)
LEMMA SelectLeases ==
    ASSUME LeaseInv, AllKnown, ~Daemonless, SelectNext
    PROVE  Lease!LeaseNext \/ UNCHANGED Lease!leaseVars
<1> USE DEF LeaseInv
<1>1. PICK c \in Client : \A d \in Client \ {c} : client'[d] = client[d]
  BY ClientsMoveAlone DEF IInv
<1>2. UNCHANGED <<mig, worker, sup, converting>>
  BY SelectMoves
<1>3. LeaseRemaking' = LeaseRemaking
  BY <1>2 DEF LeaseRemaking, Remaking
<1> DEFINE In(d) == client[d].pc \in {"launching", "session"}
<1>4. \A a \in Account : Users(a) \ {c} = Users(a)' \ {c}
  BY <1>1 DEF Users
<1>5. \A a \in Account : c \in Users(a) <=> In(c) /\ client[c].acct = a
  BY DEF Users
<1>6. \A a \in Account : c \in Users(a)' <=> In(c)' /\ client'[c].acct = a
  BY DEF Users
<1>7. LeaseUsers' = [a \in Account |-> Users(a)']
  BY DEF LeaseUsers
<1>8. CASE In(c)' /\ ~In(c)
  <2> DEFINE b == client'[c].acct
  <2>1. b \in Account \ converting
    <3>1. client'[c].pc = "launching" /\ client'[c].acct \notin converting
      BY <1>8, SelectMoves DEF AllKnown
    <3>2. client'[c].acct \in Account
      BY <3>1, SelectKeepsIInv DEF IInv, Chosen
    <3> QED
      BY <3>1, <3>2
  <2>2. b \notin LeaseRemaking
    BY <2>1, RemakingIsClaimed DEF LeaseRemaking
  <2>3. \A a \in Account : Users(a)' = IF a = b THEN Users(a) \cup {c} ELSE Users(a)
    BY <1>4, <1>5, <1>6, <1>8
  <2>4. LeaseUsers' = [LeaseUsers EXCEPT ![b] = @ \cup {c}]
    BY <1>7, <2>1, <2>3 DEF LeaseUsers
  <2> QED
    BY <1>3, <2>1, <2>2, <2>4, LeaseSteps
<1>9. CASE In(c) /\ ~In(c)'
  <2> DEFINE b == client[c].acct
  <2>1. b \in Account
    BY <1>9 DEF IInv, Chosen
  <2>2. \A a \in Account : Users(a)' = IF a = b THEN Users(a) \ {c} ELSE Users(a)
    BY <1>4, <1>5, <1>6, <1>9
  <2>3. LeaseUsers' = [LeaseUsers EXCEPT ![b] = @ \ {c}]
    BY <1>7, <2>1, <2>2 DEF LeaseUsers
  <2>4. c \in LeaseUsers[b]
    BY <1>5, <1>9, <2>1 DEF LeaseUsers
  <2> QED
    BY <1>3, <2>1, <2>3, <2>4, LeaseSteps
<1>10. CASE (In(c) <=> In(c)')
  <2>1. In(c) => client'[c].acct = client[c].acct
    <3> SUFFICES ASSUME In(c) PROVE client'[c].acct = client[c].acct
      OBVIOUS
    <3>1. In(c)'
      BY <1>10
    <3>2. \/ client'[c] = client[c]
          \/ client'[c].pc = "launching" /\ client[c].pc = "ready"
          \/ client'[c].pc = "session" /\ client'[c].acct = client[c].acct
      BY <3>1, SelectMoves
    <3> QED
      BY <3>2
  <2>2. \A a \in Account : Users(a)' = Users(a)
    <3> SUFFICES ASSUME NEW a \in Account PROVE Users(a)' = Users(a)
      OBVIOUS
    <3>1. c \in Users(a) <=> c \in Users(a)'
      BY <1>5, <1>6, <1>10, <2>1
    <3> QED
      BY <1>4, <3>1
  <2> QED
    BY <1>3, <1>7, <2>2, LeaseSteps DEF LeaseUsers
<1> QED
  BY <1>8, <1>9, <1>10

(* Any other step begins remakes or ends some, never both. *)
RemakesMoveTogether ==
    LeaseRemaking \subseteq LeaseRemaking' \/ LeaseRemaking' \subseteq LeaseRemaking

LEMMA MigratesTogether ==
    ASSUME NEW m \in Migrator, UNCHANGED <<worker, sup>>,
           \A n \in Migrator \ {m} : mig'[n] = mig[n],
           \/ {mig[m].pc, mig'[m].pc} \cap {"cleared", "moved"} = {}
           \/ mig[m].pc \notin {"cleared", "moved"}
           \/ mig'[m].pc \notin {"cleared", "moved"}
           \/ mig'[m].acct = mig[m].acct /\ mig'[m].force = mig[m].force
    PROVE  RemakesMoveTogether
BY DEF RemakesMoveTogether, LeaseRemaking, Remaking

LEMMA WorkersTogether ==
    ASSUME NEW w \in Worker, UNCHANGED <<mig, sup>>,
           \A v \in Worker \ {w} : worker'[v] = worker[v],
           \/ worker[w].pc \notin {"unmount", "commit"}
           \/ worker'[w].pc \notin {"unmount", "commit"}
           \/ worker'[w].acct = worker[w].acct
    PROVE  RemakesMoveTogether
BY DEF RemakesMoveTogether, LeaseRemaking, Remaking

LEMMA SupTogether ==
    ASSUME UNCHANGED mig,
           \A w \in Worker : \/ worker'[w] = worker[w]
                             \/ /\ worker[w].pc \notin {"unmount", "commit"}
                                /\ worker'[w].pc \notin {"unmount", "commit"},
           \/ sup.pc \notin Retiring
           \/ sup'.pc \notin Retiring
           \/ sup'.ids = sup.ids
    PROVE  RemakesMoveTogether
BY DEF RemakesMoveTogether, LeaseRemaking, Remaking, Retiring

LEMMA HealTogether ==
    ASSUME TypeOK, NEW w \in Worker, HealStep(w)
    PROVE  RemakesMoveTogether
<1>1. UNCHANGED <<mig, sup>> /\ (Finish(w) \/ \E pc \in WorkerPc : Goto(w, pc))
  BY DEF HealStep, HealProbe, HealClear, HealMount, FallbackClaim, FallbackGate,
     FallbackUnmount, FallbackCommit, WorkerPc
<1>2. \A v \in Worker \ {w} : worker'[v] = worker[v]
  BY <1>1 DEF Finish, Goto, TypeOK
<1>3. worker'[w].pc = "idle" \/ worker'[w].acct = worker[w].acct
  <2>1. CASE Finish(w)
    BY <2>1 DEF Finish, IdleWorker, TypeOK
  <2>2. ASSUME NEW pc \in WorkerPc, Goto(w, pc)
        PROVE  worker'[w].acct = worker[w].acct
    BY <2>2, WorkerGoto DEF Goto, TypeOK
  <2> QED
    BY <1>1, <2>1, <2>2
<1>4. \/ worker[w].pc \notin {"unmount", "commit"}
      \/ worker'[w].pc \notin {"unmount", "commit"}
      \/ worker'[w].acct = worker[w].acct
  BY <1>3
<1>5. UNCHANGED <<mig, sup>>
  BY <1>1
<1> HIDE DEF HealStep
<1> QED
  BY <1>2, <1>4, <1>5, WorkersTogether

LEMMA OthersTogether ==
    ASSUME IInv, MigrateNext \/ LoopStep \/ SupStep
    PROVE  RemakesMoveTogether
<1> USE DEF IInv
<1>1. CASE MigrateNext
  <2>1. ASSUME NEW m \in Migrator, NEW a \in Account, NEW to \in Kind, NEW force \in BOOLEAN,
               MigrateClaim(m, a, to, force)
        PROVE  RemakesMoveTogether
    BY <2>1, MigratesTogether DEF MigrateClaim, TypeOK
  <2>2. ASSUME NEW m \in Migrator, MigrateStep(m)
        PROVE  RemakesMoveTogether
    <3>1. /\ UNCHANGED <<worker, sup>>
          /\ \/ mig' = [mig EXCEPT ![m] = IdleMig]
             \/ \E pc \in MigPc : mig' = [mig EXCEPT ![m].pc = pc]
      BY <2>2 DEF MigrateStep, MigrateGate, MigrateMove, MigrateCommit, MigrateRelease, MigPc
    <3>2. \A n \in Migrator \ {m} : mig'[n] = mig[n]
      BY <3>1 DEF TypeOK
    <3>3. \/ mig'[m].pc = "idle"
          \/ mig'[m].acct = mig[m].acct /\ mig'[m].force = mig[m].force
      BY <3>1 DEF IdleMig, TypeOK, MigState
    <3> QED
      BY <3>1, <3>2, <3>3, MigratesTogether
  <2> QED
    BY <1>1, <2>1, <2>2 DEF MigrateNext
<1>2. CASE LoopStep
  <2>1. CASE HealStep("loop")
    BY <2>1, HealTogether DEF Worker
  <2>2. CASE LoopList \/ LoopDone
    BY <2>2 DEF LoopList, LoopDone, RemakesMoveTogether, LeaseRemaking, Remaking
  <2>3. ASSUME NEW a \in Account, LoopClaim(a)
        PROVE  RemakesMoveTogether
    BY <2>3, WorkersTogether DEF LoopClaim, TypeOK, Worker
  <2>4. CASE Reconcile \/ Poll
    <3>1. UNCHANGED <<mig, sup>> /\ worker["loop"].pc = "claimed"
          /\ (Finish("loop") \/ Goto("loop", "heal") \/ Goto("loop", "clear"))
      BY <2>4 DEF Reconcile, Poll, HealFrom
    <3> QED
      BY <3>1, WorkersTogether DEF Finish, Goto, TypeOK, Worker
  <2> QED
    BY <1>2, <2>1, <2>2, <2>3, <2>4 DEF LoopStep
<1>3. CASE SupStep
  <2>1. CASE HealStep("sup")
    BY <2>1, HealTogether DEF Worker
  <2>2. CASE SupTick \/ SupDone \/ ReplaceClaim
    <3>1. UNCHANGED <<mig, worker>> /\ sup.pc \notin Retiring
      BY <2>2 DEF SupTick, SupDone, ReplaceClaim, Retiring
    <3> QED
      BY <3>1, SupTogether
  <2>3. ASSUME NEW a \in Account, SupClaim(a)
        PROVE  RemakesMoveTogether
    <3>1. UNCHANGED mig /\ sup.pc \notin Retiring
      BY <2>3 DEF SupClaim, Retiring
    <3>2. \A w \in Worker : \/ worker'[w] = worker[w]
                            \/ worker[w].pc = "idle" /\ worker'[w].pc = "claimed"
      BY <2>3 DEF SupClaim, TypeOK
    <3> QED
      BY <3>1, <3>2, SupTogether
  <2>4. CASE SupReread
    <3>1. UNCHANGED <<mig, sup>> /\ worker["sup"].pc = "claimed"
          /\ (Finish("sup") \/ Goto("sup", "heal"))
      BY <2>4 DEF SupReread
    <3> QED
      BY <3>1, WorkersTogether DEF Finish, Goto, TypeOK, Worker
  <2>5. CASE ReplaceGate \/ ReplaceShutdown \/ ReplaceSpawn \/ ReplaceEnd
    <3>1. /\ UNCHANGED <<mig, worker>>
          /\ \/ sup' = IdleSup
             \/ \E pc \in SupPc : sup' = [sup EXCEPT !.pc = pc]
             \/ sup' = [sup EXCEPT !.pc = "remount", !.todo = sup.ids]
      BY <2>5 DEF ReplaceGate, ReplaceShutdown, ReplaceSpawn, ReplaceEnd, ReplaceRelease,
         SupPc, ReplacePc
    <3>2. sup'.pc \notin Retiring \/ sup'.ids = sup.ids
      <4>1. IdleSup.pc \notin Retiring
        BY DEF IdleSup, Retiring
      <4>2. \A pc \in SupPc : [sup EXCEPT !.pc = pc].ids = sup.ids
        BY DEF TypeOK, SupState
      <4>3. [sup EXCEPT !.pc = "remount", !.todo = sup.ids].ids = sup.ids
        BY DEF TypeOK, SupState
      <4> QED
        BY <3>1, <4>1, <4>2, <4>3
    <3> QED
      BY <3>1, <3>2, SupTogether
  <2>6. ASSUME NEW a \in Account, ReplaceRemount(a)
        PROVE  RemakesMoveTogether
    <3>1. UNCHANGED mig /\ sup'.ids = sup.ids
      BY <2>6 DEF ReplaceRemount, TypeOK, SupState
    <3>2. \A w \in Worker : \/ worker'[w] = worker[w]
                            \/ worker[w].pc = "idle" /\ worker'[w].pc = "heal"
      BY <2>6 DEF ReplaceRemount, TypeOK
    <3> QED
      BY <3>1, <3>2, SupTogether
  <2> QED
    BY <1>3, <2>1, <2>2, <2>3, <2>4, <2>5, <2>6 DEF SupStep, ReplaceStep
<1> QED
  BY <1>1, <1>2, <1>3

(* What begins to be remade is free then: the next state shows it. *)
LEMMA DaemonLeases ==
    ASSUME IInv, AllKnown, MigrateNext \/ LoopStep \/ SupStep, NoRemakeUnderClient'
    PROVE  Lease!LeaseNext
<1>1. LeaseUsers' = LeaseUsers
  BY OthersLeaveClients DEF LeaseUsers, Users
<1>2. CASE LeaseRemaking \subseteq LeaseRemaking'
  <2> DEFINE S == LeaseRemaking' \ LeaseRemaking
  <2>1. S \in SUBSET Account
    BY DEF LeaseRemaking
  <2>2. \A a \in S : LeaseUsers[a] = {}
    <3>1. \A a \in S : LeaseUsers'[a] = {}
      BY OthersLeaveClients DEF LeaseRemaking, LeaseUsers, NoRemakeUnderClient, AllKnown, Users
    <3> QED
      BY <1>1, <3>1
  <2>3. LeaseRemaking' = LeaseRemaking \cup S
    BY <1>2
  <2> HIDE DEF S
  <2> QED
    BY <1>1, <2>1, <2>2, <2>3, LeaseSteps
<1>3. CASE LeaseRemaking' \subseteq LeaseRemaking
  <2> DEFINE S == LeaseRemaking \ LeaseRemaking'
  <2>1. S \in SUBSET Account /\ S \subseteq LeaseRemaking
    BY DEF LeaseRemaking
  <2>2. LeaseRemaking' = LeaseRemaking \ S
    BY <1>3
  <2> HIDE DEF S
  <2> QED
    BY <1>1, <2>1, <2>2, LeaseSteps
<1> QED
  BY <1>2, <1>3, OthersTogether DEF RemakesMoveTogether

(* Where every client asks and the daemon is never killed (else it does not *)
(* know of every claude), the claims implement the lease: every             *)
(* step of every select, migrate, loop and supervisor enters it, leaves it, *)
(* begins to remake directories that nobody uses, ends that, or leaves the  *)
(* lease alone.                                                             *)
THEOREM ClaimsAreLeases ==
    ASSUME ~Daemonless, MaxRestarts = 0
    PROVE  Spec => ImplementsLease
<1>1. Init => Lease!LeaseInit
  <2>1. Init => LeaseUsers = [a \in Account |-> {}] /\ LeaseRemaking = {}
    BY DEF Init, LeaseUsers, LeaseRemaking, Users, Remaking, IdleClient, IdleMig, IdleWorker,
       IdleSup, Worker
  <2> QED
    BY <2>1, LeaseSteps
<1>2. LeaseInv /\ AllKnown /\ NoRemakeUnderClient' /\ [Next]_vars => [Lease!LeaseNext]_(Lease!leaseVars)
  <2>1. ASSUME UNCHANGED vars PROVE UNCHANGED Lease!leaseVars
    <3>1. LeaseUsers' = LeaseUsers /\ LeaseRemaking' = LeaseRemaking
      BY <2>1 DEF vars, actorVars, LeaseUsers, LeaseRemaking, Users, Remaking
    <3> QED
      BY <3>1, LeaseSteps
  <2>2. ASSUME LeaseInv, EnvNext PROVE UNCHANGED Lease!leaseVars
    <3>1. ~Restart
      BY <2>2 DEF Restart, LeaseInv, IInv, TypeOK
    <3>2. UNCHANGED actorVars
      BY <2>2, <3>1 DEF EnvNext, HolderDies, Mature, Expire, actorVars
    <3>3. LeaseUsers' = LeaseUsers /\ LeaseRemaking' = LeaseRemaking
      BY <3>2 DEF actorVars, LeaseUsers, LeaseRemaking, Users, Remaking
    <3> QED
      BY <3>3, LeaseSteps
  <2> QED
    BY <2>1, <2>2, SelectLeases, DaemonLeases DEF LeaseInv, Next
<1>3. Init => AllKnown
  BY DEF Init, AllKnown, IdleClient
<1>4. IInv /\ AllKnown /\ [Next]_vars => AllKnown'
  <2> SUFFICES ASSUME IInv, AllKnown, [Next]_vars PROVE AllKnown'
    OBVIOUS
  <2>1. CASE UNCHANGED vars
    BY <2>1 DEF vars, actorVars, AllKnown
  <2>2. CASE Next
    BY <2>2, KnownStep
  <2> QED
    BY <2>1, <2>2
<1> QED
  BY <1>1, <1>2, <1>3, <1>4, Claims, LeaseHeld, NoRemakeUnderClaude, PTL
  DEF Spec, ImplementsLease, Lease!LeaseSpec

-----------------------------------------------------------------------------
(* A claude keeps the mirror it runs in.                                   *)

(* Who takes a live mirror of a fuse row down. *)
Unmounts(a) ==
    \/ Remaking(a)
    \/ \E m \in Migrator : mig[m].acct = a /\ mig[m].force
    \/ worker["loop"].acct = a /\ worker["loop"].kind # row[a]
    \/ \E w \in Worker : worker[w].acct = a /\ worker[w].pc = "clear"
    \/ sup.pc = "shutdown"

LEMMA MigrateUnmounts ==
    ASSUME TypeOK, NEW a \in Account, mirror[a] = "live", mirror'[a] = "none",
           NEW m \in Migrator, MigrateMove(m) \/ MigrateCommit(m)
    PROVE  Unmounts(a)
<1>1. mig[m].acct = a
  BY DEF MigrateMove, MigrateCommit, TypeOK
<1>2. mig[m].pc \in {"cleared", "moved"}
  BY DEF MigrateMove, MigrateCommit
<1> QED
  BY <1>1, <1>2 DEF Unmounts, Remaking

LEMMA HealUnmounts ==
    ASSUME TypeOK, NEW a \in Account, mirror[a] = "live", mirror'[a] = "none",
           NEW w \in Worker, HealStep(w)
    PROVE  Unmounts(a)
<1>1. ~HealProbe(w) /\ ~HealMount(w)
  BY DEF HealProbe, HealMount, TypeOK, dirVars
<1>5. CASE HealClear(w)
  BY <1>5 DEF HealClear, Unmounts, TypeOK
<1>2. ~FallbackClaim(w) /\ ~FallbackGate(w) /\ ~FallbackCommit(w)
  BY DEF FallbackClaim, FallbackGate, FallbackCommit, dirVars
<1>3. CASE FallbackUnmount(w)
  <2>1. worker[w].acct = a /\ worker[w].pc = "unmount"
    BY <1>3 DEF FallbackUnmount, TypeOK
  <2> QED
    BY <2>1 DEF Unmounts, Remaking
<1> QED
  BY <1>1, <1>2, <1>3, <1>5 DEF HealStep

LEMMA LoopUnmounts ==
    ASSUME TypeOK, NEW a \in Account, row[a] = "fuse", mirror[a] = "live",
           mirror'[a] = "none", LoopStep
    PROVE  Unmounts(a)
<1>1. CASE HealStep("loop")
  BY <1>1, HealUnmounts DEF Worker
<1>2. CASE Reconcile
  <2>1. worker["loop"].acct = a /\ worker["loop"].kind = "symlink"
    BY <1>2 DEF Reconcile, TypeOK
  <2> QED
    BY <2>1 DEF Unmounts
<1>3. LoopList \/ Poll \/ LoopDone \/ (\E b \in Account : LoopClaim(b)) => UNCHANGED mirror
  BY DEF LoopList, Poll, LoopDone, LoopClaim, dirVars
<1> QED
  BY <1>1, <1>2, <1>3 DEF LoopStep

LEMMA SupUnmounts ==
    ASSUME TypeOK, NEW a \in Account, mirror[a] = "live", mirror'[a] = "none", SupStep
    PROVE  Unmounts(a)
<1>1. CASE HealStep("sup")
  BY <1>1, HealUnmounts DEF Worker
<1>2. CASE ReplaceShutdown
  BY <1>2 DEF ReplaceShutdown, Unmounts
<1>3. ReplaceStep => ReplaceShutdown \/ UNCHANGED mirror
  BY DEF ReplaceStep, ReplaceClaim, ReplaceGate, ReplaceSpawn, ReplaceEnd, ReplaceRemount, dirVars
<1>4. SupTick \/ SupReread \/ SupDone \/ (\E b \in Account : SupClaim(b)) => UNCHANGED mirror
  BY DEF SupTick, SupReread, SupDone, SupClaim, dirVars
<1> QED
  BY <1>1, <1>2, <1>3, <1>4 DEF SupStep

LEMMA WhoUnmounts ==
    ASSUME TypeOK, NEW a \in Account, row[a] = "fuse", mirror[a] = "live",
           mirror'[a] = "none", Next
    PROVE  Unmounts(a)
<1>1. SelectNext => UNCHANGED mirror
  BY DEF SelectNext, SelectList, SelectDaemonless, SelectFilter, SelectReserve, Launch, Leave,
     dirVars
<1>2. EnvNext => mirror'[a] # "none"
  BY DEF EnvNext, HolderDies, Mature, Restart, Expire, dirVars
<1>3. ASSUME MigrateNext PROVE Unmounts(a)
  <2>1. PICK m \in Migrator :
            \/ MigrateStep(m)
            \/ \E b \in Account, to \in Kind, force \in BOOLEAN : MigrateClaim(m, b, to, force)
    BY <1>3 DEF MigrateNext
  <2>2. MigrateMove(m) \/ MigrateCommit(m) \/ UNCHANGED mirror
    BY <2>1 DEF MigrateStep, MigrateGate, MigrateClaim, dirVars
  <2> QED
    BY <2>2, MigrateUnmounts
<1> QED
  BY <1>1, <1>2, <1>3, LoopUnmounts, SupUnmounts DEF Next

LEMMA RowsHeld == Spec => []RowsFenced
<1>1. Init => RowsFenced
  BY DEF Init, RowsFenced, ConversionsFenced, RowsStable, IdleSup, ReplacePc, Retiring
<1>2. IInv /\ RowsFenced /\ [Next]_vars => RowsFenced'
  <2>1. RowsFenced /\ UNCHANGED vars => RowsFenced'
    BY DEF vars, dirVars, actorVars, RowsFenced, ConversionsFenced, RowsStable, FuseRows
  <2> QED
    BY <2>1, RowsStep
<1> QED
  BY <1>1, <1>2, Claims, PTL DEF Spec

(* A claude the daemon can know of keeps its live mirror, across restarts   *)
(* and whoever does without the daemon, but for a forced migrate, for a     *)
(* loop that acts on a row it listed before the row changed, and for a heal *)
(* to which the mirror had read dead: the only ones that unmount without    *)
(* having found the directory idle.                                         *)
THEOREM SessionsKeepMirrors == Spec => SessionKeepsMirror
<1> DEFINE Keeps ==
      \A c \in Client : LET a == client[c].acct IN
         /\ client[c].pc = "session" /\ client'[c].pc = "session" /\ client[c].known = "yes"
         /\ row[a] = "fuse" /\ mirror[a] = "live" /\ mirror'[a] = "none"
         => \/ \E m \in Migrator : mig[m].acct = a /\ mig[m].force
            \/ worker["loop"].acct = a /\ worker["loop"].kind # row[a]
            \/ \E w \in Worker : worker[w].acct = a /\ worker[w].pc = "clear"
<1>1. IInv /\ NoRemakeUnderClient /\ RowsFenced /\ [Next]_vars => [Keeps]_vars
  <2> SUFFICES ASSUME IInv, NoRemakeUnderClient, RowsFenced, Next
               PROVE  Keeps
    OBVIOUS
  <2> SUFFICES ASSUME NEW c \in Client, client[c].pc = "session", client[c].known = "yes",
                      row[client[c].acct] = "fuse", mirror[client[c].acct] = "live",
                      mirror'[client[c].acct] = "none"
               PROVE  \/ \E m \in Migrator : mig[m].acct = client[c].acct /\ mig[m].force
                      \/ /\ worker["loop"].acct = client[c].acct
                         /\ worker["loop"].kind # row[client[c].acct]
                      \/ \E w \in Worker : /\ worker[w].acct = client[c].acct
                                           /\ worker[w].pc = "clear"
    OBVIOUS
  <2>1. client[c].acct \in Account
    BY DEF IInv, Chosen
  <2>2. c \in Users(client[c].acct)
    BY DEF Users
  <2>3. ~Remaking(client[c].acct)
    BY <2>1, <2>2 DEF NoRemakeUnderClient
  <2>4. sup.pc # "shutdown"
    BY <2>1, <2>3 DEF RowsFenced, RowsStable, Retiring, FuseRows, Remaking
  <2> QED
    BY <2>1, <2>3, <2>4, WhoUnmounts DEF Unmounts, IInv
<1> QED
  BY <1>1, Claims, NoRemakeUnderClaude, RowsHeld, PTL DEF Spec, SessionKeepsMirror

=============================================================================
