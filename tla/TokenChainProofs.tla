--------------------------- MODULE TokenChainProofs ---------------------------
(***************************************************************************)
(* Proofs about TokenChain for any number of preflights, ccp processes and *)
(* claudes, and any bound on credentials and failures.                     *)
(***************************************************************************)
EXTENDS TokenChain, TLAPS

(* A worker between its read and its write. *)
Critical == {"adopt", "post", "save", "usage"}

Sessions == {c \in Claude : session[c] # "none"}

(* Exactly the worker in the critical section has the lock. *)
LockHeld == \A w \in Worker : work[w].pc \in Critical <=> lock = w

OneRotates ==
    \A c, d \in Claude : session[c] = "rotating" /\ session[d] = "rotating" => c = d

(* Who may refresh has seen all claudes but those it could not see. *)
Asked ==
    \A w \in Worker :
        /\ work[w].allow => Sessions \subseteq work[w].unseen
        /\ work[w].pc \in {"adopt", "post"} => work[w].allow
        /\ work[w].pc = "wait" /\ work[w].job = "adopt" => work[w].allow
        /\ work[w].pc = "idle" => ~work[w].allow

(* With nothing to blame, whoever is at work knows the newest token. *)
Blameless ==
    /\ Rotating => held = issued /\ lock = None
    /\ \A w \in Worker : work[w].pc = "save" => work[w].new = issued
    /\ \A w \in Worker : work[w].pc \in Critical \ {"save"} => work[w].cred = stored
    /\ Whole \/ Rotating \/ \E w \in Worker : work[w].pc = "save"

ChainInv == LockHeld /\ OneRotates /\ Asked /\ (excuse = {} => Blameless)

IInv == TypeOK /\ ChainInv

-----------------------------------------------------------------------------
(* What the helpers of the actions do. *)

LEMMA NoneNoWorker == None \notin Worker /\ None \notin Nat
BY ActorAssumption DEF Worker

LEMMA StepFields ==
    ASSUME TypeOK, NEW w \in Worker, NEW x \in WorkState, Step(w, x)
    PROVE  /\ work' \in [Worker -> WorkState]
           /\ work'[w] = x
           /\ \A v \in Worker : v # w => work'[v] = work[v]
BY DEF Step, TypeOK

LEMMA IdleFields == Idle \in WorkState /\ Idle.pc = "idle" /\ ~Idle.allow
BY DEF Idle, WorkState, Pc, Job

LEMMA AtFields ==
    ASSUME TypeOK, NEW w \in Worker, NEW pc \in Pc
    PROVE  /\ At(w, pc) \in WorkState
           /\ At(w, pc).pc = pc /\ At(w, pc).job = work[w].job
           /\ At(w, pc).allow = work[w].allow /\ At(w, pc).unseen = work[w].unseen
           /\ At(w, pc).cred = work[w].cred /\ At(w, pc).new = work[w].new
           /\ At(w, pc).then = work[w].then
<1>1. work[w] \in WorkState
  BY DEF TypeOK
<1> QED
  BY <1>1 DEF At, WorkState

LEMMA NextJobFields ==
    ASSUME TypeOK, NEW w \in Worker
    PROVE  /\ NextJob(w) \in WorkState
           /\ NextJob(w).pc \in {"idle", "wait", "scan", "launch"}
           /\ NextJob(w).pc = "launch" => w \in Cli
           /\ NextJob(w).pc = "wait" => NextJob(w).job = "sample"
           /\ NextJob(w).allow =>
                NextJob(w).pc = "wait" /\ work[w].allow /\ NextJob(w).unseen = work[w].unseen
<1>1. At(w, "wait") \in WorkState /\ At(w, "wait").pc = "wait"
      /\ At(w, "wait").allow = work[w].allow /\ At(w, "wait").unseen = work[w].unseen
  BY AtFields DEF Pc
<1>2. CASE work[w].job = "adopt"
  BY <1>1, <1>2 DEF NextJob, WorkState, Job
<1>3. CASE work[w].job # "adopt"
  BY <1>3 DEF NextJob, WorkState, Idle, Pc, Job
<1> QED
  BY <1>2, <1>3

(* A scan and what a worker makes of it. *)
LEMMA LookedFields ==
    ASSUME TypeOK, NEW sawNone \in BOOLEAN, NEW unseen \in SUBSET Claude,
           NEW pc \in Pc, NEW job \in Job
    PROVE  /\ Looked(sawNone, unseen) \in WorkState
           /\ [Looked(sawNone, unseen) EXCEPT !.pc = pc, !.job = job] \in WorkState
           /\ [Looked(sawNone, unseen) EXCEPT !.pc = pc] \in WorkState
           /\ Looked(sawNone, unseen).allow = sawNone
           /\ Looked(sawNone, unseen).unseen = unseen
BY DEF Looked, Idle, WorkState, Pc, Job

LEMMA ScanSees ==
    ASSUME TypeOK, NEW sawNone \in BOOLEAN, NEW unseen \in SUBSET Claude, Scan(sawNone, unseen)
    PROVE  /\ sawNone => Sessions \subseteq unseen
           /\ faults' \in Nat
<1>1. faults' \in Nat
  <2>1. faults' = faults \/ Fault
    BY Zenon DEF Scan
  <2> QED
    BY <2>1 DEF TypeOK, Fault
<1>2. ASSUME sawNone, \A c \in Claude : ~Running(c),
             unseen = {c \in Claude : session[c] = "launching"}
      PROVE  Sessions \subseteq unseen
  BY <1>2 DEF Running, Sessions, TypeOK
<1>3. sawNone => \/ /\ \A c \in Claude : ~Running(c)
                    /\ unseen = {c \in Claude : session[c] = "launching"}
                 \/ unseen = Sessions
  BY Zenon DEF Scan, Sessions
<1> QED
  BY <1>1, <1>2, <1>3

LEMMA GoneFields ==
    ASSUME TypeOK, NEW c \in Claude
    PROVE  /\ Overlooked(c) \in [Worker -> WorkState]
           /\ \A w \in Worker :
                /\ Overlooked(c)[w].pc = work[w].pc /\ Overlooked(c)[w].job = work[w].job
                /\ Overlooked(c)[w].allow = work[w].allow
                /\ Overlooked(c)[w].cred = work[w].cred /\ Overlooked(c)[w].new = work[w].new
                /\ Overlooked(c)[w].unseen =
                     IF work[w].pc = "idle" THEN work[w].unseen ELSE work[w].unseen \cup {c}
           /\ Vanishes(c) => work' \in [Worker -> WorkState]
           /\ Vanishes(c) => \A w \in Worker :
                /\ work'[w].pc = work[w].pc /\ work'[w].job = work[w].job
                /\ work'[w].allow = work[w].allow
                /\ work'[w].cred = work[w].cred /\ work'[w].new = work[w].new
                /\ work'[w].unseen = work[w].unseen \ {c}
<1>1. \A w \in Worker : work[w] \in WorkState
  BY DEF TypeOK
<1> QED
  BY <1>1 DEF Overlooked, Vanishes, WorkState

-----------------------------------------------------------------------------
(* Types.                                                                  *)

LEMMA ScanTypes ==
    ASSUME TypeOK,
           PollScan \/ PollDecide \/ \E w \in Worker : PreflightScan(w) \/ CliSample(w) \/ CliPrepare(w)
    PROVE  TypeOK'
<1>1. CASE PollScan
  <2>1. PICK sawNone \in BOOLEAN, unseen \in SUBSET Claude :
          /\ Scan(sawNone, unseen)
          /\ Step(Poll, [Looked(sawNone, unseen) EXCEPT !.pc = "decide"])
    BY <1>1 DEF PollScan
  <2>2. Poll \in Worker /\ [Looked(sawNone, unseen) EXCEPT !.pc = "decide"] \in WorkState
    BY LookedFields DEF Worker, Pc, Job
  <2>3. [Looked(sawNone, unseen) EXCEPT !.pc = "decide"].pc = "decide"
    BY DEF Looked, Idle
  <2> QED
    BY <1>1, <2>1, <2>2, <2>3, StepFields, ScanSees DEF TypeOK, PollScan, chainVars, sessionVars
<1>2. CASE PollDecide
  <2> DEFINE idle == AccountIdle(work[Poll].allow)
             job == IF idle THEN "adopt" ELSE "sample"
             unseen == IF reserved THEN {c \in At(Poll, "wait").unseen : session[c] # "launching"}
                                   ELSE At(Poll, "wait").unseen
             x == [At(Poll, "wait") EXCEPT !.allow = idle, !.job = job, !.unseen = unseen]
  <2>1. Step(Poll, Idle) \/ Step(Poll, x)
    BY <1>2 DEF PollDecide
  <2>2. Poll \in Worker /\ work[Poll] \in WorkState
    BY DEF Worker, TypeOK
  <2>3. idle \in BOOLEAN /\ job \in Job
    BY <2>2 DEF AccountIdle, WorkState, TypeOK, Job
  <2>4. unseen \in SUBSET Claude
    BY <2>2 DEF At, WorkState
  <2>5. At(Poll, "wait") \in WorkState /\ At(Poll, "wait").pc = "wait"
    BY <2>2, AtFields DEF Pc
  <2> HIDE DEF idle, job, unseen
  <2>6. x \in WorkState /\ x.pc # "launch"
    BY <2>3, <2>4, <2>5 DEF WorkState
  <2> HIDE DEF x
  <2> QED
    BY <1>2, <2>1, <2>2, <2>6, StepFields, IdleFields DEF PollDecide, TypeOK, chainVars, sessionVars
<1>3. ASSUME NEW w \in Worker, PreflightScan(w)
      PROVE  TypeOK'
  <2>1. PICK sawNone \in BOOLEAN, unseen \in SUBSET Claude :
          /\ Scan(sawNone, unseen)
          /\ Step(w, IF sawNone THEN [Looked(sawNone, unseen) EXCEPT !.pc = "wait", !.job = "preflight"]
                     ELSE IF w \in Cli THEN [Idle EXCEPT !.pc = "launch"]
                     ELSE Idle)
    BY <1>3 DEF PreflightScan
  <2>2. [Looked(sawNone, unseen) EXCEPT !.pc = "wait", !.job = "preflight"] \in WorkState
    BY LookedFields DEF Pc, Job
  <2>3. [Looked(sawNone, unseen) EXCEPT !.pc = "wait", !.job = "preflight"].pc = "wait"
    BY DEF Looked, Idle
  <2>4. [Idle EXCEPT !.pc = "launch"] \in WorkState /\ [Idle EXCEPT !.pc = "launch"].pc = "launch"
    BY DEF Idle, WorkState, Pc, Job
  <2> DEFINE x == IF sawNone THEN [Looked(sawNone, unseen) EXCEPT !.pc = "wait", !.job = "preflight"]
                  ELSE IF w \in Cli THEN [Idle EXCEPT !.pc = "launch"]
                  ELSE Idle
  <2>5. x \in WorkState /\ (x.pc = "launch" => w \in Cli)
    BY <2>2, <2>3, <2>4, IdleFields
  <2> HIDE DEF x
  <2>6. Step(w, x)
    BY <2>1 DEF x
  <2> QED
    BY <1>3, <2>1, <2>5, <2>6, StepFields, ScanSees
       DEF TypeOK, PreflightScan, chainVars, sessionVars
<1>4. ASSUME NEW w \in Worker, CliSample(w)
      PROVE  TypeOK'
  <2>1. PICK sawNone \in BOOLEAN, unseen \in SUBSET Claude, job \in {"sample", "select"} :
          /\ Scan(sawNone, unseen)
          /\ Step(w, [Looked(sawNone, unseen) EXCEPT !.pc = "wait", !.job = job])
    BY <1>4 DEF CliSample
  <2>2. [Looked(sawNone, unseen) EXCEPT !.pc = "wait", !.job = job] \in WorkState
    BY LookedFields DEF Pc, Job
  <2>3. [Looked(sawNone, unseen) EXCEPT !.pc = "wait", !.job = job].pc = "wait"
    BY DEF Looked, Idle
  <2> QED
    BY <1>4, <2>1, <2>2, <2>3, StepFields, ScanSees DEF TypeOK, CliSample, chainVars, sessionVars
<1>5. ASSUME NEW w \in Worker, CliPrepare(w)
      PROVE  TypeOK'
  <2>1. [Idle EXCEPT !.pc = "scan"] \in WorkState /\ [Idle EXCEPT !.pc = "scan"].pc = "scan"
    BY DEF Idle, WorkState, Pc, Job
  <2> QED
    BY <1>5, <2>1, StepFields DEF TypeOK, CliPrepare, chainVars
<1> QED
  BY <1>1, <1>2, <1>3, <1>4, <1>5

LEMMA BlameTypes ==
    ASSUME TypeOK, NEW blame \in SUBSET {"lost", "unsaved", "killed", "overlap"}, Settle(blame)
    PROVE  excuse' \subseteq {"lost", "unsaved", "killed", "overlap"}
BY DEF Settle, TypeOK

LEMMA LastTypes ==
    ASSUME TypeOK, NEW w \in Worker, NEW cred \in Cred \cup {None},
           Finish(w) \/ Proceed(w, cred), work[w].pc # "launch"
    PROVE  /\ work' \in [Worker -> WorkState]
           /\ \A v \in Worker : work'[v].pc = "launch" => v \in Cli
           /\ lock' \in Worker \cup {None}
<1>1. CASE Finish(w)
  BY <1>1, StepFields, NextJobFields DEF Finish, TypeOK
<1>2. CASE Proceed(w, cred) /\ ~Finish(w)
  <2> DEFINE x == [work[w] EXCEPT !.pc = "usage", !.cred = cred, !.new = None, !.then = "done"]
  <2>1. x \in WorkState /\ x.pc = "usage"
    BY DEF WorkState, TypeOK, Pc
  <2>2. Step(w, x) /\ lock' = lock
    BY <1>2 DEF Proceed
  <2> HIDE DEF x
  <2> QED
    BY <2>1, <2>2, StepFields DEF TypeOK
<1> QED
  BY <1>1, <1>2

LEMMA IssueTypes ==
    ASSUME TypeOK, NEW rotated \in BOOLEAN, Issue(rotated)
    PROVE  /\ issued' = issued + 1 /\ issued' \in Cred /\ valid' \in 0..issued'
           /\ valid' \in {valid, issued + 1}
BY BoundAssumption DEF Issue, TypeOK, Cred

LEMMA CycleTypes ==
    ASSUME TypeOK, NEW w \in Worker,
           \/ LockToAdopt(w) \/ WriteBack(w) \/ (\E nearExpiry \in BOOLEAN : LockToRefresh(w, nearExpiry))
           \/ GivesUp(w) \/ Post(w) \/ Save(w) \/ Usage(w)
    PROVE  TypeOK'
<1> USE DEF chainVars, sessionVars
<1>w. work[w] \in WorkState
  BY DEF TypeOK
<1>1. CASE LockToAdopt(w)
  <2>1. [At(w, "adopt") EXCEPT !.cred = stored] \in WorkState
        /\ [At(w, "adopt") EXCEPT !.cred = stored].pc = "adopt"
    BY <1>w DEF At, WorkState, Pc, TypeOK
  <2> QED
    BY <1>1, <2>1, StepFields DEF LockToAdopt, Enter, TypeOK
<1>2. CASE WriteBack(w)
  <2>1. stored' \in Cred \cup {None}
    BY <1>2, <1>w DEF WriteBack, WorkState, TypeOK
  <2> QED
    BY <1>2, <2>1, LastTypes, BlameTypes DEF WriteBack, TypeOK
<1>3. ASSUME NEW nearExpiry \in BOOLEAN, LockToRefresh(w, nearExpiry)
      PROVE  TypeOK'
  <2> DEFINE then == IF work[w].job = "preflight" THEN "done" ELSE "usage"
             refresh == nearExpiry /\ work[w].allow /\ stored # None
             x == [work[w] EXCEPT !.pc = IF refresh THEN "post" ELSE "usage",
                                  !.cred = stored, !.then = then]
  <2>1. x \in WorkState /\ x.pc # "launch"
    BY <1>w DEF WorkState, Pc, TypeOK
  <2>2. \/ Enter(w) /\ Step(w, x)
        \/ Step(w, NextJob(w)) /\ UNCHANGED <<lock, excuse>>
    BY <1>3 DEF LockToRefresh
  <2>3. UNCHANGED <<stored, issued, valid, sessionVars, faults>>
    BY <1>3 DEF LockToRefresh
  <2> HIDE DEF x
  <2>4. CASE Enter(w) /\ Step(w, x)
    BY <2>1, <2>3, <2>4, StepFields DEF Enter, TypeOK
  <2>5. CASE Step(w, NextJob(w)) /\ UNCHANGED <<lock, excuse>>
    BY <2>3, <2>5, StepFields, NextJobFields DEF TypeOK
  <2> QED
    BY <2>2, <2>4, <2>5
<1>4. CASE GivesUp(w)
  BY <1>4, StepFields, NextJobFields DEF GivesUp, TypeOK
<1>5. CASE Post(w)
  <2>0. UNCHANGED <<stored, sessionVars>> /\ work[w].pc = "post"
    BY <1>5 DEF Post
  <2>1. ASSUME NEW rotated \in BOOLEAN, Issue(rotated),
               Step(w, [At(w, "save") EXCEPT !.new = Renewed(rotated, issued + 1)]),
               UNCHANGED <<lock, excuse, faults>>
        PROVE  TypeOK'
    <3>1. [At(w, "save") EXCEPT !.new = Renewed(rotated, issued + 1)] \in WorkState
          /\ [At(w, "save") EXCEPT !.new = Renewed(rotated, issued + 1)].pc = "save"
      BY <1>w, <2>1, IssueTypes DEF At, WorkState, Pc, Renewed
    <3> QED
      BY <2>0, <2>1, <3>1, IssueTypes, StepFields DEF TypeOK
  <2>2. ASSUME UNCHANGED <<issued, valid, faults>>, Proceed(w, work[w].cred), Settle({})
        PROVE  TypeOK'
    BY <2>0, <1>w, <2>2, LastTypes, BlameTypes DEF TypeOK, WorkState
  <2>3. ASSUME Issue(TRUE), Fault, Proceed(w, work[w].cred), Settle({"lost"})
        PROVE  TypeOK'
    <3>1. work[w].cred \in Cred \cup {None} /\ faults' \in Nat
      BY <1>w, <2>3 DEF WorkState, Fault, TypeOK
    <3>2. issued' \in Cred /\ valid' \in 0..issued'
      BY <2>3, IssueTypes
    <3> QED
      BY <2>0, <2>3, <3>1, <3>2, LastTypes, BlameTypes DEF TypeOK
  <2> QED
    BY <1>5, <2>1, <2>2, <2>3 DEF Post
<1>6. CASE Save(w)
  <2>1. stored' \in Cred \cup {None} /\ faults' \in Nat
    BY <1>6, <1>w DEF Save, WorkState, TypeOK, Fault
  <2>2. \E cred \in Cred \cup {None} : Proceed(w, cred)
    BY <1>6, <1>w DEF Save, WorkState
  <2>3. Settle({}) \/ Settle({"unsaved"})
    BY <1>6 DEF Save
  <2> QED
    BY <1>6, <2>1, <2>2, <2>3, LastTypes, BlameTypes DEF Save, TypeOK
<1>7. CASE Usage(w)
  <2>1. CASE Finish(w) /\ Settle({})
    BY <1>7, <2>1, LastTypes, BlameTypes DEF Usage, TypeOK
  <2>2. CASE Step(w, At(w, "post")) /\ UNCHANGED <<lock, excuse>>
    BY <1>7, <2>2, AtFields, StepFields DEF Usage, TypeOK, Pc
  <2> QED
    BY <1>7, <2>1, <2>2 DEF Usage
<1> QED
  BY <1>1, <1>2, <1>3, <1>4, <1>5, <1>6, <1>7

LEMMA VanishTypes ==
    ASSUME TypeOK, NEW c \in Claude, Vanishes(c)
    PROVE  /\ session' \in [Claude -> {"none", "launching", "live", "rotating"}]
           /\ work' \in [Worker -> WorkState]
           /\ \A w \in Worker : work'[w].pc = "launch" => w \in Cli
<1>1. session' \in [Claude -> {"none", "launching", "live", "rotating"}]
  BY DEF Vanishes, TypeOK
<1>2. \A w \in Worker : work'[w].pc = work[w].pc
  BY GoneFields
<1> QED
  BY <1>1, <1>2, GoneFields DEF TypeOK

LEMMA ClaudeTypes ==
    ASSUME TypeOK, NEW c \in Claude, ClaudeStep(c) \/ \E w \in Worker : CliLaunch(w, c)
    PROVE  TypeOK'
<1> USE DEF chainVars, sessionVars
<1>1. ASSUME NEW p \in Preflight, SelectServed(p, c)
      PROVE  TypeOK'
  <2>1. [Idle EXCEPT !.pc = "scan"] \in WorkState /\ [Idle EXCEPT !.pc = "scan"].pc = "scan"
    BY DEF Idle, WorkState, Pc, Job
  <2>2. p \in Worker
    BY DEF Worker
  <2> QED
    BY <1>1, <2>1, <2>2, GoneFields DEF SelectServed, Appears, TypeOK
<1>2. ASSUME NEW w \in Worker, CliLaunch(w, c)
      PROVE  TypeOK'
  <2>1. \A v \in Worker : Overlooked(c)[v].pc = work[v].pc
    BY GoneFields
  <2>2. work' = [Overlooked(c) EXCEPT ![w] = Idle] /\ Overlooked(c) \in [Worker -> WorkState]
    BY <1>2, GoneFields DEF CliLaunch
  <2>3. \A v \in Worker : work'[v].pc = "launch" => v \in Cli
    BY <2>1, <2>2, IdleFields DEF TypeOK
  <2> QED
    BY <1>2, <2>2, <2>3, IdleFields DEF CliLaunch, Appears, TypeOK
<1>3. CASE Launch(c)
  BY <1>3, VanishTypes DEF Launch, TypeOK
<1>4. CASE Ends(c)
  BY <1>4, VanishTypes DEF Ends, TypeOK
<1>5. CASE Rotate(c)
  <2>1. CASE Accepts(stored)
    <3>1. PICK rotated \in BOOLEAN : Issue(rotated)
      BY <1>5, <2>1 DEF Rotate
    <3>2. issued' \in Cred /\ valid' \in 0..issued' /\ issued' = issued + 1
      BY <3>1, IssueTypes
    <3> QED
      BY <1>5, <2>1, <3>2 DEF Rotate, TypeOK
  <2>2. CASE ~Accepts(stored)
    BY <1>5, <2>2 DEF Rotate, TypeOK
  <2> QED
    BY <2>1, <2>2
<1>6. CASE Rotated(c)
  BY <1>6, BlameTypes, BoundAssumption DEF Rotated, TypeOK, Cred
<1>7. CASE Login(c)
  <2>1. issued' \in Cred /\ valid' \in 0..issued' /\ issued' = issued + 1
    BY <1>7, IssueTypes DEF Login
  <2> QED
    BY <1>7, <2>1, BlameTypes DEF Login, TypeOK
<1>8. CASE KillClaude(c)
  BY <1>8, VanishTypes, BoundAssumption DEF KillClaude, Fault, TypeOK, Cred
<1> QED
  BY <1>1, <1>2, <1>3, <1>4, <1>5, <1>6, <1>7, <1>8 DEF ClaudeStep

LEMMA KilledTypes ==
    ASSUME TypeOK, NEW S \in SUBSET Worker, Killed(S), reserved' \in BOOLEAN
    PROVE  TypeOK'
BY IdleFields DEF Killed, Fault, TypeOK

LEMMA TypesKept == TypeOK /\ [Next]_vars => TypeOK'
<1> SUFFICES ASSUME TypeOK, [Next]_vars
             PROVE  TypeOK'
  OBVIOUS
<1>1. CASE PollScan \/ PollDecide
  BY <1>1, ScanTypes
<1>2. CASE Expire
  BY <1>2 DEF Expire, TypeOK, chainVars
<1>3. CASE KillDaemon
  BY <1>3, KilledTypes DEF KillDaemon
<1>4. ASSUME NEW w \in Worker, WorkerStep(w)
      PROVE  TypeOK'
  <2>1. CASE CliStops(w)
    BY <2>1, IdleFields, StepFields DEF CliStops, TypeOK, chainVars, sessionVars
  <2>2. CASE KillCli(w)
    BY <2>2, KilledTypes DEF KillCli, TypeOK
  <2> QED
    BY <1>4, <2>1, <2>2, ScanTypes, CycleTypes, ClaudeTypes DEF WorkerStep
<1>5. ASSUME NEW c \in Claude, ClaudeStep(c)
      PROVE  TypeOK'
  BY <1>5, ClaudeTypes
<1>6. CASE UNCHANGED vars
  BY <1>6 DEF vars, chainVars, sessionVars, TypeOK
<1> QED
  BY <1>1, <1>2, <1>3, <1>4, <1>5, <1>6 DEF Next

-----------------------------------------------------------------------------
(* The lock, and who may refresh.                                          *)

Held == LockHeld /\ Asked

(* A worker that moves and takes or leaves the lock as it should.          *)
LEMMA MoveKeeps ==
    ASSUME TypeOK, Held, NEW w \in Worker, NEW x \in WorkState, Step(w, x), session' = session,
           x.pc \in Critical => lock \in {None, w} /\ lock' = w,
           x.pc \notin Critical => lock' = IF lock = w THEN None ELSE lock,
           x.allow => Sessions \subseteq x.unseen,
           x.pc \in {"adopt", "post"} \/ (x.pc = "wait" /\ x.job = "adopt") => x.allow,
           x.pc = "idle" => ~x.allow
    PROVE  Held'
<1>1. LockHeld'
  BY StepFields, NoneNoWorker DEF Held, LockHeld
<1>2. Asked'
  BY StepFields DEF Held, Asked, Sessions
<1> QED
  BY <1>1, <1>2 DEF Held

LEMMA ScanKeeps ==
    ASSUME TypeOK, Held,
           PollScan \/ PollDecide \/ \E w \in Worker : PreflightScan(w) \/ CliSample(w)
                                                       \/ CliPrepare(w) \/ CliStops(w)
    PROVE  Held'
<1> USE DEF sessionVars
<1>i. \A w \in Worker : work[w].pc \notin Critical => lock # w
  BY DEF Held, LockHeld
<1>1. CASE PollScan
  <2>1. PICK sawNone \in BOOLEAN, unseen \in SUBSET Claude :
          /\ Scan(sawNone, unseen)
          /\ Step(Poll, [Looked(sawNone, unseen) EXCEPT !.pc = "decide"])
    BY <1>1 DEF PollScan
  <2> DEFINE x == [Looked(sawNone, unseen) EXCEPT !.pc = "decide"]
  <2>2. x \in WorkState /\ x.pc = "decide" /\ x.allow = sawNone /\ x.unseen = unseen
    BY LookedFields DEF Pc, Looked, Idle, Job
  <2>3. Step(Poll, x)
    BY <2>1
  <2> HIDE DEF x
  <2> QED
    BY <1>1, <1>i, <2>1, <2>2, <2>3, ScanSees, MoveKeeps DEF PollScan, Critical, Worker
<1>2. CASE PollDecide
  <2> DEFINE idle == AccountIdle(work[Poll].allow)
             job == IF idle THEN "adopt" ELSE "sample"
             unseen == IF reserved THEN {c \in At(Poll, "wait").unseen : session[c] # "launching"}
                                   ELSE At(Poll, "wait").unseen
             x == [At(Poll, "wait") EXCEPT !.allow = idle, !.job = job, !.unseen = unseen]
  <2>1. Step(Poll, Idle) \/ Step(Poll, x)
    BY <1>2 DEF PollDecide
  <2>2. Poll \in Worker /\ work[Poll] \in WorkState
    BY DEF Worker, TypeOK
  <2>3. idle \in BOOLEAN /\ job \in Job /\ (job = "adopt" => idle)
    BY <2>2 DEF AccountIdle, WorkState, TypeOK, Job
  <2>4. unseen \in SUBSET Claude
    BY <2>2 DEF At, WorkState
  <2>5. At(Poll, "wait") \in WorkState /\ At(Poll, "wait").unseen = work[Poll].unseen
    BY <2>2, AtFields DEF Pc
  <2>6. idle => Sessions \subseteq unseen
    BY <2>2, <2>5 DEF AccountIdle, Held, Asked
  <2> HIDE DEF idle, job, unseen
  <2>7. x \in WorkState /\ x.pc = "wait" /\ x.allow = idle /\ x.job = job /\ x.unseen = unseen
    BY <2>3, <2>4, <2>5 DEF WorkState, At
  <2> HIDE DEF x
  <2>8. session' = session /\ lock' = lock /\ work[Poll].pc = "decide"
    BY <1>2 DEF PollDecide
  <2>9. CASE Step(Poll, Idle)
    BY <1>i, <2>2, <2>8, <2>9, IdleFields, MoveKeeps DEF Critical
  <2>10. CASE Step(Poll, x)
    BY <1>i, <2>2, <2>3, <2>6, <2>7, <2>8, <2>10, MoveKeeps DEF Critical
  <2> QED
    BY <2>1, <2>9, <2>10
<1>3. ASSUME NEW w \in Worker, PreflightScan(w)
      PROVE  Held'
  <2>1. PICK sawNone \in BOOLEAN, unseen \in SUBSET Claude :
          /\ Scan(sawNone, unseen)
          /\ Step(w, IF sawNone THEN [Looked(sawNone, unseen) EXCEPT !.pc = "wait", !.job = "preflight"]
                     ELSE IF w \in Cli THEN [Idle EXCEPT !.pc = "launch"]
                     ELSE Idle)
    BY <1>3 DEF PreflightScan
  <2> DEFINE y == [Looked(sawNone, unseen) EXCEPT !.pc = "wait", !.job = "preflight"]
             z == [Idle EXCEPT !.pc = "launch"]
  <2>2. y \in WorkState
    BY LookedFields DEF Pc, Job
  <2>3. y.pc = "wait" /\ y.job = "preflight" /\ y.allow = sawNone /\ y.unseen = unseen
    BY DEF Looked, Idle
  <2>4. z \in WorkState /\ z.pc = "launch" /\ ~z.allow
    BY DEF Idle, WorkState, Pc, Job
  <2>5. \/ sawNone /\ Step(w, y)
        \/ Step(w, z)
        \/ Step(w, Idle)
    BY <2>1
  <2>6. session' = session /\ lock' = lock /\ work[w].pc = "scan"
    BY <1>3 DEF PreflightScan
  <2> HIDE DEF y, z
  <2>7. CASE sawNone /\ Step(w, y)
    BY <1>i, <2>1, <2>2, <2>3, <2>6, <2>7, ScanSees, MoveKeeps DEF Critical
  <2>8. CASE Step(w, z)
    BY <1>i, <2>4, <2>6, <2>8, MoveKeeps DEF Critical
  <2>9. CASE Step(w, Idle)
    BY <1>i, <2>6, <2>9, IdleFields, MoveKeeps DEF Critical
  <2> QED
    BY <2>5, <2>7, <2>8, <2>9
<1>4. ASSUME NEW w \in Worker, CliSample(w)
      PROVE  Held'
  <2>1. PICK sawNone \in BOOLEAN, unseen \in SUBSET Claude, job \in {"sample", "select"} :
          /\ Scan(sawNone, unseen)
          /\ Step(w, [Looked(sawNone, unseen) EXCEPT !.pc = "wait", !.job = job])
    BY <1>4 DEF CliSample
  <2> DEFINE x == [Looked(sawNone, unseen) EXCEPT !.pc = "wait", !.job = job]
  <2>2. x \in WorkState
    BY LookedFields DEF Pc, Job
  <2>3. x.pc = "wait" /\ x.job = job /\ x.allow = sawNone /\ x.unseen = unseen
    BY DEF Looked, Idle
  <2>4. Step(w, x)
    BY <2>1
  <2> HIDE DEF x
  <2> QED
    BY <1>4, <1>i, <2>1, <2>2, <2>3, <2>4, ScanSees, MoveKeeps DEF CliSample, Critical
<1>5. ASSUME NEW w \in Worker, CliPrepare(w) \/ CliStops(w)
      PROVE  Held'
  <2> DEFINE z == [Idle EXCEPT !.pc = "scan"]
  <2>1. z \in WorkState /\ z.pc = "scan" /\ ~z.allow
    BY DEF Idle, WorkState, Pc, Job
  <2>2. Step(w, z) \/ Step(w, Idle)
    BY <1>5 DEF CliPrepare, CliStops
  <2>3. session' = session /\ lock' = lock /\ work[w].pc \notin Critical
    BY <1>5 DEF CliPrepare, CliStops, Critical
  <2> HIDE DEF z
  <2> QED
    BY <1>i, <2>1, <2>2, <2>3, IdleFields, MoveKeeps DEF Critical
<1> QED
  BY <1>1, <1>2, <1>3, <1>4, <1>5

(* The end of a cycle, or of one half of it.                               *)
LEMMA LastKeeps ==
    ASSUME TypeOK, Held, NEW w \in Worker, NEW cred \in Cred \cup {None},
           Finish(w) \/ Proceed(w, cred), work[w].pc \in Critical, session' = session
    PROVE  Held'
<1>0. lock = w /\ (work[w].allow => Sessions \subseteq work[w].unseen)
  BY DEF Held, LockHeld, Asked
<1>1. CASE Finish(w)
  <2>1. NextJob(w).pc \notin Critical /\ NextJob(w) \in WorkState
    BY NextJobFields DEF Critical
  <2>2. NextJob(w).allow => Sessions \subseteq NextJob(w).unseen
    BY <1>0, NextJobFields
  <2>3. ~(NextJob(w).pc = "wait" /\ NextJob(w).job = "adopt")
        /\ (NextJob(w).pc = "idle" => ~NextJob(w).allow)
    BY NextJobFields
  <2>4. Step(w, NextJob(w)) /\ lock' = None
    BY <1>1 DEF Finish
  <2> QED
    BY <1>0, <2>1, <2>2, <2>3, <2>4, MoveKeeps DEF Critical
<1>2. CASE Proceed(w, cred) /\ ~Finish(w)
  <2> DEFINE x == [work[w] EXCEPT !.pc = "usage", !.cred = cred, !.new = None, !.then = "done"]
  <2>0. work[w] \in WorkState
    BY DEF TypeOK
  <2>1. x \in WorkState /\ x.pc = "usage" /\ x.allow = work[w].allow /\ x.unseen = work[w].unseen
    BY <2>0 DEF WorkState, Pc
  <2>2. Step(w, x) /\ lock' = lock
    BY <1>2 DEF Proceed
  <2> HIDE DEF x
  <2> QED
    BY <1>0, <2>1, <2>2, MoveKeeps DEF Critical
<1> QED
  BY <1>1, <1>2

LEMMA CycleKeeps ==
    ASSUME TypeOK, Held, NEW w \in Worker,
           \/ LockToAdopt(w) \/ WriteBack(w) \/ (\E nearExpiry \in BOOLEAN : LockToRefresh(w, nearExpiry))
           \/ GivesUp(w) \/ Post(w) \/ Save(w) \/ Usage(w)
    PROVE  Held'
<1> USE DEF sessionVars
<1>w. work[w] \in WorkState /\ work[w].cred \in Cred \cup {None} /\ work[w].new \in Cred \cup {None}
  BY DEF TypeOK, WorkState
<1>a. work[w].allow => Sessions \subseteq work[w].unseen
  BY DEF Held, Asked
<1>l. work[w].pc \in Critical <=> lock = w
  BY DEF Held, LockHeld
<1>1. CASE LockToAdopt(w)
  <2> DEFINE x == [At(w, "adopt") EXCEPT !.cred = stored]
  <2>1. x \in WorkState /\ x.pc = "adopt" /\ x.allow = work[w].allow /\ x.unseen = work[w].unseen
    BY <1>w DEF At, WorkState, Pc, TypeOK
  <2>2. work[w].allow
    BY <1>1 DEF Held, Asked, LockToAdopt
  <2>3. Step(w, x) /\ lock = None /\ lock' = w /\ session' = session
    BY <1>1 DEF LockToAdopt, Enter, LockFree
  <2> HIDE DEF x
  <2> QED
    BY <1>a, <2>1, <2>2, <2>3, MoveKeeps DEF Critical
<1>2. CASE WriteBack(w)
  BY <1>2, <1>w, LastKeeps DEF WriteBack, Critical
<1>3. ASSUME NEW nearExpiry \in BOOLEAN, LockToRefresh(w, nearExpiry)
      PROVE  Held'
  <2> DEFINE then == IF work[w].job = "preflight" THEN "done" ELSE "usage"
             refresh == nearExpiry /\ work[w].allow /\ stored # None
             x == [work[w] EXCEPT !.pc = IF refresh THEN "post" ELSE "usage",
                                  !.cred = stored, !.then = then]
  <2>1. x \in WorkState /\ x.pc \in {"post", "usage"} /\ (x.pc = "post" => work[w].allow)
        /\ x.allow = work[w].allow /\ x.unseen = work[w].unseen
    BY <1>w DEF WorkState, Pc, TypeOK
  <2>2. \/ Enter(w) /\ Step(w, x)
        \/ Step(w, NextJob(w)) /\ UNCHANGED <<lock, excuse>>
    BY <1>3 DEF LockToRefresh
  <2>3. lock = None /\ session' = session
    BY <1>3 DEF LockToRefresh, LockFree
  <2> HIDE DEF x
  <2>4. CASE Enter(w) /\ Step(w, x)
    BY <1>a, <2>1, <2>3, <2>4, MoveKeeps DEF Enter, Critical
  <2>5. CASE Step(w, NextJob(w)) /\ UNCHANGED <<lock, excuse>>
    BY <1>a, <2>3, <2>5, MoveKeeps, NextJobFields, NoneNoWorker DEF Critical
  <2> QED
    BY <2>2, <2>4, <2>5
<1>4. CASE GivesUp(w)
  <2>1. Step(w, NextJob(w)) /\ lock' = lock /\ session' = session /\ lock # w
    BY <1>4, <1>l DEF GivesUp, Critical
  <2> QED
    BY <1>a, <2>1, MoveKeeps, NextJobFields DEF Critical
<1>5. CASE Post(w)
  <2>1. session' = session /\ work[w].pc = "post" /\ lock = w /\ work[w].allow
    BY <1>5, <1>l DEF Post, Critical, Held, Asked
  <2>2. ASSUME NEW rotated \in BOOLEAN, Issue(rotated),
               Step(w, [At(w, "save") EXCEPT !.new = Renewed(rotated, issued + 1)]),
               UNCHANGED <<lock, excuse, faults>>
        PROVE  Held'
    <3> DEFINE x == [At(w, "save") EXCEPT !.new = Renewed(rotated, issued + 1)]
    <3>1. x \in WorkState /\ x.pc = "save" /\ x.allow = work[w].allow /\ x.unseen = work[w].unseen
      BY <1>w, <2>2, IssueTypes DEF At, WorkState, Pc, Renewed
    <3>2. Step(w, x) /\ lock' = w
      BY <2>1, <2>2
    <3> HIDE DEF x
    <3> QED
      BY <1>a, <2>1, <3>1, <3>2, MoveKeeps DEF Critical
  <2>3. ASSUME Proceed(w, work[w].cred)
        PROVE  Held'
    BY <1>w, <2>1, <2>3, LastKeeps DEF Critical
  <2> QED
    BY <1>5, <2>2, <2>3 DEF Post
<1>6. CASE Save(w)
  BY <1>6, <1>w, LastKeeps DEF Save, Critical
<1>7. CASE Usage(w)
  <2>1. CASE Finish(w)
    BY <1>7, <1>w, <2>1, LastKeeps DEF Usage, Critical
  <2>2. CASE work[w].allow /\ Step(w, At(w, "post")) /\ UNCHANGED <<lock, excuse>>
    <3>1. session' = session /\ lock = w
      BY <1>7, <1>l DEF Usage, Critical
    <3>2. At(w, "post") \in WorkState /\ At(w, "post").pc = "post" /\ At(w, "post").allow
          /\ At(w, "post").unseen = work[w].unseen
      BY <2>2, AtFields DEF Pc
    <3> QED
      BY <1>a, <2>2, <3>1, <3>2, MoveKeeps DEF Critical
  <2> QED
    BY <1>7, <2>1, <2>2 DEF Usage
<1> QED
  BY <1>1, <1>2, <1>3, <1>4, <1>5, <1>6, <1>7

(* A claude that comes is added to those that could not be seen.           *)
LEMMA ComesKeeps ==
    ASSUME TypeOK, Held, NEW c \in Claude, NEW where, Appears(c, where), NEW w \in Worker,
           NEW x \in WorkState, x.pc \in {"idle", "scan"}, ~x.allow,
           work[w].pc \notin Critical, work' = [Overlooked(c) EXCEPT ![w] = x], lock' = lock
    PROVE  Held'
<1>0. Overlooked(c) \in [Worker -> WorkState]
  BY GoneFields
<1>1. \A v \in Worker : v # w => work'[v] = Overlooked(c)[v]
  BY <1>0
<1>2. work'[w] = x
  BY <1>0
<1>g. \A v \in Worker :
         /\ Overlooked(c)[v].pc = work[v].pc /\ Overlooked(c)[v].job = work[v].job
         /\ Overlooked(c)[v].allow = work[v].allow
         /\ work[v].pc # "idle" => Overlooked(c)[v].unseen = work[v].unseen \cup {c}
  BY GoneFields
<1>3. Sessions' \subseteq Sessions \cup {c}
  BY DEF Appears, Sessions, TypeOK
<1>4. LockHeld'
  BY <1>1, <1>2, <1>g DEF Held, LockHeld, Critical
<1>5. ASSUME NEW v \in Worker, work'[v].allow
      PROVE  Sessions' \subseteq work'[v].unseen
  <2>1. v # w /\ work[v].allow /\ work[v].pc # "idle"
    BY <1>1, <1>2, <1>5, <1>g DEF Held, Asked
  <2>2. work'[v].unseen = work[v].unseen \cup {c}
    BY <1>1, <2>1, <1>g
  <2> QED
    BY <1>3, <2>1, <2>2 DEF Held, Asked
<1>6. Asked'
  <2>1. \A v \in Worker : v # w => work'[v].pc = work[v].pc /\ work'[v].job = work[v].job
                                    /\ work'[v].allow = work[v].allow
    BY <1>1, <1>g
  <2> QED
    BY <1>2, <1>5, <2>1 DEF Held, Asked
<1> QED
  BY <1>4, <1>6 DEF Held

LEMMA GoesKeeps ==
    ASSUME TypeOK, Held, NEW c \in Claude, Vanishes(c), lock' = lock
    PROVE  Held'
<1>1. \A w \in Worker :
         /\ work'[w].pc = work[w].pc /\ work'[w].job = work[w].job
         /\ work'[w].allow = work[w].allow
         /\ work'[w].unseen = work[w].unseen \ {c}
  BY GoneFields
<1>2. Sessions' = Sessions \ {c}
  BY DEF Vanishes, Sessions, TypeOK
<1>3. LockHeld'
  BY <1>1 DEF Held, LockHeld
<1>4. Asked'
  BY <1>1, <1>2 DEF Held, Asked
<1> QED
  BY <1>3, <1>4 DEF Held

LEMMA ClaudeKeeps ==
    ASSUME TypeOK, Held, NEW c \in Claude, ClaudeStep(c) \/ \E w \in Worker : CliLaunch(w, c)
    PROVE  Held'
<1>1. ASSUME NEW p \in Preflight, SelectServed(p, c)
      PROVE  Held'
  <2> DEFINE x == [Idle EXCEPT !.pc = "scan"]
  <2>1. x \in WorkState /\ x.pc = "scan" /\ ~x.allow
    BY DEF Idle, WorkState, Pc, Job
  <2>2. p \in Worker /\ work[p].pc \notin Critical /\ Appears(c, "launching")
        /\ work' = [Overlooked(c) EXCEPT ![p] = x] /\ lock' = lock
    BY <1>1 DEF Worker, SelectServed, Critical
  <2> HIDE DEF x
  <2> QED
    BY <2>1, <2>2, ComesKeeps
<1>2. ASSUME NEW w \in Worker, CliLaunch(w, c)
      PROVE  Held'
  <2>1. work[w].pc \notin Critical /\ Appears(c, "live")
        /\ work' = [Overlooked(c) EXCEPT ![w] = Idle] /\ lock' = lock
    BY <1>2 DEF CliLaunch, Critical
  <2> QED
    BY <2>1, IdleFields, ComesKeeps
<1>3. CASE lock' = lock /\ work' = work /\ Sessions' = Sessions
  BY <1>3 DEF Held, LockHeld, Asked
<1>4. CASE Launch(c) /\ ~Vanishes(c)
  <2>1. Sessions' = Sessions
    BY <1>4 DEF Launch, Sessions, TypeOK
  <2> QED
    BY <1>3, <1>4, <2>1 DEF Launch
<1>5. CASE Vanishes(c) /\ (Launch(c) \/ Ends(c) \/ KillClaude(c))
  BY <1>5, GoesKeeps DEF Launch, Ends, KillClaude
<1>6. CASE Rotate(c) \/ Rotated(c) \/ Login(c)
  <2>1. Sessions' = Sessions
    BY <1>6 DEF Rotate, Rotated, Login, sessionVars, Sessions, TypeOK
  <2> QED
    BY <1>3, <1>6, <2>1 DEF Rotate, Rotated, Login
<1> QED
  BY <1>1, <1>2, <1>4, <1>5, <1>6 DEF ClaudeStep, Ends, KillClaude

LEMMA KilledKeeps ==
    ASSUME TypeOK, Held, NEW S \in SUBSET Worker, Killed(S)
    PROVE  Held'
<1>1. \A w \in Worker : work'[w] = IF w \in S THEN Idle ELSE work[w]
  BY DEF Killed
<1>2. session' = session /\ lock' = IF lock \in S THEN None ELSE lock
  BY DEF Killed
<1>3. LockHeld'
  BY <1>1, <1>2, IdleFields, NoneNoWorker DEF Held, LockHeld, Critical
<1>4. Asked'
  BY <1>1, <1>2, IdleFields DEF Held, Asked, Sessions
<1> QED
  BY <1>3, <1>4 DEF Held

LEMMA HeldKept == TypeOK /\ Held /\ [Next]_vars => Held'
<1> SUFFICES ASSUME TypeOK, Held, [Next]_vars
             PROVE  Held'
  OBVIOUS
<1>1. CASE PollScan \/ PollDecide
  BY <1>1, ScanKeeps
<1>2. CASE Expire \/ UNCHANGED vars
  BY <1>2 DEF Expire, vars, sessionVars, Held, LockHeld, Asked, Sessions
<1>3. CASE KillDaemon
  BY <1>3, KilledKeeps DEF KillDaemon
<1>4. ASSUME NEW w \in Worker, WorkerStep(w)
      PROVE  Held'
  <2>1. CASE KillCli(w)
    BY <2>1, KilledKeeps DEF KillCli
  <2> QED
    BY <1>4, <2>1, ScanKeeps, CycleKeeps, ClaudeKeeps DEF WorkerStep
<1>5. ASSUME NEW c \in Claude, ClaudeStep(c)
      PROVE  Held'
  BY <1>5, ClaudeKeeps
<1> QED
  BY <1>1, <1>2, <1>3, <1>4, <1>5 DEF Next

(* One claude at a time rotates.                                           *)
LEMMA OneRotatesKept == TypeOK /\ OneRotates /\ [Next]_vars => OneRotates'
<1> SUFFICES ASSUME TypeOK, OneRotates, [Next]_vars
             PROVE  OneRotates'
  OBVIOUS
<1>1. CASE session' = session
  BY <1>1 DEF OneRotates
<1>2. ASSUME NEW c \in Claude, ClaudeStep(c) \/ \E w \in Worker : CliLaunch(w, c)
      PROVE  OneRotates'
  <2>1. CASE Rotate(c)
    BY <2>1 DEF Rotate, Rotating, OneRotates, TypeOK
  <2>2. CASE ~Rotate(c)
    <3>1. \A d \in Claude : session'[d] = "rotating" => session[d] = "rotating"
      BY <1>2, <2>2 DEF ClaudeStep, Launch, Ends, Rotated, Login, KillClaude, SelectServed,
         CliLaunch, Appears, Vanishes, sessionVars, TypeOK
    <3> QED
      BY <3>1 DEF OneRotates
  <2> QED
    BY <2>1, <2>2
<1>3. ASSUME NEW w \in Worker, WorkerStep(w), ~\E c \in Claude : CliLaunch(w, c)
      PROVE  session' = session
  BY <1>3 DEF WorkerStep, PreflightScan, CliSample, CliPrepare, CliStops, KillCli, Killed,
     LockToAdopt, WriteBack, LockToRefresh, GivesUp, Post, Save, Usage, sessionVars
<1>4. CASE PollScan \/ PollDecide \/ Expire \/ KillDaemon \/ UNCHANGED vars
  BY <1>1, <1>4 DEF PollScan, PollDecide, Expire, KillDaemon, Killed, sessionVars, vars
<1> QED
  BY <1>1, <1>2, <1>3, <1>4 DEF Next

-----------------------------------------------------------------------------
(* Blame.                                                                  *)

Clean == excuse = {} => Blameless

(* Who is in the critical section with nothing to blame.                   *)
LEMMA Alone ==
    ASSUME TypeOK, LockHeld, Blameless, NEW w \in Worker, lock = w
    PROVE  /\ ~Rotating
           /\ work[w].pc # "save" => Whole /\ work[w].cred = stored
           /\ work[w].pc = "save" => work[w].new = issued
BY NoneNoWorker DEF Blameless, LockHeld, Critical

(* The store is whole, and so is the knowledge of whoever has the lock.    *)
LEMMA CleanIf ==
    ASSUME LockHeld', ~Rotating', Whole',
           \A w \in Worker : lock' = w => work'[w].pc # "save" /\ work'[w].cred = stored'
    PROVE  Blameless'
BY DEF Blameless, LockHeld, Critical

(* Work outside the critical section changes nothing.                      *)
LEMMA CleanBeside ==
    ASSUME TypeOK, LockHeld, LockHeld', Clean, UNCHANGED <<stored, issued, valid, held, excuse, lock>>,
           \A c \in Claude : session'[c] = "rotating" <=> session[c] = "rotating",
           \A w \in Worker : lock = w => /\ work'[w].pc = work[w].pc
                                         /\ work'[w].cred = work[w].cred
                                         /\ work'[w].new = work[w].new
    PROVE  Clean'
<1>1. Rotating' <=> Rotating
  BY DEF Rotating
<1>2. Whole' <=> Whole
  BY DEF Whole
<1>3. \A w \in Worker : work'[w].pc \in Critical <=> work[w].pc \in Critical
  BY DEF LockHeld
<1>4. \A w \in Worker : work[w].pc \in Critical => /\ work'[w].pc = work[w].pc
                                                    /\ work'[w].cred = work[w].cred
                                                    /\ work'[w].new = work[w].new
  BY DEF LockHeld
<1>5. \A w \in Worker : work'[w].pc = "save" <=> work[w].pc = "save"
  BY <1>3, <1>4 DEF Critical
<1> SUFFICES ASSUME excuse' = {}
             PROVE  Blameless'
  BY DEF Clean
<1>6. Blameless
  BY DEF Clean
<1> QED
  BY <1>1, <1>2, <1>3, <1>4, <1>5, <1>6 DEF Blameless, Critical

LEMMA StepBeside ==
    ASSUME TypeOK, Held, Held', Clean, NEW w \in Worker, NEW x \in WorkState, Step(w, x), lock # w,
           UNCHANGED <<stored, issued, valid, held, excuse, lock>>, session' = session
    PROVE  Clean'
BY StepFields, CleanBeside DEF Held

(* What was done is past, or there was nothing to blame all along.         *)
LEMMA SettleClean ==
    ASSUME LockHeld', NEW blame, Settle(blame), excuse' = {}
    PROVE  Blameless' \/ (excuse = {} /\ blame = {})
<1>1. CASE Whole' /\ ~Rotating' /\ lock' = None
  BY <1>1, CleanIf, NoneNoWorker
<1>2. CASE ~(Whole' /\ ~Rotating' /\ lock' = None)
  BY <1>2 DEF Settle
<1> QED
  BY <1>1, <1>2

LEMMA ScanClean ==
    ASSUME TypeOK, Held, Held', Clean,
           PollScan \/ PollDecide \/ \E w \in Worker : PreflightScan(w) \/ CliSample(w)
                                                       \/ CliPrepare(w) \/ CliStops(w)
    PROVE  Clean'
<1>1. PICK w \in Worker :
        /\ work[w].pc \notin Critical
        /\ \E x : Step(w, x)
        /\ UNCHANGED <<stored, issued, valid, held, excuse, lock, session>>
  <2>1. CASE PollScan \/ PollDecide
    BY <2>1 DEF PollScan, PollDecide, chainVars, sessionVars, Critical, Worker
  <2>2. ASSUME NEW w \in Worker, PreflightScan(w) \/ CliSample(w) \/ CliPrepare(w) \/ CliStops(w)
        PROVE  /\ work[w].pc \notin Critical
               /\ \E x : Step(w, x)
               /\ UNCHANGED <<stored, issued, valid, held, excuse, lock, session>>
    BY <2>2 DEF PreflightScan, CliSample, CliPrepare, CliStops, chainVars, sessionVars, Critical
  <2> QED
    BY <2>1, <2>2
<1>2. \A v \in Worker : v # w => work'[v] = work[v]
  BY <1>1 DEF Step, TypeOK
<1>3. lock # w
  BY <1>1 DEF Held, LockHeld
<1> QED
  BY <1>1, <1>2, <1>3, CleanBeside DEF Held

(* A worker goes on with what is in the store, or is done.                 *)
LEMMA LastClean ==
    ASSUME TypeOK, LockHeld', NEW w \in Worker, NEW cred \in Cred \cup {None}, lock = w,
           Finish(w) \/ Proceed(w, cred), work[w].pc \in Critical,
           ~Rotating', Whole', cred = stored'
    PROVE  Blameless'
<1>1. CASE Finish(w)
  BY <1>1, CleanIf, NoneNoWorker DEF Finish
<1>2. CASE Proceed(w, cred) /\ ~Finish(w)
  <2> DEFINE x == [work[w] EXCEPT !.pc = "usage", !.cred = cred, !.new = None, !.then = "done"]
  <2>0. work[w] \in WorkState
    BY DEF TypeOK
  <2>1. x \in WorkState /\ x.pc = "usage" /\ x.cred = cred
    BY <2>0 DEF WorkState, Pc
  <2>2. Step(w, x) /\ lock' = w
    BY <1>2 DEF Proceed
  <2> HIDE DEF x
  <2> QED
    BY <2>1, <2>2, StepFields, CleanIf
<1> QED
  BY <1>1, <1>2

LEMMA CycleClean ==
    ASSUME TypeOK, TypeOK', Held, Held', Clean, NEW w \in Worker,
           \/ LockToAdopt(w) \/ WriteBack(w) \/ (\E nearExpiry \in BOOLEAN : LockToRefresh(w, nearExpiry))
           \/ GivesUp(w) \/ Post(w) \/ Save(w) \/ Usage(w)
    PROVE  Clean'
<1> USE DEF sessionVars
<1>w. work[w] \in WorkState /\ work[w].cred \in Cred \cup {None} /\ work[w].new \in Cred \cup {None}
  BY DEF TypeOK, WorkState
<1>l. LockHeld /\ LockHeld' /\ (work[w].pc \in Critical <=> lock = w)
  BY DEF Held, LockHeld
<1>b. excuse = {} => Blameless
  BY DEF Clean
<1>r. session' = session => (Rotating' <=> Rotating)
  BY DEF Rotating
<1> SUFFICES ASSUME excuse' = {}
             PROVE  Blameless'
  BY DEF Clean
<1>e. ASSUME Enter(w), lock = None, UNCHANGED <<stored, valid, session>>,
             work'[w].pc # "save", work'[w].cred = stored
      PROVE  Blameless'
  <2>1. ~Rotating /\ excuse = {} /\ lock' = w
    BY <1>e DEF Enter
  <2>2. \A v \in Worker : work[v].pc \notin Critical
    BY <1>e, <1>l, NoneNoWorker DEF LockHeld
  <2>3. Whole
    BY <1>b, <2>1, <2>2 DEF Blameless, Critical
  <2>4. Whole' /\ ~Rotating'
    BY <1>e, <1>r, <2>1, <2>3 DEF Whole
  <2> QED
    BY <1>e, <1>l, <2>1, <2>4, CleanIf
<1>1. CASE LockToAdopt(w)
  <2> DEFINE x == [At(w, "adopt") EXCEPT !.cred = stored]
  <2>1. x \in WorkState /\ x.pc = "adopt" /\ x.cred = stored
    BY <1>w DEF At, WorkState, Pc, TypeOK
  <2>2. Step(w, x) /\ Enter(w) /\ lock = None /\ UNCHANGED <<stored, valid, session>>
    BY <1>1 DEF LockToAdopt, LockFree
  <2> HIDE DEF x
  <2> QED
    BY <1>e, <2>1, <2>2, StepFields
<1>2. CASE WriteBack(w)
  <2>1. lock = w /\ work[w].pc = "adopt" /\ Finish(w) /\ Settle({}) /\ session' = session
        /\ stored' \in {work[w].cred, stored} /\ valid' = valid
    BY <1>2, <1>l DEF WriteBack, Critical
  <2>2. ASSUME excuse = {}
        PROVE  Blameless'
    <3>1. ~Rotating /\ Whole /\ work[w].cred = stored
      BY <1>b, <1>l, <2>1, <2>2, Alone
    <3>2. ~Rotating' /\ Whole'
      BY <1>r, <2>1, <3>1 DEF Whole
    <3> QED
      BY <1>l, <2>1, <3>2, CleanIf, NoneNoWorker DEF Finish
  <2> QED
    BY <1>l, <2>1, <2>2, SettleClean
<1>3. ASSUME NEW nearExpiry \in BOOLEAN, LockToRefresh(w, nearExpiry)
      PROVE  Blameless'
  <2> DEFINE then == IF work[w].job = "preflight" THEN "done" ELSE "usage"
             refresh == nearExpiry /\ work[w].allow /\ stored # None
             x == [work[w] EXCEPT !.pc = IF refresh THEN "post" ELSE "usage",
                                  !.cred = stored, !.then = then]
  <2>1. x \in WorkState /\ x.pc # "save" /\ x.cred = stored
    BY <1>w DEF WorkState, Pc, TypeOK
  <2>2. \/ Enter(w) /\ Step(w, x)
        \/ Step(w, NextJob(w)) /\ UNCHANGED <<lock, excuse>>
    BY <1>3 DEF LockToRefresh
  <2>3. lock = None /\ UNCHANGED <<stored, issued, valid, session, held>>
    BY <1>3 DEF LockToRefresh, LockFree
  <2> HIDE DEF x
  <2>4. CASE Enter(w) /\ Step(w, x)
    BY <1>e, <2>1, <2>3, <2>4, StepFields
  <2>5. CASE Step(w, NextJob(w)) /\ UNCHANGED <<lock, excuse>>
    <3>1. Clean'
      BY <2>3, <2>5, StepBeside, NextJobFields, NoneNoWorker
    <3> QED
      BY <3>1 DEF Clean
  <2> QED
    BY <2>2, <2>4, <2>5
<1>4. CASE GivesUp(w)
  <2>1. Step(w, NextJob(w)) /\ lock # w /\ UNCHANGED <<stored, issued, valid, held, excuse, lock, session>>
    BY <1>4, <1>l DEF GivesUp, chainVars, Critical
  <2>2. Clean'
    BY <2>1, StepBeside, NextJobFields
  <2> QED
    BY <2>2 DEF Clean
<1>5. CASE Post(w)
  <2>1. stored' = stored /\ session' = session /\ work[w].pc = "post" /\ lock = w /\ held' = held
    BY <1>5, <1>l DEF Post, Critical
  <2>2. ASSUME NEW rotated \in BOOLEAN, Issue(rotated),
               Step(w, [At(w, "save") EXCEPT !.new = Renewed(rotated, issued + 1)]),
               UNCHANGED <<lock, excuse, faults>>
        PROVE  Blameless'
    <3> DEFINE x == [At(w, "save") EXCEPT !.new = Renewed(rotated, issued + 1)]
    <3>1. x \in WorkState /\ x.pc = "save" /\ x.new = issued'
      BY <1>w, <2>2, IssueTypes DEF At, WorkState, Pc, Renewed
    <3>2. Step(w, x) /\ lock' = w
      BY <2>1, <2>2
    <3> HIDE DEF x
    <3>3. work'[w] = x
      BY <3>1, <3>2, StepFields
    <3>4. ~Rotating'
      BY <1>b, <1>l, <1>r, <2>1, <2>2, Alone
    <3>5. \A v \in Worker : work'[v].pc \in Critical => v = w
      BY <1>l, <3>2 DEF LockHeld
    <3> QED
      BY <3>1, <3>3, <3>4, <3>5 DEF Blameless, Critical
  <2>3. ASSUME UNCHANGED <<issued, valid, faults>>, Proceed(w, work[w].cred), Settle({})
        PROVE  Blameless'
    <3>1. ASSUME excuse = {}
          PROVE  Blameless'
      <4>1. ~Rotating /\ Whole /\ work[w].cred = stored
        BY <1>b, <1>l, <2>1, <3>1, Alone
      <4>2. ~Rotating' /\ Whole'
        BY <1>r, <2>1, <2>3, <4>1 DEF Whole
      <4> QED
        BY <1>w, <1>l, <2>1, <2>3, <4>1, <4>2, LastClean DEF Critical
    <3> QED
      BY <1>l, <2>3, <3>1, SettleClean
  <2>4. ASSUME Settle({"lost"})
        PROVE  Blameless'
    BY <1>l, <2>4, SettleClean
  <2> QED
    BY <1>5, <2>2, <2>3, <2>4 DEF Post
<1>6. CASE Save(w)
  <2>1. lock = w /\ work[w].pc = "save" /\ session' = session /\ UNCHANGED <<issued, valid>>
    BY <1>6, <1>l DEF Save, Critical
  <2>2. ASSUME stored' = work[w].new, Proceed(w, work[w].new), Settle({})
        PROVE  Blameless'
    <3>1. ASSUME excuse = {}
          PROVE  Blameless'
      <4>1. ~Rotating /\ work[w].new = issued
        BY <1>b, <1>l, <2>1, <3>1, Alone
      <4>2. ~Rotating' /\ Whole'
        BY <1>r, <2>1, <2>2, <4>1, NoneNoWorker DEF Whole, TypeOK, Cred
      <4> QED
        BY <1>w, <1>l, <2>1, <2>2, <4>2, LastClean DEF Critical
    <3> QED
      BY <1>l, <2>2, <3>1, SettleClean
  <2>3. ASSUME Settle({"unsaved"})
        PROVE  Blameless'
    BY <1>l, <2>3, SettleClean
  <2> QED
    BY <1>6, <2>2, <2>3 DEF Save
<1>7. CASE Usage(w)
  <2>1. lock = w /\ work[w].pc = "usage" /\ session' = session /\ UNCHANGED <<stored, valid>>
    BY <1>7, <1>l DEF Usage, Critical
  <2>2. ASSUME excuse = {}
        PROVE  ~Rotating' /\ Whole' /\ work[w].cred = stored'
    BY <1>b, <1>l, <1>r, <2>1, <2>2, Alone DEF Whole
  <2>3. CASE Finish(w) /\ Settle({})
    <3>1. ASSUME excuse = {}
          PROVE  Blameless'
      BY <1>l, <2>2, <2>3, <3>1, CleanIf, NoneNoWorker DEF Finish
    <3> QED
      BY <1>l, <2>3, <3>1, SettleClean
  <2>4. CASE Step(w, At(w, "post")) /\ UNCHANGED <<lock, excuse>>
    <3>1. work'[w].pc = "post" /\ work'[w].cred = work[w].cred
      BY <2>4, AtFields, StepFields DEF Pc
    <3> QED
      BY <1>l, <2>1, <2>2, <2>4, <3>1, CleanIf
  <2> QED
    BY <1>7, <2>3, <2>4 DEF Usage
<1> QED
  BY <1>1, <1>2, <1>3, <1>4, <1>5, <1>6, <1>7

LEMMA ClaudeClean ==
    ASSUME TypeOK, TypeOK', Held, Held', OneRotates, Clean, NEW c \in Claude,
           ClaudeStep(c) \/ \E w \in Worker : CliLaunch(w, c)
    PROVE  Clean'
<1> USE DEF chainVars, sessionVars
<1>l. LockHeld /\ LockHeld'
  BY DEF Held
<1>b. excuse = {} => Blameless
  BY DEF Clean
<1>1. ASSUME NEW p \in Worker, work[p].pc \notin Critical, NEW x \in WorkState,
             NEW where \in {"launching", "live"}, Appears(c, where),
             work' = [Overlooked(c) EXCEPT ![p] = x],
             UNCHANGED <<stored, issued, valid, held, excuse, lock>>
      PROVE  Clean'
  <2>1. \A v \in Worker : v # p => /\ work'[v].pc = work[v].pc
                                   /\ work'[v].cred = work[v].cred
                                   /\ work'[v].new = work[v].new
    <3>1. Overlooked(c) \in [Worker -> WorkState]
      BY GoneFields
    <3>2. \A v \in Worker : v # p => work'[v] = Overlooked(c)[v]
      BY <1>1, <3>1
    <3>3. \A v \in Worker : /\ Overlooked(c)[v].pc = work[v].pc
                            /\ Overlooked(c)[v].cred = work[v].cred
                            /\ Overlooked(c)[v].new = work[v].new
      BY GoneFields
    <3> QED
      BY <3>2, <3>3
  <2>2. lock # p
    BY <1>1, <1>l DEF LockHeld
  <2>3. \A d \in Claude : session'[d] = "rotating" <=> session[d] = "rotating"
    BY <1>1 DEF Appears, TypeOK
  <2> QED
    BY <1>1, <1>l, <2>1, <2>2, <2>3, CleanBeside
<1>2. ASSUME NEW p \in Preflight, SelectServed(p, c)
      PROVE  Clean'
  <2>1. p \in Worker /\ work[p].pc \notin Critical /\ [Idle EXCEPT !.pc = "scan"] \in WorkState
    BY <1>2 DEF Worker, SelectServed, Critical, Idle, WorkState, Pc, Job
  <2> QED
    BY <1>1, <1>2, <2>1 DEF SelectServed
<1>3. ASSUME NEW w \in Worker, CliLaunch(w, c)
      PROVE  Clean'
  <2>1. work[w].pc \notin Critical
    BY <1>3 DEF CliLaunch, Critical
  <2> QED
    BY <1>1, <1>3, <2>1, IdleFields DEF CliLaunch
<1>4. ASSUME Vanishes(c), session[c] # "rotating",
             UNCHANGED <<stored, issued, valid, held, excuse, lock>>
      PROVE  Clean'
  <2>1. \A v \in Worker : /\ work'[v].pc = work[v].pc
                          /\ work'[v].cred = work[v].cred
                          /\ work'[v].new = work[v].new
    BY <1>4, GoneFields
  <2>2. \A d \in Claude : session'[d] = "rotating" <=> session[d] = "rotating"
    BY <1>4 DEF Vanishes, TypeOK
  <2> QED
    BY <1>4, <1>l, <2>1, <2>2, CleanBeside
<1>5. CASE Launch(c)
  <2>1. CASE Vanishes(c)
    BY <1>4, <1>5, <2>1 DEF Launch
  <2>2. CASE session' = [session EXCEPT ![c] = "live"] /\ UNCHANGED work
    <3>1. \A d \in Claude : session'[d] = "rotating" <=> session[d] = "rotating"
      BY <1>5, <2>2 DEF Launch, TypeOK
    <3> QED
      BY <1>5, <1>l, <2>2, <3>1, CleanBeside DEF Launch
  <2> QED
    BY <1>5, <2>1, <2>2 DEF Launch
<1>6. CASE Ends(c)
  BY <1>4, <1>6 DEF Ends
<1> SUFFICES ASSUME excuse' = {}
             PROVE  Blameless'
  BY <1>2, <1>3, <1>5, <1>6 DEF Clean
<1>7. CASE Rotate(c)
  <2>0. session[c] = "live" /\ ~Rotating /\ stored # None /\ lock' = lock /\ work' = work
    BY <1>7 DEF Rotate
  <2>1. CASE Accepts(stored)
    <3>1. held' = issued + 1 /\ lock = None
          /\ session' = [session EXCEPT ![c] = "rotating"]
      BY <1>7, <2>1 DEF Rotate
    <3>2. issued' = issued + 1
      BY <1>7, <2>1 DEF Rotate, Issue
    <3>3. Rotating'
      BY <3>1 DEF Rotating, TypeOK
    <3>4. \A v \in Worker : work'[v].pc \notin Critical
      BY <1>l, <2>0, <3>1, NoneNoWorker DEF LockHeld
    <3> QED
      BY <2>0, <3>1, <3>2, <3>3, <3>4 DEF Blameless, Critical
  <2>2. CASE ~Accepts(stored)
    <3>1. UNCHANGED <<issued, valid, held, session, excuse>>
      BY <1>7, <2>2 DEF Rotate
    <3>2. ~Whole /\ ~Rotating'
      BY <2>0, <2>2, <3>1 DEF Whole, Accepts, Rotating
    <3>3. PICK w \in Worker : work[w].pc = "save"
      BY <1>b, <2>0, <3>1, <3>2 DEF Blameless
    <3>4. \A v \in Worker : work[v].pc \in Critical => v = w
      BY <1>l, <3>3 DEF LockHeld, Critical
    <3> QED
      BY <1>b, <2>0, <3>1, <3>2, <3>3, <3>4 DEF Blameless, Critical
  <2> QED
    BY <2>1, <2>2
<1>8. CASE Rotated(c)
  <2>1. Settle({}) /\ session[c] = "rotating" /\ stored' = held
        /\ session' = [session EXCEPT ![c] = "live"] /\ UNCHANGED <<issued, valid, lock>>
    BY <1>8 DEF Rotated
  <2>2. ~Rotating'
    BY <2>1 DEF Rotating, OneRotates, TypeOK
  <2>3. ASSUME excuse = {}
        PROVE  Blameless'
    <3>1. held = issued /\ lock = None
      BY <1>b, <2>1, <2>3 DEF Blameless, Rotating
    <3>2. Whole' /\ lock' = None
      BY <2>1, <3>1, NoneNoWorker DEF Whole, TypeOK, Cred
    <3> QED
      BY <1>l, <2>2, <3>2, CleanIf, NoneNoWorker
  <2> QED
    BY <1>l, <2>1, <2>3, SettleClean
<1>9. CASE Login(c)
  BY <1>9, <1>l, SettleClean DEF Login
<1>10. CASE KillClaude(c)
  BY <1>10 DEF KillClaude
<1> QED
  BY <1>2, <1>3, <1>5, <1>6, <1>7, <1>8, <1>9, <1>10 DEF ClaudeStep, Clean

LEMMA KilledClean ==
    ASSUME TypeOK, Held, Held', Clean, NEW S \in SUBSET Worker, Killed(S)
    PROVE  Clean'
<1> SUFFICES ASSUME excuse' = {}
             PROVE  Blameless'
  BY DEF Clean
<1>1. excuse = {} /\ (\A w \in S : work[w].pc # "save")
  BY DEF Killed
<1>2. Blameless /\ LockHeld /\ LockHeld'
  BY <1>1 DEF Clean, Held
<1>3. UNCHANGED <<stored, issued, valid, session, held>>
      /\ lock' = IF lock \in S THEN None ELSE lock
  BY DEF Killed
<1>4. \A w \in Worker : work'[w] = IF w \in S THEN Idle ELSE work[w]
  BY DEF Killed
<1>5. (Rotating' <=> Rotating) /\ (Whole' <=> Whole)
  BY <1>3 DEF Rotating, Whole
<1>6. \A w \in Worker : work'[w].pc = "save" <=> work[w].pc = "save"
  BY <1>1, <1>4, IdleFields
<1>7. \A w \in Worker : work'[w].pc \in Critical => work'[w] = work[w]
  BY <1>4, IdleFields DEF Critical
<1> QED
  BY <1>2, <1>3, <1>5, <1>6, <1>7 DEF Blameless, Critical

LEMMA CleanKept == TypeOK /\ Held /\ OneRotates /\ Clean /\ TypeOK' /\ Held' /\ [Next]_vars => Clean'
<1> SUFFICES ASSUME TypeOK, Held, OneRotates, Clean, TypeOK', Held', [Next]_vars
             PROVE  Clean'
  OBVIOUS
<1>1. CASE PollScan \/ PollDecide
  BY <1>1, ScanClean
<1>2. CASE Expire \/ UNCHANGED vars
  BY <1>2, CleanBeside DEF Expire, vars, chainVars, sessionVars, Held
<1>3. CASE KillDaemon
  BY <1>3, KilledClean DEF KillDaemon
<1>4. ASSUME NEW w \in Worker, WorkerStep(w)
      PROVE  Clean'
  <2>1. CASE KillCli(w)
    BY <2>1, KilledClean DEF KillCli
  <2> QED
    BY <1>4, <2>1, ScanClean, CycleClean, ClaudeClean DEF WorkerStep
<1>5. ASSUME NEW c \in Claude, ClaudeStep(c)
      PROVE  Clean'
  BY <1>5, ClaudeClean
<1> QED
  BY <1>1, <1>2, <1>3, <1>4, <1>5 DEF Next

-----------------------------------------------------------------------------
(* The theorems.                                                           *)

LEMMA IInvInit == Init => IInv
<1> SUFFICES ASSUME Init
             PROVE  IInv
  OBVIOUS
<1>1. 0 \in Cred
  BY BoundAssumption DEF Cred
<1>2. \A w \in Worker : work[w] = Idle
  BY DEF Init
<1>3. TypeOK
  <2>1. work \in [Worker -> WorkState]
    BY IdleFields DEF Init
  <2>2. issued \in Cred /\ stored \in Cred /\ held \in Cred /\ valid \in 0..issued /\ faults \in Nat
    BY <1>1 DEF Init
  <2>3. session \in [Claude -> {"none", "launching", "live", "rotating"}]
    BY DEF Init
  <2> QED
    BY <1>2, <2>1, <2>2, <2>3, IdleFields DEF Init, TypeOK
<1>4. ~Rotating /\ Whole
  BY <1>3, NoneNoWorker DEF Init, Rotating, Whole
<1>5. LockHeld /\ Asked
  BY <1>2, IdleFields, NoneNoWorker DEF Init, LockHeld, Asked, Critical
<1>6. OneRotates /\ Blameless
  BY <1>2, <1>4, IdleFields DEF Init, OneRotates, Blameless, Critical
<1> QED
  BY <1>3, <1>5, <1>6 DEF IInv, ChainInv

LEMMA IInvStep == IInv /\ [Next]_vars => IInv'
<1> SUFFICES ASSUME IInv, [Next]_vars
             PROVE  IInv'
  OBVIOUS
<1>1. TypeOK /\ Held /\ OneRotates /\ Clean
  BY DEF IInv, ChainInv, Held, Clean
<1>2. TypeOK'
  BY <1>1, TypesKept
<1>3. Held' /\ OneRotates'
  BY <1>1, HeldKept, OneRotatesKept
<1>4. Clean'
  BY <1>1, <1>2, <1>3, CleanKept
<1> QED
  BY <1>2, <1>3, <1>4 DEF IInv, ChainInv, Held, Clean

LEMMA IInvInvariant == Spec => []IInv
BY IInvInit, IInvStep, PTL DEF Spec

(* Every variable keeps to its type.                                       *)
THEOREM TypeCorrect == Spec => []TypeOK
<1>1. IInv => TypeOK
  BY DEF IInv
<1> QED
  BY <1>1, IInvInvariant, PTL

(* However many workers, processes and claudes share the account, its       *)
(* newest refresh token is in the store or on its way there, unless an      *)
(* answer or a write was lost, a process was killed in between, or a claude *)
(* rotated while a worker was at work.                                     *)
THEOREM ChainSurvives == Spec => []ChainKept
<1>1. IInv => ChainKept
  BY DEF IInv, ChainInv, Blameless, ChainKept
<1> QED
  BY <1>1, IInvInvariant, PTL

(* Under the same conditions no refresh token is posted twice.             *)
THEOREM SpentOnce == Spec => []NoDoubleSpend
<1>1. ASSUME IInv
      PROVE  NoDoubleSpend
  <2> SUFFICES ASSUME NEW w \in Worker, work[w].pc = "post", excuse = {}
               PROVE  Accepts(work[w].cred)
    BY DEF NoDoubleSpend
  <2>1. LockHeld /\ Blameless /\ TypeOK
    BY <1>1 DEF IInv, ChainInv
  <2>2. lock = w
    BY <2>1 DEF LockHeld, Critical
  <2>3. Whole /\ work[w].cred = stored
    BY <2>1, <2>2, Alone
  <2> QED
    BY <2>3 DEF Whole, Accepts
<1> QED
  BY <1>1, IInvInvariant, PTL

(* Tokens are touched for claudes only that could not be seen when the      *)
(* account was looked at (EnsureFreshToken, pollAccount).                  *)
THEOREM RefreshSparesSeen == Spec => []RefreshUnseenOnly
<1>1. IInv => RefreshUnseenOnly
  BY DEF IInv, ChainInv, Asked, Sessions, RefreshUnseenOnly
<1> QED
  BY <1>1, IInvInvariant, PTL
-----------------------------------------------------------------------------
(* The refreshes are atomic.                                               *)

(* No credential is newer than the newest.                                 *)
UpTo(cred, n) == cred # None => cred <= n
Issued ==
    /\ UpTo(stored, issued) /\ held <= issued
    /\ \A w \in Worker : UpTo(work[w].cred, issued) /\ UpTo(work[w].new, issued)

Known == Cred \cup {None}

LEMMA KnownAre == TypeOK => /\ {stored, held, issued} \subseteq Known
                            /\ \A w \in Worker : work[w].cred \in Known /\ work[w].new \in Known
<1> SUFFICES ASSUME TypeOK
             PROVE  /\ {stored, held, issued} \subseteq Known
                    /\ \A w \in Worker : work[w].cred \in Known /\ work[w].new \in Known
  OBVIOUS
<1>1. \A w \in Worker : work[w].cred \in Known /\ work[w].new \in Known
  <2> SUFFICES ASSUME NEW w \in Worker
               PROVE  work[w].cred \in Known /\ work[w].new \in Known
    OBVIOUS
  <2>1. work[w] \in WorkState
    BY DEF TypeOK
  <2> QED
    BY <2>1 DEF WorkState, Known
<1> QED
  BY <1>1 DEF TypeOK, Known

(* A worker moves on with what it had, what is stored or what was issued.  *)
Carries(w) ==
    /\ \A v \in Worker : v # w => work'[v] = work[v]
    /\ work'[w].cred \in {None, stored, work[w].cred, work[w].new}
    /\ work'[w].new \in {None, work[w].new, issued'}

LEMMA StepCarries ==
    ASSUME TypeOK, NEW w \in Worker, NEW x \in WorkState, Step(w, x),
           x.cred \in {None, stored, work[w].cred, work[w].new},
           x.new \in {None, work[w].new, issued'}
    PROVE  Carries(w)
BY StepFields DEF Carries

LEMMA NextJobCarries ==
    ASSUME TypeOK, NEW w \in Worker
    PROVE  NextJob(w).cred = None /\ NextJob(w).new \in {None, work[w].new}
<1> DEFINE x == [At(w, "wait") EXCEPT !.job = "sample", !.cred = None]
<1>1. x.cred = None /\ x.new = work[w].new
  BY AtFields DEF WorkState, Pc
<1>2. NextJob(w) \in {x, [Idle EXCEPT !.pc = "scan"], [Idle EXCEPT !.pc = "launch"], Idle}
  BY Zenon DEF NextJob
<1>3. \A y \in {[Idle EXCEPT !.pc = "scan"], [Idle EXCEPT !.pc = "launch"], Idle} :
        y.cred = None /\ y.new = None
  BY DEF Idle
<1> HIDE DEF x
<1> QED
  BY <1>1, <1>2, <1>3

LEMMA LastCarries ==
    ASSUME TypeOK, NEW w \in Worker, NEW cred \in Cred \cup {None},
           cred = work[w].cred \/ cred = work[w].new, Finish(w) \/ Proceed(w, cred)
    PROVE  Carries(w) /\ work'[w].pc # "save"
<1>1. CASE Finish(w)
  <2>1. NextJob(w) \in WorkState /\ NextJob(w).pc # "save"
    BY NextJobFields
  <2>2. NextJob(w).cred = None /\ NextJob(w).new \in {None, work[w].new}
    BY NextJobCarries
  <2> QED
    BY <1>1, <2>1, <2>2, StepCarries, StepFields DEF Finish
<1>2. CASE Proceed(w, cred) /\ ~Finish(w)
  <2> DEFINE x == [work[w] EXCEPT !.pc = "usage", !.cred = cred, !.new = None, !.then = "done"]
  <2>1. work[w] \in WorkState
    BY DEF TypeOK
  <2>2. x \in WorkState
    BY <2>1 DEF WorkState, Pc
  <2>3. x.pc = "usage" /\ x.cred = cred /\ x.new = None
    BY <2>1 DEF WorkState
  <2>4. Step(w, x) /\ lock' = lock
    BY <1>2 DEF Proceed
  <2> HIDE DEF x
  <2> QED
    BY <2>2, <2>3, <2>4, StepCarries, StepFields
<1> QED
  BY <1>1, <1>2

LEMMA CycleCarries ==
    ASSUME TypeOK, NEW w \in Worker,
           \/ LockToAdopt(w) \/ WriteBack(w) \/ (\E nearExpiry \in BOOLEAN : LockToRefresh(w, nearExpiry))
           \/ GivesUp(w) \/ Post(w) \/ Save(w) \/ Usage(w)
    PROVE  /\ Carries(w) /\ held' = held
           /\ stored' \in {stored, work[w].cred, work[w].new}
<1> USE DEF chainVars, sessionVars
<1>w. work[w] \in WorkState
  BY DEF TypeOK
<1>k. /\ stored \in Cred \cup {None}
      /\ work[w].cred \in Cred \cup {None} /\ work[w].new \in Cred \cup {None}
  BY KnownAre DEF Known
<1>1. CASE LockToAdopt(w)
  <2> DEFINE x == [At(w, "adopt") EXCEPT !.cred = stored]
  <2>1. At(w, "adopt") \in WorkState /\ At(w, "adopt").new = work[w].new
    BY AtFields DEF Pc
  <2>2. x \in WorkState /\ x.cred = stored /\ x.new = work[w].new
    BY <1>k, <2>1 DEF WorkState
  <2>3. Step(w, x)
    BY <1>1 DEF LockToAdopt
  <2> HIDE DEF x
  <2> QED
    BY <1>1, <2>2, <2>3, StepCarries DEF LockToAdopt
<1>2. CASE WriteBack(w)
  BY <1>2, <1>k, LastCarries DEF WriteBack
<1>3. ASSUME NEW nearExpiry \in BOOLEAN, LockToRefresh(w, nearExpiry)
      PROVE  Carries(w) /\ held' = held /\ stored' = stored
  <2> DEFINE x(pc, then) == [work[w] EXCEPT !.pc = pc, !.cred = stored, !.then = then]
  <2>1. \A pc \in {"post", "usage"}, then \in {"usage", "done"} :
          /\ x(pc, then) \in WorkState
          /\ x(pc, then).cred = stored /\ x(pc, then).new = work[w].new
    BY <1>w, <1>k DEF WorkState, Pc
  <2>2. \/ Step(w, NextJob(w))
        \/ \E pc \in {"post", "usage"}, then \in {"usage", "done"} : Step(w, x(pc, then))
    BY <1>3 DEF LockToRefresh
  <2>3. CASE Step(w, NextJob(w))
    <3>1. NextJob(w) \in WorkState /\ NextJob(w).cred = None /\ NextJob(w).new \in {None, work[w].new}
      BY NextJobFields, NextJobCarries
    <3> QED
      BY <1>3, <2>3, <3>1, StepCarries DEF LockToRefresh
  <2> HIDE DEF x
  <2> QED
    BY <1>3, <2>1, <2>2, <2>3, StepCarries DEF LockToRefresh
<1>4. CASE GivesUp(w)
  <2>1. NextJob(w) \in WorkState /\ NextJob(w).cred = None /\ NextJob(w).new \in {None, work[w].new}
    BY NextJobFields, NextJobCarries
  <2> QED
    BY <1>4, <2>1, StepCarries DEF GivesUp
<1>5. CASE Post(w)
  <2>1. CASE Proceed(w, work[w].cred)
    BY <1>5, <1>k, <2>1, LastCarries DEF Post
  <2>2. ASSUME NEW rotated \in BOOLEAN, Issue(rotated), Step(w, [At(w, "save") EXCEPT !.new = Renewed(rotated, issued + 1)])
        PROVE  Carries(w)
    <3> DEFINE x == [At(w, "save") EXCEPT !.new = issued + 1]
    <3>1. At(w, "save") \in WorkState /\ At(w, "save").cred = work[w].cred
      BY AtFields DEF Pc
    <3>2. issued' = issued + 1 /\ issued + 1 \in Cred
      BY <2>2, IssueTypes
    <3>3. x \in WorkState /\ x.cred = work[w].cred /\ x.new = issued'
      BY <3>1, <3>2 DEF WorkState
    <3>4. Step(w, x)
      BY <2>2 DEF Renewed
    <3> HIDE DEF x
    <3> QED
      BY <3>3, <3>4, StepCarries
  <2>3. \/ Proceed(w, work[w].cred)
        \/ \E rotated \in BOOLEAN :
             Issue(rotated) /\ Step(w, [At(w, "save") EXCEPT !.new = Renewed(rotated, issued + 1)])
    BY <1>5 DEF Post
  <2> QED
    BY <1>5, <2>1, <2>2, <2>3 DEF Post
<1>6. CASE Save(w)
  BY <1>6, <1>k, LastCarries DEF Save
<1>7. CASE Usage(w)
  <2>1. CASE Finish(w)
    BY <1>7, <1>k, <2>1, LastCarries DEF Usage
  <2>2. CASE Step(w, At(w, "post"))
    BY <1>7, <2>2, AtFields, StepCarries DEF Usage, Pc
  <2> QED
    BY <1>7, <2>1, <2>2 DEF Usage
<1> QED
  BY <1>1, <1>2, <1>3, <1>4, <1>5, <1>6, <1>7

(* Whatever is done, the provider keeps to its rules.                      *)
LEMMA IssueAnswers == ASSUME NEW rotated \in BOOLEAN, Issue(rotated)
                      PROVE  Atomic!Answer
BY DEF Issue, Atomic!Answer

LEMMA ProviderRules == ASSUME [Next]_vars
                       PROVE  Atomic!Answer \/ Atomic!NoAnswer
<1> USE DEF Atomic!NoAnswer, chainVars, sessionVars
<1>1. CASE PollScan \/ PollDecide \/ Expire \/ KillDaemon \/ UNCHANGED vars
  BY <1>1 DEF PollScan, PollDecide, Expire, KillDaemon, Killed, vars
<1>2. ASSUME NEW w \in Worker, WorkerStep(w)
      PROVE  Atomic!Answer \/ Atomic!NoAnswer
  <2>1. CASE Post(w)
    BY <2>1, IssueAnswers DEF Post
  <2>2. CASE \/ LockToAdopt(w) \/ WriteBack(w) \/ (\E nearExpiry \in BOOLEAN : LockToRefresh(w, nearExpiry))
             \/ GivesUp(w) \/ Save(w) \/ Usage(w)
    BY <2>2 DEF LockToAdopt, WriteBack, LockToRefresh, GivesUp, Save, Usage
  <2>3. CASE \/ PreflightScan(w) \/ CliSample(w) \/ CliPrepare(w) \/ CliStops(w) \/ KillCli(w)
             \/ \E c \in Claude : CliLaunch(w, c)
    BY <2>3 DEF PreflightScan, CliSample, CliPrepare, CliStops, KillCli, Killed, CliLaunch
  <2> QED
    BY <1>2, <2>1, <2>2, <2>3 DEF WorkerStep
<1>3. ASSUME NEW c \in Claude, ClaudeStep(c)
      PROVE  Atomic!Answer \/ Atomic!NoAnswer
  <2>1. CASE Rotate(c) \/ Login(c)
    BY <2>1, IssueAnswers DEF Rotate, Login
  <2>2. CASE Launch(c) \/ Ends(c) \/ Rotated(c) \/ KillClaude(c) \/ \E p \in Preflight : SelectServed(p, c)
    BY <2>2 DEF Launch, Ends, Rotated, KillClaude, SelectServed
  <2> QED
    BY <1>3, <2>1, <2>2 DEF ClaudeStep
<1> QED
  BY <1>1, <1>2, <1>3 DEF Next

LEMMA AnswerGrows ==
    ASSUME TypeOK, TypeOK', Atomic!Answer \/ Atomic!NoAnswer
    PROVE  issued \in Nat /\ issued' \in Nat /\ issued <= issued'
BY DEF TypeOK, Cred, Atomic!Answer, Atomic!NoAnswer

LEMMA CarriesIssued ==
    ASSUME TypeOK, TypeOK', Issued, Atomic!Answer \/ Atomic!NoAnswer, NEW w \in Worker, Carries(w), held' = held,
           stored' \in {stored, work[w].cred, work[w].new}
    PROVE  Issued'
<1>1. issued \in Nat /\ issued' \in Nat /\ issued <= issued'
  BY AnswerGrows
<1>2. \A c \in Known : UpTo(c, issued) => UpTo(c, issued')
  BY <1>1, NoneNoWorker DEF UpTo, Known, Cred
<1>3. UpTo(None, issued') /\ UpTo(issued', issued')
  BY <1>1, NoneNoWorker DEF UpTo
<1>4. UpTo(stored', issued')
  BY <1>2, KnownAre DEF Issued
<1>5. \A v \in Worker : UpTo(work'[v].cred, issued') /\ UpTo(work'[v].new, issued')
  BY <1>2, <1>3, KnownAre DEF Issued, Carries
<1>6. held' <= issued'
  BY <1>1 DEF TypeOK, Issued, Cred
<1> QED
  BY <1>4, <1>5, <1>6 DEF Issued

(* Steps that leave the credentials of all workers alone.                  *)
LEMMA BesideIssued ==
    ASSUME TypeOK, TypeOK', Issued, Atomic!Answer \/ Atomic!NoAnswer,
           \A v \in Worker : \/ work'[v].cred = work[v].cred /\ work'[v].new = work[v].new
                             \/ work'[v].cred = None /\ work'[v].new = None,
           stored' \in {stored, held, issued', None}, held' \in {held, issued', 0}
    PROVE  Issued'
<1>1. issued \in Nat /\ issued' \in Nat /\ issued <= issued'
  BY AnswerGrows
<1>2. \A c \in Known : UpTo(c, issued) => UpTo(c, issued')
  BY <1>1, NoneNoWorker DEF UpTo, Known, Cred
<1>3. UpTo(None, issued') /\ UpTo(issued', issued')
  BY <1>1, NoneNoWorker DEF UpTo
<1>4. UpTo(held, issued)
  BY DEF UpTo, Issued
<1>5. UpTo(stored', issued')
  BY <1>2, <1>3, <1>4, KnownAre DEF Issued
<1>6. \A v \in Worker : UpTo(work'[v].cred, issued') /\ UpTo(work'[v].new, issued')
  BY <1>2, <1>3, KnownAre DEF Issued
<1>7. held' <= issued'
  BY <1>1 DEF TypeOK, Issued, Cred
<1> QED
  BY <1>5, <1>6, <1>7 DEF Issued

LEMMA IdleCarries == Idle.cred = None /\ Idle.new = None
BY DEF Idle

LEMMA IdleAt ==
    ASSUME NEW pc \in Pc
    PROVE  /\ [Idle EXCEPT !.pc = pc] \in WorkState
           /\ [Idle EXCEPT !.pc = pc].cred = None /\ [Idle EXCEPT !.pc = pc].new = None
BY DEF Pc, Job, Idle, WorkState

LEMMA PcsAre == {"scan", "launch"} \subseteq Pc
BY DEF Pc

LEMMA StepBesideIssued ==
    ASSUME TypeOK, TypeOK', Issued, Atomic!Answer \/ Atomic!NoAnswer,
           NEW w \in Worker, NEW x \in WorkState, Step(w, x), UNCHANGED <<stored, held>>,
           \/ x.cred = None /\ x.new = None
           \/ x.cred = work[w].cred /\ x.new = work[w].new
    PROVE  Issued'
<1>1. work'[w] = x /\ \A v \in Worker : v # w => work'[v] = work[v]
  BY StepFields
<1> QED
  BY <1>1, BesideIssued

LEMMA ScanIssued ==
    ASSUME TypeOK, TypeOK', Issued, Atomic!Answer \/ Atomic!NoAnswer,
           PollScan \/ PollDecide \/ \E w \in Worker : PreflightScan(w) \/ CliSample(w)
                                                       \/ CliPrepare(w) \/ CliStops(w)
    PROVE  Issued'
<1> USE DEF chainVars, sessionVars
<1>p. Poll \in Worker
  BY DEF Worker
<1>1. CASE PollScan
  <2>1. PICK sawNone \in BOOLEAN, unseen \in SUBSET Claude :
          Step(Poll, [Looked(sawNone, unseen) EXCEPT !.pc = "decide"])
    BY <1>1 DEF PollScan
  <2>2. /\ [Looked(sawNone, unseen) EXCEPT !.pc = "decide"] \in WorkState
        /\ [Looked(sawNone, unseen) EXCEPT !.pc = "decide"].cred = None
        /\ [Looked(sawNone, unseen) EXCEPT !.pc = "decide"].new = None
    BY DEF Looked, Idle, WorkState, Pc, Job
  <2> QED
    BY <1>1, <1>p, <2>1, <2>2, StepBesideIssued DEF PollScan
<1>2. CASE PollDecide
  <2> DEFINE idle == AccountIdle(work[Poll].allow)
             x == [At(Poll, "wait") EXCEPT
                     !.allow = idle,
                     !.job = IF idle THEN "adopt" ELSE "sample",
                     !.unseen = IF reserved THEN {c \in @ : session[c] # "launching"} ELSE @]
  <2>1. /\ At(Poll, "wait") \in WorkState
        /\ At(Poll, "wait").cred = work[Poll].cred /\ At(Poll, "wait").new = work[Poll].new
    BY <1>p, AtFields DEF Pc
  <2>2. idle \in BOOLEAN
    BY <1>p DEF AccountIdle, TypeOK, WorkState
  <2>3. x \in WorkState /\ x.cred = work[Poll].cred /\ x.new = work[Poll].new
    BY <2>1, <2>2 DEF WorkState, Job
  <2>4. Step(Poll, Idle) \/ Step(Poll, x)
    BY <1>2 DEF PollDecide
  <2> HIDE DEF x, idle
  <2> QED
    BY <1>2, <1>p, <2>3, <2>4, IdleFields, IdleCarries, StepBesideIssued DEF PollDecide
<1>3. ASSUME NEW w \in Worker, PreflightScan(w)
      PROVE  Issued'
  <2>1. PICK sawNone \in BOOLEAN, unseen \in SUBSET Claude :
          \/ Step(w, [Looked(sawNone, unseen) EXCEPT !.pc = "wait", !.job = "preflight"])
          \/ Step(w, [Idle EXCEPT !.pc = "launch"])
          \/ Step(w, Idle)
    BY <1>3 DEF PreflightScan
  <2>2. \A x \in {[Looked(sawNone, unseen) EXCEPT !.pc = "wait", !.job = "preflight"],
                  [Idle EXCEPT !.pc = "launch"], Idle} :
          x \in WorkState /\ x.cred = None /\ x.new = None
    <3>1. /\ [Looked(sawNone, unseen) EXCEPT !.pc = "wait", !.job = "preflight"] \in WorkState
          /\ [Looked(sawNone, unseen) EXCEPT !.pc = "wait", !.job = "preflight"].cred = None
          /\ [Looked(sawNone, unseen) EXCEPT !.pc = "wait", !.job = "preflight"].new = None
      BY DEF Looked, Idle, WorkState, Pc, Job
    <3> QED
      BY <3>1, PcsAre, IdleAt, IdleFields, IdleCarries
  <2> QED
    BY <1>3, <2>1, <2>2, StepBesideIssued DEF PreflightScan
<1>4. ASSUME NEW w \in Worker, CliSample(w)
      PROVE  Issued'
  <2>1. PICK sawNone \in BOOLEAN, unseen \in SUBSET Claude, job \in {"sample", "select"} :
          Step(w, [Looked(sawNone, unseen) EXCEPT !.pc = "wait", !.job = job])
    BY <1>4 DEF CliSample
  <2> DEFINE x == [Looked(sawNone, unseen) EXCEPT !.pc = "wait", !.job = job]
  <2>2. x \in WorkState /\ x.cred = None /\ x.new = None
    BY DEF Looked, Idle, WorkState, Pc, Job
  <2> HIDE DEF x
  <2>3. Step(w, x)
    BY <2>1 DEF x
  <2> QED
    BY <1>4, <2>2, <2>3, StepBesideIssued DEF CliSample
<1>5. ASSUME NEW w \in Worker, CliPrepare(w) \/ CliStops(w)
      PROVE  Issued'
  <2>1. \A x \in {[Idle EXCEPT !.pc = "scan"], Idle} : x \in WorkState /\ x.cred = None /\ x.new = None
    BY PcsAre, IdleAt, IdleFields, IdleCarries
  <2> QED
    BY <1>5, <2>1, StepBesideIssued DEF CliPrepare, CliStops
<1> QED
  BY <1>1, <1>2, <1>3, <1>4, <1>5

LEMMA KilledIssued ==
    ASSUME TypeOK, TypeOK', Issued, Atomic!Answer \/ Atomic!NoAnswer, NEW S \in SUBSET Worker, Killed(S)
    PROVE  Issued'
<1>1. \A w \in Worker : work'[w] = IF w \in S THEN Idle ELSE work[w]
  BY DEF Killed
<1> QED
  BY <1>1, IdleCarries, BesideIssued DEF Killed

LEMMA ClaudeIssued ==
    ASSUME TypeOK, TypeOK', Issued, Atomic!Answer \/ Atomic!NoAnswer, NEW c \in Claude,
           ClaudeStep(c) \/ \E w \in Worker : CliLaunch(w, c)
    PROVE  Issued'
<1> USE DEF chainVars, sessionVars
<1>1. ASSUME NEW p \in Worker, NEW x \in {[Idle EXCEPT !.pc = "scan"], Idle},
             work' = [Overlooked(c) EXCEPT ![p] = x], UNCHANGED <<stored, held>>
      PROVE  Issued'
  <2>1. Overlooked(c) \in [Worker -> WorkState]
    BY GoneFields
  <2>2. work'[p] = x /\ \A v \in Worker : v # p => work'[v] = Overlooked(c)[v]
    BY <1>1, <2>1
  <2>3. x.cred = None /\ x.new = None
    BY DEF Idle
  <2>4. \A v \in Worker : \/ work'[v].cred = work[v].cred /\ work'[v].new = work[v].new
                          \/ work'[v].cred = None /\ work'[v].new = None
    <3>1. \A v \in Worker : /\ Overlooked(c)[v].cred = work[v].cred
                            /\ Overlooked(c)[v].new = work[v].new
      BY GoneFields
    <3> QED
      BY <2>2, <2>3, <3>1
  <2> QED
    BY <1>1, <2>4, BesideIssued
<1>2. ASSUME NEW p \in Preflight, SelectServed(p, c)
      PROVE  Issued'
  BY <1>1, <1>2 DEF Worker, SelectServed
<1>3. ASSUME NEW w \in Worker, CliLaunch(w, c)
      PROVE  Issued'
  BY <1>1, <1>3 DEF CliLaunch
<1>4. CASE Launch(c) \/ Ends(c) \/ KillClaude(c)
  <2>1. \A v \in Worker : work'[v].cred = work[v].cred /\ work'[v].new = work[v].new
    BY <1>4, GoneFields DEF Launch, Ends, KillClaude
  <2>2. stored' = stored /\ held' \in {held, 0}
    BY <1>4 DEF Launch, Ends, KillClaude
  <2> QED
    BY <2>1, <2>2, BesideIssued
<1>5. CASE Rotate(c)
  <2>1. work' = work /\ (stored' = stored \/ stored' = None) /\ (held' = held \/ held' = issued')
    BY <1>5 DEF Rotate, Issue
  <2> QED
    BY <2>1, BesideIssued
<1>6. CASE Rotated(c)
  BY <1>6, BesideIssued DEF Rotated
<1>7. CASE Login(c)
  <2>1. work' = work /\ held' = held /\ stored' = issued'
    BY <1>7 DEF Login, Issue
  <2> QED
    BY <2>1, BesideIssued
<1> QED
  BY <1>2, <1>3, <1>4, <1>5, <1>6, <1>7 DEF ClaudeStep

LEMMA IssuedKept == TypeOK /\ Issued /\ [Next]_vars /\ TypeOK' => Issued'
<1> SUFFICES ASSUME TypeOK, Issued, [Next]_vars, TypeOK'
             PROVE  Issued'
  OBVIOUS
<1>0. Atomic!Answer \/ Atomic!NoAnswer
  BY ProviderRules
<1>1. CASE PollScan \/ PollDecide
  BY <1>0, <1>1, ScanIssued
<1>2. CASE Expire \/ UNCHANGED vars
  BY <1>0, <1>2, BesideIssued DEF Expire, vars, chainVars, sessionVars
<1>3. CASE KillDaemon
  BY <1>0, <1>3, KilledIssued DEF KillDaemon
<1>4. ASSUME NEW w \in Worker, WorkerStep(w)
      PROVE  Issued'
  <2>1. CASE KillCli(w)
    BY <1>0, <2>1, KilledIssued DEF KillCli
  <2>2. CASE \/ LockToAdopt(w) \/ WriteBack(w) \/ (\E nearExpiry \in BOOLEAN : LockToRefresh(w, nearExpiry))
             \/ GivesUp(w) \/ Post(w) \/ Save(w) \/ Usage(w)
    BY <1>0, <2>2, CycleCarries, CarriesIssued
  <2> QED
    BY <1>0, <1>4, <2>1, <2>2, ScanIssued, ClaudeIssued DEF WorkerStep
<1>5. ASSUME NEW c \in Claude, ClaudeStep(c)
      PROVE  Issued'
  BY <1>0, <1>5, ClaudeIssued
<1> QED
  BY <1>1, <1>2, <1>3, <1>4, <1>5 DEF Next

(* What the account has, by who is at work.                                *)
LEMMA KeptBySaver ==
    ASSUME LockHeld, NEW w \in Worker, work[w].pc = "save"
    PROVE  Savers = {w} /\ Kept = work[w].new
<1>1. Savers = {w}
  BY DEF Savers, LockHeld, Critical
<1> QED
  BY <1>1 DEF Kept

LEMMA KeptElse == Savers = {} => Kept = IF Rotating THEN held ELSE stored
BY DEF Kept

HasNewest ==
    /\ Savers # {} \/ Rotating => Kept = issued
    /\ Savers = {} /\ ~Rotating => Kept = stored /\ Whole
    /\ Atomic!Usable /\ Kept \in Nat /\ Kept <= issued

LEMMA KeptIs == TypeOK /\ LockHeld /\ Blameless /\ Issued => HasNewest
<1> SUFFICES ASSUME TypeOK, LockHeld, Blameless, Issued
             PROVE  HasNewest
  OBVIOUS
<1>0. issued \in Nat /\ valid \in Nat /\ valid <= issued
  BY DEF TypeOK, Cred
<1>1. Savers # {} => Kept = issued
  <2>1. ASSUME NEW w \in Worker, work[w].pc = "save"
        PROVE  Kept = issued
    BY <2>1, KeptBySaver DEF Blameless
  <2> QED
    BY <2>1 DEF Savers
<1>2. Savers = {} /\ Rotating => Kept = issued
  BY KeptElse DEF Blameless
<1>3. Savers = {} /\ ~Rotating => Kept = stored /\ Whole
  BY KeptElse DEF Blameless, Savers
<1>4. CASE Savers # {} \/ Rotating
  BY <1>0, <1>1, <1>2, <1>3, <1>4, NoneNoWorker DEF Atomic!Usable, HasNewest
<1>5. CASE Savers = {} /\ ~Rotating
  <2>1. Kept = stored /\ stored # None /\ stored >= valid /\ stored <= issued
    BY <1>3, <1>5 DEF Whole, Issued, UpTo
  <2> QED
    BY <1>3, <1>5, <2>1 DEF Atomic!Usable, TypeOK, Cred, HasNewest
<1> QED
  BY <1>4, <1>5

LEMMA KeptWillBe == TypeOK' /\ LockHeld' /\ Blameless' /\ Issued' => HasNewest'
BY KeptIs, PTL

(* A chain that is broken.                                                 *)
Past == excuse = {} /\ Whole /\ ~Rotating /\ lock = None

LEMMA SettlePast == ASSUME NEW blame, Settle(blame)
                    PROVE  excuse \subseteq excuse' \/ Past'
BY DEF Settle, Past

LEMMA ExcuseMoves == ASSUME [Next]_vars
                     PROVE  excuse \subseteq excuse' \/ Past'
<1> USE DEF chainVars, sessionVars
<1>1. CASE PollScan \/ PollDecide \/ Expire \/ KillDaemon \/ UNCHANGED vars
  BY <1>1 DEF PollScan, PollDecide, Expire, KillDaemon, Killed, vars
<1>2. ASSUME NEW w \in Worker, WorkerStep(w)
      PROVE  excuse \subseteq excuse' \/ Past'
  <2>1. CASE WriteBack(w) \/ Post(w) \/ Save(w) \/ Usage(w)
    BY <2>1, SettlePast DEF WriteBack, Post, Save, Usage
  <2>2. CASE LockToAdopt(w) \/ (\E nearExpiry \in BOOLEAN : LockToRefresh(w, nearExpiry)) \/ GivesUp(w)
    BY <2>2 DEF LockToAdopt, LockToRefresh, Enter, GivesUp
  <2>3. CASE \/ PreflightScan(w) \/ CliSample(w) \/ CliPrepare(w) \/ CliStops(w) \/ KillCli(w)
             \/ \E c \in Claude : CliLaunch(w, c)
    BY <2>3 DEF PreflightScan, CliSample, CliPrepare, CliStops, KillCli, Killed, CliLaunch
  <2> QED
    BY <1>2, <2>1, <2>2, <2>3 DEF WorkerStep
<1>3. ASSUME NEW c \in Claude, ClaudeStep(c)
      PROVE  excuse \subseteq excuse' \/ Past'
  <2>1. CASE Rotated(c) \/ Login(c)
    BY <2>1, SettlePast DEF Rotated, Login
  <2>2. CASE Launch(c) \/ Ends(c) \/ Rotate(c) \/ KillClaude(c) \/ \E p \in Preflight : SelectServed(p, c)
    BY <2>2 DEF Launch, Ends, Rotate, KillClaude, SelectServed
  <2> QED
    BY <1>3, <2>1, <2>2 DEF ClaudeStep
<1> QED
  BY <1>1, <1>2, <1>3 DEF Next

LEMMA BrokenStep ==
    ASSUME TypeOK', LockHeld', excuse # {}, [Next]_vars
    PROVE  Atomic!RefreshNext
<1>0. Atomic!Answer \/ Atomic!NoAnswer
  BY ProviderRules
<1>1. CASE excuse \subseteq excuse'
  <2>1. Atomic!Broken
    BY <1>0, <1>1 DEF Atomic!Broken
  <2> QED
    BY <2>1 DEF Atomic!RefreshNext
<1>2. CASE Past'
  <2>1. Savers' = {}
    BY <1>2, NoneNoWorker DEF Past, LockHeld, Savers, Critical
  <2>2. Kept' = stored' /\ Whole' /\ excuse' = {}
    BY <1>2, <2>1 DEF Kept, Past
  <2>3. Atomic!Mend
    BY <1>0, <2>2 DEF Atomic!Mend, Atomic!Usable, Whole
  <2> QED
    BY <2>3 DEF Atomic!RefreshNext
<1> QED
  BY <1>1, <1>2, ExcuseMoves

(* Steps that have nothing to do with what the account has.                *)
Beside ==
    /\ UNCHANGED <<stored, issued, valid, held, excuse, lock>>
    /\ \A c \in Claude : session'[c] = "rotating" <=> session[c] = "rotating"
    /\ \A w \in Worker : lock = w => work'[w].pc = work[w].pc /\ work'[w].new = work[w].new

LEMMA BesideKeeps == ASSUME LockHeld, LockHeld', Beside
                     PROVE  UNCHANGED Atomic!refreshVars
<1>1. Rotating' <=> Rotating
  BY DEF Beside, Rotating
<1>2. \A w \in Worker : work'[w].pc \in Critical <=> work[w].pc \in Critical
  BY DEF Beside, LockHeld
<1>3. \A w \in Worker : work[w].pc \in Critical =>
        work'[w].pc = work[w].pc /\ work'[w].new = work[w].new
  BY DEF Beside, LockHeld
<1>4. Savers' = Savers
  BY <1>2, <1>3 DEF Savers, Critical
<1>5. Kept' = Kept
  <2>1. CASE Savers = {}
    BY <1>1, <1>4, <2>1 DEF Kept, Beside
  <2>2. ASSUME NEW w \in Worker, work[w].pc = "save"
        PROVE  Kept' = Kept
    <3>1. Savers = {w} /\ Savers' = {w} /\ work'[w].new = work[w].new
      BY <1>3, <1>4, <2>2, KeptBySaver DEF Critical
    <3> QED
      BY <3>1 DEF Kept
  <2> QED
    BY <2>1, <2>2 DEF Savers
<1> QED
  BY <1>5 DEF Beside, Atomic!refreshVars

LEMMA StepIsBeside ==
    ASSUME TypeOK, LockHeld, NEW w \in Worker, NEW x, Step(w, x), work[w].pc \notin Critical,
           UNCHANGED <<stored, issued, valid, held, excuse, lock, session>>
    PROVE  Beside
<1>1. lock # w
  BY DEF LockHeld
<1>2. \A v \in Worker : v # w => work'[v] = work[v]
  BY DEF Step, TypeOK
<1> QED
  BY <1>1, <1>2 DEF Beside

LEMMA ScanBeside ==
    ASSUME TypeOK, LockHeld,
           PollScan \/ PollDecide \/ \E w \in Worker : PreflightScan(w) \/ CliSample(w)
                                                       \/ CliPrepare(w) \/ CliStops(w)
    PROVE  Beside
<1>1. CASE PollScan \/ PollDecide
  BY <1>1, StepIsBeside DEF PollScan, PollDecide, chainVars, sessionVars, Critical, Worker
<1>2. ASSUME NEW w \in Worker, PreflightScan(w) \/ CliSample(w) \/ CliPrepare(w) \/ CliStops(w)
      PROVE  Beside
  BY <1>2, StepIsBeside DEF PreflightScan, CliSample, CliPrepare, CliStops, chainVars, sessionVars, Critical
<1> QED
  BY <1>1, <1>2

LEMMA ClaudeBeside ==
    ASSUME TypeOK, LockHeld, NEW c \in Claude,
           \/ Launch(c) \/ Ends(c) \/ (\E p \in Preflight : SelectServed(p, c))
           \/ \E w \in Worker : CliLaunch(w, c)
    PROVE  Beside
<1> USE DEF chainVars, sessionVars
<1>1. ASSUME NEW p \in Worker, work[p].pc \notin Critical, NEW x,
             NEW where \in {"launching", "live"}, Appears(c, where),
             work' = [Overlooked(c) EXCEPT ![p] = x],
             UNCHANGED <<stored, issued, valid, held, excuse, lock>>
      PROVE  Beside
  <2>1. Overlooked(c) \in [Worker -> WorkState]
    BY GoneFields
  <2>2. \A v \in Worker : v # p => work'[v] = Overlooked(c)[v]
    BY <1>1, <2>1
  <2>3. \A v \in Worker : Overlooked(c)[v].pc = work[v].pc /\ Overlooked(c)[v].new = work[v].new
    BY GoneFields
  <2>4. lock # p
    BY <1>1 DEF LockHeld
  <2>5. \A d \in Claude : session'[d] = "rotating" <=> session[d] = "rotating"
    BY <1>1 DEF Appears, TypeOK
  <2> QED
    BY <1>1, <2>2, <2>3, <2>4, <2>5 DEF Beside
<1>2. ASSUME NEW p \in Preflight, SelectServed(p, c)
      PROVE  Beside
  BY <1>1, <1>2 DEF SelectServed, Worker, Critical
<1>3. ASSUME NEW w \in Worker, CliLaunch(w, c)
      PROVE  Beside
  BY <1>1, <1>3 DEF CliLaunch, Critical
<1>4. CASE Launch(c) \/ Ends(c)
  <2>1. \A v \in Worker : work'[v].pc = work[v].pc /\ work'[v].new = work[v].new
    BY <1>4, GoneFields DEF Launch, Ends
  <2>2. \A d \in Claude : session'[d] = "rotating" <=> session[d] = "rotating"
    BY <1>4 DEF Launch, Ends, Vanishes, TypeOK
  <2> QED
    BY <1>4, <2>1, <2>2 DEF Launch, Ends, Beside
<1> QED
  BY <1>2, <1>3, <1>4

(* A worker whose step the provider does not answer is not one that saves. *)
LEMMA CycleSavers ==
    ASSUME TypeOK, NEW w \in Worker, Atomic!NoAnswer,
           \/ LockToAdopt(w) \/ WriteBack(w) \/ (\E nearExpiry \in BOOLEAN : LockToRefresh(w, nearExpiry))
           \/ GivesUp(w) \/ Post(w) \/ Save(w) \/ Usage(w)
    PROVE  Savers' = Savers \ {w} /\ (Rotating' <=> Rotating)
<1> USE DEF chainVars, sessionVars
<1>k. work[w].cred \in Cred \cup {None} /\ work[w].new \in Cred \cup {None}
  BY KnownAre DEF Known
<1>n. NextJob(w) \in WorkState /\ NextJob(w).pc # "save"
  BY NextJobFields
<1>w. work[w] \in WorkState
  BY DEF TypeOK
<1>s. session' = session
  BY DEF LockToAdopt, WriteBack, LockToRefresh, GivesUp, Post, Save, Usage
<1>1. work'[w].pc # "save"
  <2>1. CASE LockToAdopt(w)
    <3> DEFINE x == [At(w, "adopt") EXCEPT !.cred = stored]
    <3>1. At(w, "adopt") \in WorkState /\ At(w, "adopt").pc = "adopt"
      BY AtFields DEF Pc
    <3>2. x \in WorkState /\ x.pc = "adopt"
      BY <3>1, KnownAre DEF WorkState, Known
    <3>3. Step(w, x)
      BY <2>1 DEF LockToAdopt
    <3> HIDE DEF x
    <3> QED
      BY <3>2, <3>3, StepFields
  <2>2. CASE WriteBack(w)
    BY <2>2, <1>k, LastCarries DEF WriteBack
  <2>3. ASSUME NEW nearExpiry \in BOOLEAN, LockToRefresh(w, nearExpiry)
        PROVE  work'[w].pc # "save"
    <3> DEFINE x(pc, then) == [work[w] EXCEPT !.pc = pc, !.cred = stored, !.then = then]
    <3>1. \A pc \in {"post", "usage"}, then \in {"usage", "done"} :
            x(pc, then) \in WorkState /\ x(pc, then).pc = pc
      BY <1>w, KnownAre DEF WorkState, Pc, Known
    <3>2. \/ Step(w, NextJob(w))
          \/ \E pc \in {"post", "usage"}, then \in {"usage", "done"} : Step(w, x(pc, then))
      BY <2>3 DEF LockToRefresh
    <3> HIDE DEF x
    <3> QED
      BY <1>n, <3>1, <3>2, StepFields
  <2>4. CASE GivesUp(w)
    BY <1>n, <2>4, StepFields DEF GivesUp
  <2>5. CASE Post(w)
    <3>1. issued' # issued + 1
      BY DEF TypeOK, Cred, Atomic!NoAnswer
    <3>2. Proceed(w, work[w].cred)
      BY <2>5, <3>1 DEF Post, Issue
    <3> QED
      BY <1>k, <3>2, LastCarries
  <2>6. CASE Save(w)
    BY <2>6, <1>k, LastCarries DEF Save
  <2>7. CASE Usage(w)
    <3>1. CASE Finish(w)
      BY <1>k, <3>1, LastCarries
    <3>2. CASE Step(w, At(w, "post"))
      BY <3>2, AtFields, StepFields DEF Pc
    <3> QED
      BY <2>7, <3>1, <3>2 DEF Usage
  <2> QED
    BY <2>1, <2>2, <2>3, <2>4, <2>5, <2>6, <2>7
<1>2. \A v \in Worker : v # w => work'[v] = work[v]
  BY CycleCarries DEF Carries
<1> QED
  BY <1>1, <1>2, <1>s DEF Savers, Rotating

(* With nothing to blame before and after, a step that the provider does    *)
(* not answer changes nothing, or falls back; one that it answers leaves    *)
(* somebody who has the answer.                                            *)
Sound == IInv /\ Issued

LEMMA QuietStep ==
    ASSUME Sound, Sound', excuse = {}, excuse' = {}, Atomic!NoAnswer,
           Savers = {} /\ ~Rotating => Savers' = {} /\ ~Rotating' /\ stored' = stored
    PROVE  [Atomic!RefreshNext]_(Atomic!refreshVars)
<1>1. HasNewest /\ HasNewest'
  BY KeptIs, KeptWillBe DEF Sound, IInv, ChainInv
<1>2. CASE Kept' = Kept
  BY <1>2 DEF Atomic!refreshVars, Atomic!NoAnswer
<1>3. CASE Kept' # Kept
  <2>1. Kept = issued
    BY <1>1, <1>3 DEF HasNewest
  <2>2. Kept' \in Nat /\ Kept' <= issued /\ Kept' >= valid /\ issued \in Nat /\ valid \in Nat
    BY <1>1 DEF HasNewest, Atomic!Usable, Atomic!NoAnswer, Sound, IInv, TypeOK, Cred
  <2>3. Kept > valid /\ Kept' \in valid..Kept
    BY <1>3, <2>1, <2>2
  <2>4. Atomic!FallBack
    BY <2>3 DEF Atomic!FallBack
  <2> QED
    BY <2>4 DEF Atomic!RefreshNext
<1> QED
  BY <1>2, <1>3

LEMMA AnsweredStep ==
    ASSUME Sound, Sound', excuse = {}, excuse' = {}, Atomic!Answer, Savers' # {} \/ Rotating'
    PROVE  Atomic!Refresh
<1>1. HasNewest /\ HasNewest'
  BY KeptIs, KeptWillBe DEF Sound, IInv, ChainInv
<1> QED
  BY <1>1 DEF HasNewest, Atomic!Refresh

(* A worker enters while a claude rotates.                                 *)
LEMMA EnterStep ==
    ASSUME Sound, Sound', excuse = {}, NEW w \in Worker, Enter(w), Atomic!NoAnswer,
           stored' = stored, held' = held, Savers' = Savers \ {w}, Rotating' <=> Rotating
    PROVE  [Atomic!RefreshNext]_(Atomic!refreshVars)
<1>1. CASE ~Rotating
  BY <1>1, QuietStep DEF Enter
<1>2. CASE Rotating
  <2>1. excuse' = {"overlap"}
    BY <1>2 DEF Enter
  <2>2. Savers = {}
    BY <1>2, NoneNoWorker DEF Sound, IInv, ChainInv, Blameless, LockHeld, Savers, Critical
  <2>3. Kept' = Kept
    BY <1>2, <2>2 DEF Kept
  <2>4. Atomic!Meet
    BY <2>1, <2>3 DEF Atomic!Meet
  <2> QED
    BY <2>4 DEF Atomic!RefreshNext
<1> QED
  BY <1>1, <1>2

LEMMA PostStep ==
    ASSUME Sound, Sound', excuse = {}, NEW w \in Worker, Post(w)
    PROVE  [Atomic!RefreshNext]_(Atomic!refreshVars)
<1> USE DEF sessionVars
<1>t. TypeOK /\ LockHeld /\ Blameless
  BY DEF Sound, IInv, ChainInv
<1>l. lock = w /\ ~Rotating /\ Savers = {}
  BY <1>t, Alone DEF Post, LockHeld, Critical, Savers
<1>n. HasNewest
  BY <1>t, KeptIs DEF Sound
<1>c. Carries(w) /\ stored' = stored /\ ~Rotating'
  BY <1>t, <1>l, CycleCarries DEF Post, Rotating
<1>1. ASSUME NEW rotated \in BOOLEAN, Issue(rotated),
             Step(w, [At(w, "save") EXCEPT !.new = Renewed(rotated, issued + 1)]), UNCHANGED excuse
      PROVE  Atomic!Refresh
  <2> DEFINE x == [At(w, "save") EXCEPT !.new = issued + 1]
  <2>1. At(w, "save") \in WorkState /\ At(w, "save").pc = "save"
    BY <1>t, AtFields DEF Pc
  <2>2. issued + 1 \in Cred
    BY <1>t, <1>1, IssueTypes
  <2>3. x \in WorkState /\ x.pc = "save"
    BY <2>1, <2>2 DEF WorkState
  <2>4. Step(w, x)
    BY <1>1 DEF Renewed
  <2> HIDE DEF x
  <2>5. w \in Savers'
    BY <1>t, <2>3, <2>4, StepFields DEF Savers
  <2> QED
    BY <1>1, <2>5, IssueAnswers, AnsweredStep
<1>2. CASE UNCHANGED <<issued, valid, faults>> /\ Settle({})
  <2>1. Atomic!NoAnswer /\ excuse' = {}
    BY <1>2 DEF Settle, Atomic!NoAnswer
  <2>2. Savers' = {}
    BY <1>t, <1>l, <2>1, CycleSavers
  <2> QED
    BY <1>c, <2>1, <2>2, QuietStep
<1>3. CASE Issue(TRUE) /\ Proceed(w, work[w].cred) /\ Settle({"lost"})
  <2>1. issued' = issued + 1 /\ valid' = issued + 1
    BY <1>3 DEF Issue
  <2>2. ~Whole'
    BY <1>c, <2>1 DEF Whole, Sound, Issued, UpTo, IInv, TypeOK, Cred
  <2>3. excuse' = {"lost"}
    BY <1>3, <2>2 DEF Settle
  <2>4. work'[w].pc # "save"
    BY <1>t, <1>3, KnownAre, LastCarries DEF Known
  <2>5. Savers' = {}
    BY <1>l, <1>c, <2>4 DEF Carries, Savers
  <2>6. Kept' = Kept
    BY <1>l, <1>c, <2>5 DEF Kept
  <2>7. Atomic!Answer
    BY <2>1 DEF Atomic!Answer
  <2>8. Atomic!Lose
    BY <1>n, <2>1, <2>3, <2>6, <2>7 DEF Atomic!Lose, HasNewest
  <2> QED
    BY <2>8 DEF Atomic!RefreshNext
<1>4. \/ \E rotated \in BOOLEAN :
           /\ Issue(rotated) /\ UNCHANGED excuse
           /\ Step(w, [At(w, "save") EXCEPT !.new = Renewed(rotated, issued + 1)])
      \/ UNCHANGED <<issued, valid, faults>> /\ Settle({})
      \/ Issue(TRUE) /\ Proceed(w, work[w].cred) /\ Settle({"lost"})
  BY DEF Post
<1> QED
  BY <1>1, <1>2, <1>3, <1>4 DEF Atomic!RefreshNext

LEMMA CycleStep ==
    ASSUME Sound, Sound', excuse = {}, NEW w \in Worker,
           \/ LockToAdopt(w) \/ WriteBack(w) \/ (\E nearExpiry \in BOOLEAN : LockToRefresh(w, nearExpiry))
           \/ GivesUp(w) \/ Save(w) \/ Usage(w)
    PROVE  [Atomic!RefreshNext]_(Atomic!refreshVars)
<1> USE DEF chainVars, sessionVars
<1>t. TypeOK /\ LockHeld /\ Blameless
  BY DEF Sound, IInv, ChainInv
<1>a. Atomic!NoAnswer
  BY DEF LockToAdopt, WriteBack, LockToRefresh, GivesUp, Save, Usage, Atomic!NoAnswer
<1>s. Savers' = Savers \ {w} /\ (Rotating' <=> Rotating)
  BY <1>t, <1>a, CycleSavers
<1>1. CASE LockToAdopt(w)
  BY <1>1, <1>a, <1>s, EnterStep DEF LockToAdopt
<1>2. CASE WriteBack(w)
  <2>1. work[w].cred = stored
    BY <1>t, <1>2, Alone DEF WriteBack, LockHeld, Critical
  <2>2. stored' = stored /\ excuse' = {}
    BY <1>2, <2>1 DEF WriteBack, Settle
  <2> QED
    BY <1>a, <1>s, <2>2, QuietStep
<1>3. ASSUME NEW nearExpiry \in BOOLEAN, LockToRefresh(w, nearExpiry)
      PROVE  [Atomic!RefreshNext]_(Atomic!refreshVars)
  <2>1. stored' = stored /\ held' = held /\ (Enter(w) \/ excuse' = {})
    BY <1>3 DEF LockToRefresh
  <2> QED
    BY <1>a, <1>s, <2>1, EnterStep, QuietStep
<1>4. CASE GivesUp(w)
  BY <1>4, <1>a, <1>s, QuietStep DEF GivesUp
<1>5. CASE Save(w)
  <2>1. w \in Savers
    BY <1>5 DEF Save, Savers
  <2>2. excuse' = {} \/ excuse' = {"unsaved"}
    BY <1>5 DEF Save, Settle
  <2>3. CASE excuse' = {"unsaved"}
    BY <1>a, <2>3 DEF Atomic!Drop, Atomic!RefreshNext
  <2> QED
    BY <1>a, <2>1, <2>2, <2>3, QuietStep
<1>6. CASE Usage(w)
  BY <1>6, <1>a, <1>s, QuietStep DEF Usage, Settle
<1> QED
  BY <1>1, <1>2, <1>3, <1>4, <1>5, <1>6

LEMMA KilledStep ==
    ASSUME Sound, Sound', excuse = {}, NEW S \in SUBSET Worker, Killed(S)
    PROVE  [Atomic!RefreshNext]_(Atomic!refreshVars)
<1>a. Atomic!NoAnswer
  BY DEF Killed, Atomic!NoAnswer
<1>1. CASE excuse' = {"killed"}
  BY <1>a, <1>1 DEF Atomic!Drop, Atomic!RefreshNext
<1>2. CASE excuse' = {}
  <2>1. Savers = {} => Savers' = {}
    BY IdleFields DEF Killed, Savers
  <2>2. stored' = stored /\ (Rotating' <=> Rotating)
    BY DEF Killed, Rotating
  <2> QED
    BY <1>a, <1>2, <2>1, <2>2, QuietStep
<1> QED
  BY <1>1, <1>2 DEF Killed

LEMMA ClaudeAtomic ==
    ASSUME Sound, Sound', excuse = {}, NEW c \in Claude, Rotate(c) \/ Rotated(c) \/ Login(c) \/ KillClaude(c)
    PROVE  [Atomic!RefreshNext]_(Atomic!refreshVars)
<1>t. TypeOK /\ LockHeld /\ Blameless
  BY DEF Sound, IInv, ChainInv
<1>n. HasNewest
  BY <1>t, KeptIs DEF Sound
<1>1. CASE Rotate(c) /\ Accepts(stored)
  <2>1. /\ \E rotated \in BOOLEAN : Issue(rotated)
        /\ held' = issued' /\ session' = [session EXCEPT ![c] = "rotating"] /\ work' = work
        /\ excuse' = IF lock = None THEN excuse ELSE excuse \cup {"overlap"}
    BY <1>1 DEF Rotate, Issue
  <2>2. Atomic!Answer /\ Rotating'
    BY <1>t, <2>1, IssueAnswers DEF Rotating, TypeOK
  <2>3. CASE lock = None
    BY <2>1, <2>2, <2>3, AnsweredStep DEF Atomic!RefreshNext
  <2>4. CASE lock # None
    <3>1. excuse' = {"overlap"}
      BY <2>1, <2>4
    <3>2. Savers' = Savers
      BY <2>1 DEF Savers
    <3>3. Savers = {} => Kept' = issued'
      BY <2>1, <2>2, <3>2 DEF Kept
    <3>4. Savers # {} => Kept' = Kept
      BY <2>1, <3>2 DEF Kept
    <3>5. Atomic!Meet
      BY <2>2, <3>1, <3>3, <3>4 DEF Atomic!Meet
    <3> QED
      BY <3>5 DEF Atomic!RefreshNext
  <2> QED
    BY <2>3, <2>4
<1>2. CASE Rotate(c) /\ ~Accepts(stored)
  <2>1. UNCHANGED <<issued, valid, held, session, excuse, work>> /\ ~Rotating
    BY <1>2 DEF Rotate
  <2>2. Savers # {}
    BY <1>2, <1>n, <2>1 DEF HasNewest, Whole, Accepts
  <2> QED
    BY <2>1, <2>2, QuietStep DEF Atomic!NoAnswer
<1>3. CASE Rotated(c)
  <2>1. Rotating /\ excuse' = {} /\ Atomic!NoAnswer
    BY <1>3 DEF Rotated, Rotating, Settle, Atomic!NoAnswer
  <2> QED
    BY <2>1, QuietStep
<1>4. CASE Login(c)
  <2>1. ~Rotating /\ ~Whole /\ Issue(TRUE) /\ UNCHANGED <<lock, work, session>> /\ Settle({"overlap"})
    BY <1>4 DEF Login, sessionVars
  <2>2. PICK w \in Worker : work[w].pc = "save"
    BY <1>n, <2>1 DEF HasNewest, Savers
  <2>3. excuse' = {"overlap"}
    BY <1>t, <2>1, <2>2, NoneNoWorker DEF Settle, LockHeld, Critical
  <2>4. Savers' = Savers /\ Savers # {}
    BY <2>1, <2>2 DEF Savers
  <2>5. Kept' = Kept
    BY <2>1, <2>4 DEF Kept
  <2>6. Atomic!Meet
    BY <2>1, <2>3, <2>5, IssueAnswers DEF Atomic!Meet
  <2> QED
    BY <2>6 DEF Atomic!RefreshNext
<1>5. CASE KillClaude(c)
  <2>1. excuse' = {"killed"} /\ Atomic!NoAnswer
    BY <1>5 DEF KillClaude, Atomic!NoAnswer
  <2> QED
    BY <2>1 DEF Atomic!Drop, Atomic!RefreshNext
<1> QED
  BY <1>1, <1>2, <1>3, <1>4, <1>5

LEMMA AtomicStep == Sound /\ Sound' /\ [Next]_vars => [Atomic!RefreshNext]_(Atomic!refreshVars)
<1> SUFFICES ASSUME Sound, Sound', [Next]_vars
             PROVE  [Atomic!RefreshNext]_(Atomic!refreshVars)
  OBVIOUS
<1>t. TypeOK /\ LockHeld /\ TypeOK' /\ LockHeld'
  BY DEF Sound, IInv, ChainInv
<1>0. CASE excuse # {}
  BY <1>0, <1>t, BrokenStep
<1>1. CASE Beside
  BY <1>1, <1>t, BesideKeeps
<1>2. CASE excuse = {} /\ ~Beside
  <2>1. CASE PollScan \/ PollDecide
    BY <1>2, <1>t, <2>1, ScanBeside
  <2>2. CASE Expire \/ UNCHANGED vars
    BY <1>2, <2>2 DEF Expire, vars, chainVars, sessionVars, Beside
  <2>3. CASE KillDaemon
    BY <1>2, <2>3, KilledStep DEF KillDaemon
  <2>4. ASSUME NEW w \in Worker, WorkerStep(w)
        PROVE  [Atomic!RefreshNext]_(Atomic!refreshVars)
    <3>1. CASE KillCli(w)
      BY <1>2, <3>1, KilledStep DEF KillCli
    <3>2. CASE \E c \in Claude : CliLaunch(w, c)
      BY <1>2, <1>t, <3>2, ClaudeBeside
    <3> QED
      BY <1>2, <1>t, <2>4, <3>1, <3>2, ScanBeside, PostStep, CycleStep DEF WorkerStep
  <2>5. ASSUME NEW c \in Claude, ClaudeStep(c)
        PROVE  [Atomic!RefreshNext]_(Atomic!refreshVars)
    BY <1>2, <1>t, <2>5, ClaudeBeside, ClaudeAtomic DEF ClaudeStep
  <2> QED
    BY <2>1, <2>2, <2>3, <2>4, <2>5 DEF Next
<1> QED
  BY <1>0, <1>1, <1>2

LEMMA AtomicInit == Init => Atomic!RefreshInit /\ Issued
<1> SUFFICES ASSUME Init
             PROVE  Atomic!RefreshInit /\ Issued
  OBVIOUS
<1>1. Savers = {} /\ ~Rotating
  BY IdleFields DEF Init, Savers, Rotating
<1>2. Kept = 0
  BY <1>1 DEF Kept, Init
<1>3. Issued
  BY IdleCarries DEF Init, Issued, UpTo
<1> QED
  BY <1>2, <1>3 DEF Init, Atomic!RefreshInit

LEMMA SoundInvariant == Spec => []Sound
<1>1. Init => Sound
  BY IInvInit, AtomicInit DEF Sound
<1>2. Sound /\ [Next]_vars => Sound'
  <2>1. IInv => TypeOK
    BY DEF IInv
  <2>2. IInv' => TypeOK'
    BY <2>1, PTL
  <2> QED
    BY <2>1, <2>2, IInvStep, IssuedKept DEF Sound
<1> QED
  BY <1>1, <1>2, PTL DEF Spec

(* For any number of workers, processes and claudes, reads, requests and    *)
(* writes add up to refreshes that ask and store in one step, until one of  *)
(* the named causes breaks the chain (ensureFreshToken, AdoptRotatedToken). *)
THEOREM RefreshIsAtomic == Spec => RefreshesAtomic
<1>1. Spec => Atomic!RefreshInit
  BY AtomicInit DEF Spec
<1>2. Spec => [][Atomic!RefreshNext]_(Atomic!refreshVars)
  BY SoundInvariant, AtomicStep, PTL DEF Spec
<1> QED
  BY <1>1, <1>2 DEF RefreshesAtomic, Atomic!RefreshSpec

(* With nothing to blame the account always has a refresh token that the    *)
(* provider accepts, so no step makes the user log in again.               *)
THEOREM NobodyStranded == Spec => []Atomic!NeverStranded
<1>1. Sound => Atomic!NeverStranded
  <2> SUFFICES ASSUME Sound, excuse = {}
               PROVE  Atomic!Usable
    BY DEF Atomic!NeverStranded
  <2> QED
    BY KeptIs DEF Sound, IInv, ChainInv, HasNewest
<1> QED
  BY <1>1, SoundInvariant, PTL
=============================================================================
