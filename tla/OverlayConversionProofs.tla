----------------------- MODULE OverlayConversionProofs -----------------------
(***************************************************************************)
(* Proofs about OverlayConversion for any private files, any kills of the  *)
(* daemon, any number of failures and any clients.                         *)
(***************************************************************************)
EXTENDS OverlayConversion, TLAPS

(* Which program is running where a step is peculiar to it. *)
JobAt ==
    /\ op.pc \in {"unlink", "verify"} => op.job = "fuse"
    /\ op.pc = "flip" => op.job \in Kind

(* A conversion towards fuse empties every directory but for what a client *)
(* wrote after it listed.                                                  *)
Emptied ==
    /\ op.job = "fuse" /\ op.pc = "move" /\ ~op.failed =>
         \A f \in Dirs : \A v \in at["dir"][f] : <<f, v>> \in todo \/ <<"dir", f, v>> \in late
    /\ op.pc = "unlink" => \A f \in Dirs : \A v \in at["dir"][f] : <<"dir", f, v>> \in late

CustodyInv == TypeOK /\ JobAt /\ Emptied

OpType == [job : Job, pc : Pc, failed : BOOLEAN, pre : SUBSET Version]
StartType == {"pending", "visiting", "done"}

-----------------------------------------------------------------------------
(* Entries as pairs. *)

LEMMA HeldPairs ==
    ASSUME NEW root
    PROVE  /\ Held(root) \subseteq File \X Version
           /\ \A f \in File, v \in Version : <<f, v>> \in Held(root) <=> v \in at[root][f]
BY DEF Held

LEMMA InitCustody == Init => CustodyInv
<1> SUFFICES ASSUME Init PROVE CustodyInv
  OBVIOUS
<1>1. TypeOK
  BY DEF Init, TypeOK, Kind, Root, Version, Idle, Job, Pc, Session
<1> QED
  BY <1>1 DEF Init, CustodyInv, JobAt, Emptied, Idle

(* Every program ends in the idle operation. *)
LEMMA Ended ==
    ASSUME TypeOK, End
    PROVE  op' = Idle /\ todo' = {} /\ late' = {} /\ op' \in OpType /\ start' \in StartType
BY DEF TypeOK, End, Idle, Job, Pc, OpType, StartType

LEMMA Became ==
    ASSUME TypeOK, NEW job \in Job, NEW pc \in Pc, Become(job, pc)
    PROVE  /\ op'.job = job /\ op'.pc = pc /\ ~op'.failed /\ todo' = {} /\ late' = {}
           /\ op' \in OpType /\ start' = start
BY DEF TypeOK, Become, OpType

LEMMA Went ==
    ASSUME TypeOK, NEW pc \in Pc, Goto(pc)
    PROVE  /\ op'.job = op.job /\ op'.pc = pc /\ op'.failed = op.failed
           /\ op' \in OpType
           /\ todo' = todo /\ late' = late /\ start' = start
BY DEF TypeOK, Goto, OpType

LEMMA Moving ==
    ASSUME TypeOK, NEW job \in Job, GotoMove(job)
    PROVE  /\ op'.job = job /\ op'.pc = "move" /\ ~op'.failed /\ op' \in OpType
           /\ todo' = Held(From(job)) /\ todo' \subseteq File \X Version /\ late' = {}
           /\ start' = start
BY HeldPairs DEF TypeOK, GotoMove, Pc, OpType

(* A mark keeps the history in its type, and never makes it better. *)
LEMMA Marked ==
    ASSUME TypeOK, NEW S, Mark(S)
    PROVE  /\ mishap' \in {"none", "wedged", "grave"}
           /\ mishap' # "grave" => mishap # "grave" /\ S \cap Grave = {}
           /\ mishap' = "none" => mishap = "none" /\ S = {}
BY DEF Mark, TypeOK

LEMMA MarkedUnder ==
    ASSUME TypeOK, NEW S, Mark(S \cup Under), mishap' # "grave" PROVE session = "none"
<1>1. Under \cap Grave = {}
  BY Marked
<1> QED
  BY <1>1 DEF Under, Grave

(* A rename takes the entry out of one root and puts it into the other. *)
LEMMA MovedType ==
    ASSUME TypeOK, NEW f \in File, NEW v \in Version
    PROVE  Moved(f, v) \in [Root -> [File -> SUBSET Version]]
<1> DEFINE taken == [at EXCEPT ![From(op.job)][f] = @ \ Carried(f, v)]
           S == IF f \in Dirs THEN at[To(op.job)][f] \cup {v} ELSE Carried(f, v)
<1>1. From(op.job) \in Root /\ To(op.job) \in Root
  BY DEF From, To, Root
<1>2. \A r \in Root : at[r] \in [File -> SUBSET Version] /\ at[r][f] \in SUBSET Version
  BY DEF TypeOK
<1>3. [at[From(op.job)] EXCEPT ![f] = at[From(op.job)][f] \ Carried(f, v)]
        \in [File -> SUBSET Version]
  BY <1>1, <1>2
<1>4. taken \in [Root -> [File -> SUBSET Version]]
  BY <1>1, <1>3 DEF TypeOK
<1>5. S \in SUBSET Version
  BY <1>1, <1>2 DEF Carried
<1>6. [taken[To(op.job)] EXCEPT ![f] = S] \in [File -> SUBSET Version]
  <2>1. taken[To(op.job)] \in [File -> SUBSET Version]
    BY <1>1, <1>4
  <2> QED
    BY <1>5, <2>1
<1>7. [taken EXCEPT ![To(op.job)] = [taken[To(op.job)] EXCEPT ![f] = S]]
        \in [Root -> [File -> SUBSET Version]]
  BY <1>1, <1>4, <1>6
<1> QED
  BY <1>7 DEF Moved

LEMMA MovedAt ==
    ASSUME TypeOK, NEW f \in File, NEW v \in Version
    PROVE  /\ \A r \in Root, g \in File : g # f => Moved(f, v)[r][g] = at[r][g]
           /\ Moved(f, v)[From(op.job)][f] = at[From(op.job)][f] \ Carried(f, v)
           /\ Moved(f, v)[To(op.job)][f] =
                IF f \in Dirs THEN at[To(op.job)][f] \cup {v} ELSE Carried(f, v)
BY DEF Moved, From, To, Root, TypeOK

(* What a step does to the entry it takes up. *)
LEMMA MoveCases ==
    ASSUME TypeOK, NEW f \in File, NEW v \in Version, MoveEntry(f, v)
    PROVE  /\ op'.job = op.job /\ op'.pc = op.pc /\ op.pc = "move"
           /\ op' \in OpType /\ faults' \in Nat
           /\ mishap' \in {"none", "wedged", "grave"}
           /\ todo' = todo \ {<<f, v>>} /\ late' = late
           /\ \/ op' = op /\ at' = Moved(f, v) /\ (~Collides(f, v) \/ Unseen(f))
              \/ op'.failed /\ at' = at
<1>1. CASE op' = op /\ at' = Moved(f, v) /\ (~Collides(f, v) \/ Unseen(f)) /\ NoMishap
  BY <1>1 DEF MoveEntry, TypeOK, OpType, NoMishap
<1>2. CASE op' = [op EXCEPT !.failed = TRUE] /\ at' = at /\ NoMishap
  BY <1>2 DEF MoveEntry, TypeOK, OpType, NoMishap
<1>3. CASE op' = [op EXCEPT !.failed = TRUE] /\ at' = at /\ Fault("move") /\ Mark({"broken"})
  <2>1. mishap' \in {"none", "wedged", "grave"}
    BY <1>3, Marked
  <2>2. faults' \in Nat
    BY <1>3 DEF Fault, TypeOK
  <2> QED
    BY <1>3, <2>1, <2>2 DEF MoveEntry, TypeOK, OpType
<1> QED
  BY <1>1, <1>2, <1>3 DEF MoveEntry

LEMMA MoveCustody ==
    ASSUME CustodyInv, NEW f \in File, NEW v \in Version, MoveEntry(f, v)
    PROVE  CustodyInv'
<1> USE DEF CustodyInv
<1>0. /\ op'.job = op.job /\ op'.pc = op.pc /\ op.pc = "move"
      /\ op' \in OpType /\ faults' \in Nat /\ mishap' \in {"none", "wedged", "grave"}
      /\ todo' = todo \ {<<f, v>>} /\ late' = late
      /\ \/ op' = op /\ at' = Moved(f, v)
         \/ op'.failed /\ at' = at
  BY MoveCases
<1>1. at' \in [Root -> [File -> SUBSET Version]]
  BY <1>0, MovedType DEF TypeOK
<1>2. TypeOK'
  BY <1>0, <1>1 DEF TypeOK, MoveEntry, clientVars, OpType
<1>3. ASSUME op.job = "fuse", ~op'.failed, NEW g \in Dirs, NEW w \in at'["dir"][g]
      PROVE  <<g, w>> \in todo' \/ <<"dir", g, w>> \in late'
  <2>1. at' = Moved(f, v) /\ ~op.failed
    BY <1>0, <1>3
  <2>2. g \in File /\ "dir" \in Root /\ From(op.job) = "dir"
    BY <1>3, FileAssumption DEF From, Root
  <2>3. /\ g # f => Moved(f, v)["dir"][g] = at["dir"][g]
        /\ Moved(f, v)["dir"][f] = at["dir"][f] \ Carried(f, v)
    <3>1. /\ \A r \in Root, h \in File : h # f => Moved(f, v)[r][h] = at[r][h]
          /\ Moved(f, v)[From(op.job)][f] = at[From(op.job)][f] \ Carried(f, v)
      BY MovedAt
    <3> QED
      BY <2>2, <3>1
  <2>4. w \in at["dir"][g] /\ <<g, w>> # <<f, v>>
    <3>1. CASE g = f
      BY <1>3, <2>1, <2>3, <3>1 DEF Carried
    <3>2. CASE g # f
      BY <1>3, <2>1, <2>3, <3>2
    <3> QED
      BY <3>1, <3>2
  <2>5. <<g, w>> \in todo \/ <<"dir", g, w>> \in late
    BY <1>0, <1>3, <2>1, <2>4 DEF Emptied
  <2> QED
    BY <1>0, <2>4, <2>5
<1> QED
  BY <1>0, <1>2, <1>3 DEF JobAt, Emptied

LEMMA FaultTyped ==
    ASSUME TypeOK, NEW step, Fault(step) \/ UNCHANGED faults
    PROVE  faults' \in Nat
BY DEF TypeOK, Fault

(* The shapes a step of the daemon's program gives the operation. *)
Shaped ==
    \/ End
    \/ \E pc \in Pc \ {"move", "unlink", "verify", "flip"} : Goto(pc)
    \/ \E job \in Job, pc \in Pc \ {"move", "unlink", "verify", "flip"} : Become(job, pc)
    \/ \E job \in Job : GotoMove(job) /\ at' = at
    \/ Goto("unlink") /\ op.job = "fuse" /\ at' = at
         /\ \A f \in Dirs : \A v \in at["dir"][f] : <<"dir", f, v>> \in late
    \/ Goto("verify") /\ op.job = "fuse"
    \/ Goto("flip") /\ op.job \in Kind

LEMMA ShapedCustody ==
    ASSUME CustodyInv, Shaped,
           row' \in Kind, mount' \in {"none", "live", "dead"},
           at' \in [Root -> [File -> SUBSET Version]],
           links' \in BOOLEAN, vouched' \in BOOLEAN, aged' \in BOOLEAN,
           UNCHANGED <<session, reserved, crashes>>, faults' \in Nat,
           mishap' \in {"none", "wedged", "grave"}
    PROVE  CustodyInv'
<1> USE DEF CustodyInv
<1>0. ASSUME op' \in OpType, start' \in StartType, todo' \subseteq File \X Version,
             late' \subseteq Root \X File \X Version
      PROVE  TypeOK'
  BY <1>0 DEF TypeOK, OpType, StartType
<1>1. CASE End
  BY <1>0, <1>1, Ended DEF Idle, JobAt, Emptied
<1>2. ASSUME NEW pc \in Pc \ {"move"}, Goto(pc),
             pc \in {"unlink", "verify"} => op.job = "fuse",
             pc = "unlink" => at' = at
               /\ \A f \in Dirs : \A v \in at["dir"][f] : <<"dir", f, v>> \in late,
             pc = "flip" => op.job \in Kind
      PROVE  CustodyInv'
  <2>1. op'.job = op.job /\ op'.pc = pc /\ todo' = todo /\ late' = late /\ start' = start
        /\ op' \in OpType
    BY <1>2, Went
  <2>2. TypeOK'
    BY <1>0, <2>1 DEF TypeOK, StartType
  <2> QED
    BY <1>2, <2>1, <2>2 DEF JobAt, Emptied
<1>3. ASSUME NEW job \in Job, NEW pc \in Pc \ {"move", "unlink", "verify", "flip"},
             Become(job, pc)
      PROVE  CustodyInv'
  <2>1. op'.job = job /\ op'.pc = pc /\ todo' = {} /\ late' = {} /\ start' = start
        /\ op' \in OpType
    BY <1>3, Became
  <2>2. TypeOK'
    BY <1>0, <2>1 DEF TypeOK, StartType
  <2> QED
    BY <2>1, <2>2 DEF JobAt, Emptied
<1>4. ASSUME NEW job \in Job, GotoMove(job), at' = at
      PROVE  CustodyInv'
  <2>1. op'.job = job /\ op'.pc = "move" /\ todo' = Held(From(job)) /\ start' = start
        /\ op' \in OpType /\ todo' \subseteq File \X Version /\ late' = {}
    BY <1>4, Moving
  <2>2. TypeOK'
    BY <1>0, <2>1 DEF TypeOK, StartType
  <2>3. ASSUME job = "fuse", NEW f \in Dirs, NEW v \in at["dir"][f] PROVE <<f, v>> \in todo'
    <3>1. f \in File /\ v \in Version
      BY <2>3, FileAssumption DEF TypeOK, Root
    <3> QED
      BY <2>1, <2>3, <3>1, HeldPairs DEF From
  <2> QED
    BY <1>4, <2>1, <2>2, <2>3 DEF JobAt, Emptied
<1>5. CASE \E pc \in Pc \ {"move", "unlink", "verify", "flip"} : Goto(pc)
  BY <1>2, <1>5
<1>6. CASE \/ Goto("unlink") /\ op.job = "fuse" /\ at' = at
                /\ \A f \in Dirs : \A v \in at["dir"][f] : <<"dir", f, v>> \in late
           \/ Goto("verify") /\ op.job = "fuse"
           \/ Goto("flip") /\ op.job \in Kind
  BY <1>2, <1>6 DEF Pc
<1> QED
  BY <1>1, <1>3, <1>4, <1>5, <1>6 DEF Shaped

(* A failed heal ends, or becomes a conversion back to symlinks. *)
LEMMA HealShaped ==
    ASSUME TypeOK, NEW S, HealFails(S)
    PROVE  Shaped /\ mishap' \in {"none", "wedged", "grave"}
<1>1. mishap' \in {"none", "wedged", "grave"}
  BY Marked DEF HealFails
<1> QED
  BY <1>1 DEF HealFails, Shaped, Pc, Job

LEMMA ProgramCustody ==
    ASSUME CustodyInv, MoveDone \/ Unlink \/ Mount \/ Verify \/ Unmount \/ Link \/ Flip
    PROVE  CustodyInv'
<1> USE DEF CustodyInv
<1>0. /\ \A S : Mark(S) => mishap' \in {"none", "wedged", "grave"}
      /\ NoMishap => mishap' \in {"none", "wedged", "grave"} /\ faults' \in Nat
      /\ \A S : HealFails(S) => mishap' \in {"none", "wedged", "grave"}
  BY Marked, HealShaped DEF NoMishap, TypeOK
<1>1. CASE MoveDone
  <2>1. op.job = "fuse" /\ ~StopsHere =>
          \A f \in Dirs : \A v \in at["dir"][f] : <<"dir", f, v>> \in late
    BY <1>1 DEF MoveDone, StopsHere, Emptied
  <2>2. Shaped
    <3>1. CASE HealFails({})
      BY <3>1, HealShaped
    <3> QED
      BY <1>1, <2>1, <3>1 DEF MoveDone, Shaped, Pc, diskVars
  <2>3. mishap' \in {"none", "wedged", "grave"}
    BY <1>0, <1>1 DEF MoveDone
  <2> QED
    BY <1>1, <2>2, <2>3, ShapedCustody DEF MoveDone, TypeOK, diskVars, boundVars, clientVars
<1>2. CASE Unlink
  <2>1. PICK gone \in SUBSET Dirs :
             at' = [at EXCEPT !["dir"] = [f \in File |-> IF f \in gone THEN {} ELSE @[f]]]
    BY <1>2 DEF Unlink
  <2>2. at' \in [Root -> [File -> SUBSET Version]]
    <3>1. [f \in File |-> IF f \in gone THEN {} ELSE at["dir"][f]] \in [File -> SUBSET Version]
      BY DEF TypeOK, Root
    <3> QED
      BY <2>1, <3>1 DEF TypeOK, Root
  <2>3. faults' \in Nat /\ mishap' \in {"none", "wedged", "grave"}
    BY <1>0, <1>2, FaultTyped DEF Unlink
  <2>4. Shaped
    BY <1>2 DEF Unlink, Shaped, Pc
  <2> QED
    BY <1>2, <2>2, <2>3, <2>4, ShapedCustody DEF Unlink, TypeOK, clientVars
<1>3. CASE Mount
  <2>1. Shaped
    <3>1. CASE HealFails({})
      BY <3>1, HealShaped
    <3> QED
      BY <1>3, <3>1 DEF Mount, Shaped, Pc, Job
  <2>2. faults' \in Nat /\ mishap' \in {"none", "wedged", "grave"}
    BY <1>0, <1>3, FaultTyped DEF Mount
  <2> QED
    BY <1>3, <2>1, <2>2, ShapedCustody DEF Mount, TypeOK, clientVars
<1>4. CASE Verify
  <2>1. op.job = "fuse"
    BY <1>4 DEF Verify, JobAt
  <2>2. Shaped
    BY <1>4, <2>1 DEF Verify, Shaped, Pc, Job, Kind
  <2>3. faults' \in Nat
    BY <1>4, FaultTyped DEF Verify
  <2> QED
    BY <1>4, <2>2, <2>3, ShapedCustody DEF Verify, TypeOK, diskVars, clientVars
<1>5. CASE Unmount
  <2>1. Shaped
    <3>1. CASE HealFails({"wedged"})
      BY <3>1, HealShaped
    <3> QED
      BY <1>5, <3>1 DEF Unmount, AfterUnmount, Shaped, TypeOK, Pc
  <2>2. faults' \in Nat /\ mishap' \in {"none", "wedged", "grave"}
    BY <1>0, <1>5, FaultTyped DEF Unmount
  <2> QED
    BY <1>5, <2>1, <2>2, ShapedCustody DEF Unmount, TypeOK, clientVars
<1>6. CASE Link
  <2>1. Shaped
    BY <1>6 DEF Link, Shaped, Kind
  <2>2. faults' \in Nat /\ mishap' \in {"none", "wedged", "grave"}
    BY <1>0, <1>6, FaultTyped DEF Link
  <2> QED
    BY <1>6, <2>1, <2>2, ShapedCustody DEF Link, TypeOK, clientVars
<1>7. CASE Flip
  <2>1. Shaped /\ op.job \in Kind
    BY <1>7 DEF Flip, Shaped, Pc, Job, JobAt
  <2>2. faults' \in Nat /\ mishap' \in {"none", "wedged", "grave"}
    BY <1>0, <1>7, FaultTyped DEF Flip
  <2> QED
    BY <1>7, <2>1, <2>2, ShapedCustody DEF Flip, TypeOK, clientVars
<1> QED
  BY <1>1, <1>2, <1>3, <1>4, <1>5, <1>6, <1>7

LEMMA VisitCustody ==
    ASSUME CustodyInv,
           \/ ReconcileSkips \/ Refresh
           \/ \E kind \in Kind : Reconcile(kind) \/ Poll(kind)
           \/ \E to \in Kind, force \in BOOLEAN : Migrate(to, force)
    PROVE  CustodyInv'
<1> USE DEF CustodyInv
<1>1. ASSUME NEW job \in Job \ {"fuse"}, Begin(job)
      PROVE  op'.job = job /\ op'.pc = "unmount" /\ todo' = {} /\ late' = {} /\ op' \in OpType
  BY <1>1 DEF Begin, Idle, Pc, OpType
<1>2. ASSUME NEW kind, ReadsDead(kind) \/ ReadsWell(kind)
      PROVE  faults' \in Nat /\ mishap' \in {"none", "wedged", "grave"}
  BY <1>2, Marked, FaultTyped DEF ReadsDead, ReadsWell
<1>3. ASSUME NEW kind \in Kind, Reconcile(kind) PROVE CustodyInv'
  <2>0. faults' \in Nat /\ mishap' \in {"none", "wedged", "grave"}
    BY <1>2, <1>3 DEF Reconcile
  <2>1. CASE UNCHANGED <<op, todo, late>> /\ vouched' = TRUE /\ start' = "done"
    <3>1. TypeOK'
      BY <1>3, <2>0, <2>1 DEF Reconcile, TypeOK, diskVars, clientVars
    <3> QED
      BY <1>3, <2>1, <3>1 DEF Reconcile, JobAt, Emptied, diskVars
  <2>2. ASSUME NEW job \in {"heal", "restore"}, Begin(job), vouched' = vouched,
               start' = "visiting"
        PROVE  CustodyInv'
    <3>1. op'.job = job /\ op'.pc = "unmount" /\ todo' = {} /\ late' = {} /\ op' \in OpType
      BY <1>1, <2>2 DEF Job
    <3>2. TypeOK'
      BY <1>3, <2>0, <2>2, <3>1 DEF Reconcile, TypeOK, diskVars, clientVars, OpType
    <3> QED
      BY <3>1, <3>2 DEF JobAt, Emptied
  <2> QED
    BY <1>3, <2>1, <2>2 DEF Reconcile
<1>4. CASE ReconcileSkips \/ Refresh
  <2>1. TypeOK'
    BY <1>4 DEF ReconcileSkips, Refresh, TypeOK, diskVars, boundVars, clientVars, progVars
  <2> QED
    BY <1>4, <2>1 DEF ReconcileSkips, Refresh, JobAt, Emptied, diskVars, progVars
<1>5. ASSUME NEW kind \in Kind, Poll(kind) PROVE CustodyInv'
  <2>0. faults' \in Nat /\ mishap' \in {"none", "wedged", "grave"}
    BY <1>2, <1>5 DEF Poll
  <2>1. CASE UNCHANGED <<op, todo, late>> /\ links' = TRUE
    <3>1. TypeOK'
      BY <1>5, <2>0, <2>1 DEF Poll, TypeOK, clientVars
    <3> QED
      BY <1>5, <2>1, <3>1 DEF Poll, JobAt, Emptied
  <2>2. CASE Begin("heal") /\ links' = links
    <3>1. op'.job = "heal" /\ op'.pc = "unmount" /\ todo' = {} /\ late' = {} /\ op' \in OpType
      BY <1>1, <2>2 DEF Job
    <3>2. TypeOK'
      BY <1>5, <2>0, <2>2, <3>1 DEF Poll, TypeOK, clientVars, OpType
    <3> QED
      BY <3>1, <3>2 DEF JobAt, Emptied
  <2> QED
    BY <1>5, <2>1, <2>2 DEF Poll
<1>6. ASSUME NEW to \in Kind, NEW force \in BOOLEAN, Migrate(to, force) PROVE CustodyInv'
  <2>1. UNCHANGED <<diskVars, vouched, start, aged, clientVars, boundVars>>
    BY <1>6 DEF Migrate
  <2>2. mishap' \in {"none", "wedged", "grave"}
    BY <1>6, Marked DEF Migrate
  <2>3. CASE Begin("symlink")
    <3>1. op'.job = "symlink" /\ op'.pc = "unmount" /\ todo' = {} /\ late' = {}
          /\ op' \in OpType
      BY <1>1, <2>3 DEF Job
    <3>2. TypeOK'
      BY <2>1, <2>2, <3>1 DEF TypeOK, diskVars, boundVars, clientVars, OpType
    <3> QED
      BY <3>1, <3>2 DEF JobAt, Emptied
  <2>4. CASE op' = [Idle EXCEPT !.job = "fuse", !.pc = "move", !.pre = at["dir"][Identity]]
             /\ todo' = Held("dir") /\ late' = {}
    <3>1. op'.job = "fuse" /\ op'.pc = "move" /\ op' \in OpType
      <4>1. at["dir"][Identity] \in SUBSET Version
        BY FileAssumption DEF TypeOK, Root
      <4> QED
        BY <2>4, <4>1 DEF Idle, Job, Pc, OpType
    <3>2. TypeOK'
      BY <2>1, <2>2, <2>4, <3>1, HeldPairs DEF TypeOK, diskVars, boundVars, clientVars, OpType
    <3>3. ASSUME NEW f \in Dirs, NEW v \in at["dir"][f] PROVE <<f, v>> \in todo'
      <4>1. f \in File /\ v \in Version
        BY <3>3, FileAssumption DEF TypeOK, Root
      <4> QED
        BY <2>4, <3>3, <4>1, HeldPairs
    <3> QED
      BY <2>1, <3>1, <3>2, <3>3 DEF JobAt, Emptied, diskVars
  <2> QED
    BY <1>6, <2>3, <2>4 DEF Migrate
<1> QED
  BY <1>3, <1>4, <1>5, <1>6

(* What a client writes while a move is under way is noted. *)
LEMMA NotedTyped ==
    ASSUME TypeOK, NEW root \in Root, NEW f \in File, NEW S \in SUBSET Version,
           Noted(root, f, S), at' = [at EXCEPT ![root][f] = S]
    PROVE  /\ late' \subseteq Root \X File \X Version /\ late \subseteq late'
           /\ at' \in [Root -> [File -> SUBSET Version]]
           /\ \A r \in Root, g \in File : r # root \/ g # f => at'[r][g] = at[r][g]
           /\ at'[root][f] = S
           /\ op.pc \in {"move", "unlink"} =>
                \A v \in S : v \in at[root][f] \/ <<root, f, v>> \in late'
<1>1. [at[root] EXCEPT ![f] = S] \in [File -> SUBSET Version]
  BY DEF TypeOK
<1>2. at' \in [Root -> [File -> SUBSET Version]]
  BY <1>1 DEF TypeOK
<1>3. {<<root, f, v>> : v \in S \ at[root][f]} \subseteq Root \X File \X Version
  OBVIOUS
<1> QED
  BY <1>2, <1>3 DEF TypeOK, Noted

LEMMA WrittenCustody ==
    ASSUME CustodyInv, NEW root \in Root, NEW f \in File, NEW S \in SUBSET Version,
           Noted(root, f, S), at' = [at EXCEPT ![root][f] = S], session' \in Session,
           UNCHANGED <<row, mount, links, vouched, op, todo, start, aged, reserved, mishap,
                       boundVars>>
    PROVE  CustodyInv'
<1> USE DEF CustodyInv
<1>1. /\ late' \subseteq Root \X File \X Version /\ late \subseteq late'
      /\ at' \in [Root -> [File -> SUBSET Version]]
      /\ \A r \in Root, g \in File : r # root \/ g # f => at'[r][g] = at[r][g]
      /\ at'[root][f] = S
      /\ op.pc \in {"move", "unlink"} =>
           \A v \in S : v \in at[root][f] \/ <<root, f, v>> \in late'
  BY NotedTyped
<1>2. TypeOK'
  BY <1>1 DEF TypeOK, boundVars
<1>3. ASSUME op.pc \in {"move", "unlink"}, NEW g \in Dirs, NEW v \in at'["dir"][g]
      PROVE  v \in at["dir"][g] \/ <<"dir", g, v>> \in late'
  <2>1. g \in File /\ "dir" \in Root
    BY FileAssumption DEF Root
  <2>2. CASE root = "dir" /\ g = f
    BY <1>1, <1>3, <2>2
  <2>3. CASE ~(root = "dir" /\ g = f)
    BY <1>1, <1>3, <2>1, <2>3
  <2> QED
    BY <2>2, <2>3
<1>4. Emptied'
  BY <1>1, <1>3 DEF Emptied
<1> QED
  BY <1>2, <1>4 DEF JobAt

LEMMA ClientCustody ==
    ASSUME CustodyInv,
           \/ Select \/ SelectAlone \/ Expire \/ MergeReads \/ Launch \/ Leave \/ HolderDies \/ Crash
           \/ \E f \in File : SessionWrites(f)
    PROVE  CustodyInv'
<1> USE DEF CustodyInv
<1>1. CASE Launch
  <2>1. PICK S \in {Merged, at["dir"][Identity]} :
             at' = [at EXCEPT !["dir"][Identity] = S] /\ Noted("dir", Identity, S)
    BY <1>1 DEF Launch
  <2>2. S \in SUBSET Version
    BY <2>1, FileAssumption DEF TypeOK, Merged, Version, Root
  <2>3. "dir" \in Root /\ Identity \in File /\ session' \in Session
    BY <1>1, FileAssumption DEF Root, Launch, Session
  <2>4. UNCHANGED <<row, mount, links, vouched, op, todo, start, aged, reserved, mishap, boundVars>>
    BY <1>1 DEF Launch
  <2> HIDE DEF CustodyInv
  <2> QED
    BY <2>1, <2>2, <2>3, <2>4, WrittenCustody
<1>2. ASSUME NEW f \in File, SessionWrites(f) PROVE CustodyInv'
  <2> DEFINE root == IF mount = "live" THEN "priv" ELSE "dir"
             S == IF f \in Dirs THEN at[root][f] \cup {"fresh"}
                  ELSE IF at[root][f] = {} \/ (f = Identity /\ session = "astray") THEN {"fresh"}
                  ELSE at[root][f]
  <2>1. at' = [at EXCEPT ![root][f] = S] /\ Noted(root, f, S)
    BY <1>2 DEF SessionWrites
  <2>2. root \in Root
    BY DEF Root
  <2>3. S \in SUBSET Version
    BY <2>2 DEF TypeOK, Version
  <2>4. /\ UNCHANGED <<row, mount, links, vouched, op, todo, start, aged, reserved, mishap,
                       boundVars>>
        /\ session' \in Session
    BY <1>2 DEF SessionWrites, clientVars, TypeOK
  <2> HIDE DEF CustodyInv, root, S
  <2> QED
    BY <2>1, <2>2, <2>3, <2>4, WrittenCustody
<1>3. CASE Select \/ SelectAlone \/ Expire \/ MergeReads \/ Leave
  <2>1. UNCHANGED <<row, mount, at, vouched, progVars, boundVars>> /\ links' \in BOOLEAN
    BY <1>3 DEF Select, SelectAlone, Expire, MergeReads, Leave, diskVars, TypeOK
  <2>2. session' \in Session /\ reserved' \in BOOLEAN
    BY <1>3 DEF Select, SelectAlone, Expire, MergeReads, Leave, TypeOK, Session
  <2>3. mishap' \in {"none", "wedged", "grave"}
    BY <1>3, Marked DEF Select, SelectAlone, Expire, MergeReads, Leave, TypeOK
  <2>4. TypeOK'
    BY <2>1, <2>2, <2>3 DEF TypeOK, progVars, boundVars
  <2> QED
    BY <2>1, <2>4 DEF JobAt, Emptied, progVars
<1>4. CASE HolderDies
  <2>1. mishap' \in {"none", "wedged", "grave"} /\ faults' \in Nat
    BY <1>4, Marked, FaultTyped DEF HolderDies
  <2>2. TypeOK'
    BY <1>4, <2>1 DEF HolderDies, TypeOK, progVars, clientVars
  <2> QED
    BY <1>4, <2>2 DEF HolderDies, JobAt, Emptied, progVars
<1>5. CASE Crash
  <2>1. op' \in OpType /\ crashes' \in Nat
    BY <1>5 DEF Crash, Idle, Job, Pc, OpType, TypeOK
  <2>2. TypeOK'
    BY <1>5, <2>1 DEF Crash, TypeOK, diskVars, OpType
  <2> QED
    BY <1>5, <2>2 DEF Crash, JobAt, Emptied, Idle
<1> QED
  BY <1>1, <1>2, <1>3, <1>4, <1>5

LEMMA NextCustody == ASSUME CustodyInv, [Next]_vars PROVE CustodyInv'
<1>1. CASE UNCHANGED vars
  <2>1. TypeOK'
    BY <1>1 DEF CustodyInv, vars, diskVars, boundVars, progVars, clientVars, TypeOK
  <2> QED
    BY <1>1, <2>1 DEF CustodyInv, vars, diskVars, progVars, JobAt, Emptied
<1> QED
  BY <1>1, MoveCustody, ProgramCustody, VisitCustody, ClientCustody
     DEF Next, Program, Visit, Clients

(* Custody is an invariant: convert.go removes the excluded directories     *)
(* (overlay/symlink.go, Teardown) only when everything its move listed has  *)
(* left them, whatever failed, wherever the daemon was killed, forced or    *)
(* not; what is still there was written by a client meanwhile.             *)
THEOREM Custody == Spec => []CustodyInv
BY InitCustody, NextCustody, PTL DEF Spec

(* Every variable keeps its type, for any files, faults and crashes         *)
(* (the fields and the disk that convert.go and overlay/migrate.go write).  *)
THEOREM TypeCorrect == Spec => []TypeOK
<1>1. CustodyInv => TypeOK
  BY DEF CustodyInv
<1> QED
  BY <1>1, Custody, PTL

-----------------------------------------------------------------------------
(* Nothing is lost. *)

Kept ==
    \A r \in Root, f \in File : \A v \in at[r][f] :
        \/ v \in at["dir"][f]' \cup at["priv"][f]'
        \/ <<r, f, v>> \in late
        \/ f = Identity /\ session \in {"missing", "astray"}

LEMMA GrownKept ==
    ASSUME \A r \in Root, f \in File : at[r][f] \subseteq at'[r][f] PROVE Kept
BY DEF Kept, Root

LEMMA MoveKept ==
    ASSUME CustodyInv, NEW f \in File, NEW v \in Version, MoveEntry(f, v)
    PROVE  Kept
<1>0. TypeOK
  BY DEF CustodyInv
<1>1. CASE at' = at
  BY <1>1, GrownKept
<1>2. CASE at' = Moved(f, v) /\ (~Collides(f, v) \/ Unseen(f))
  <2>1. /\ \A r \in Root, g \in File : g # f => at'[r][g] = at[r][g]
        /\ at'[From(op.job)][f] = at[From(op.job)][f] \ Carried(f, v)
        /\ at'[To(op.job)][f] =
             IF f \in Dirs THEN at[To(op.job)][f] \cup {v} ELSE Carried(f, v)
    <3>1. /\ \A r \in Root, g \in File : g # f => Moved(f, v)[r][g] = at[r][g]
          /\ Moved(f, v)[From(op.job)][f] = at[From(op.job)][f] \ Carried(f, v)
          /\ Moved(f, v)[To(op.job)][f] =
               IF f \in Dirs THEN at[To(op.job)][f] \cup {v} ELSE Carried(f, v)
      BY <1>0, MovedAt
    <3> QED
      BY <1>2, <3>1
  <2>2. f \notin Dirs => \A w \in at[To(op.job)][f] : <<To(op.job), f, w>> \in late
    BY <1>2 DEF Collides, Unseen
  <2>3. From(op.job) \in Root /\ To(op.job) \in Root
        /\ Root = {From(op.job), To(op.job)}
    BY DEF From, To, Root
  <2>4. ASSUME NEW r \in Root, NEW g \in File, NEW w \in at[r][g]
        PROVE  w \in at'["dir"][g] \/ w \in at'["priv"][g] \/ <<r, g, w>> \in late
    <3>1. CASE g # f
      BY <2>1, <2>4, <3>1 DEF Root
    <3>2. CASE g = f /\ r = From(op.job)
      <4>1. w \in at'[From(op.job)][f] \/ w \in at'[To(op.job)][f]
        BY <2>1, <2>4, <3>2 DEF Carried
      <4> QED
        BY <3>2, <4>1 DEF From, To
    <3>3. CASE g = f /\ r = To(op.job)
      <4>1. w \in at'[To(op.job)][f] \/ <<r, f, w>> \in late
        BY <2>1, <2>2, <2>4, <3>3
      <4> QED
        BY <3>3, <4>1 DEF From, To
    <3> QED
      BY <2>3, <3>1, <3>2, <3>3
  <2> QED
    BY <2>4 DEF Kept
<1> QED
  BY <1>0, <1>1, <1>2, MoveCases

LEMMA UnlinkKept == ASSUME CustodyInv, Unlink PROVE Kept
<1>1. PICK gone \in SUBSET Dirs :
           at' = [at EXCEPT !["dir"] = [f \in File |-> IF f \in gone THEN {} ELSE @[f]]]
  BY DEF Unlink
<1>2. \A f \in Dirs : \A v \in at["dir"][f] : <<"dir", f, v>> \in late
  BY DEF CustodyInv, Emptied, Unlink
<1>3. /\ at'["priv"] = at["priv"]
      /\ \A f \in File : at'["dir"][f] = IF f \in gone THEN {} ELSE at["dir"][f]
  BY <1>1 DEF CustodyInv, TypeOK, Root
<1>4. ASSUME NEW r \in Root, NEW f \in File, NEW v \in at[r][f]
      PROVE  v \in at'["dir"][f] \/ v \in at'["priv"][f] \/ <<r, f, v>> \in late
  BY <1>2, <1>3, <1>4 DEF Root
<1> QED
  BY <1>4 DEF Kept

LEMMA ClientKept == ASSUME CustodyInv, Launch \/ \E f \in File : SessionWrites(f) PROVE Kept
<1> USE DEF CustodyInv
<1>1. ASSUME NEW root \in Root, NEW f \in File, NEW S, at' = [at EXCEPT ![root][f] = S],
             \/ at[root][f] \subseteq S
             \/ f = Identity /\ session \in {"missing", "astray"}
      PROVE  Kept
  <2>1. \A r \in Root, g \in File : r # root \/ g # f => at'[r][g] = at[r][g]
    BY <1>1 DEF TypeOK
  <2>2. at'[root][f] = S
    BY <1>1 DEF TypeOK
  <2>3. ASSUME NEW r \in Root, NEW g \in File, NEW v \in at[r][g]
        PROVE  \/ v \in at'[r][g]
               \/ g = Identity /\ session \in {"missing", "astray"}
    <3>1. CASE r = root /\ g = f
      BY <1>1, <2>2, <2>3, <3>1
    <3>2. CASE r # root \/ g # f
      BY <2>1, <2>3, <3>2
    <3> QED
      BY <3>1, <3>2
  <2> QED
    BY <2>3 DEF Kept, Root
<1>2. CASE Launch
  <2>1. PICK S \in {Merged, at["dir"][Identity]} : at' = [at EXCEPT !["dir"][Identity] = S]
    BY <1>2 DEF Launch
  <2>2. at["dir"][Identity] \subseteq S \/ session = "missing"
    BY <2>1 DEF Merged
  <2> QED
    BY <1>1, <2>1, <2>2, FileAssumption DEF Root
<1>3. ASSUME NEW f \in File, SessionWrites(f) PROVE Kept
  <2> DEFINE root == IF mount = "live" THEN "priv" ELSE "dir"
             S == IF f \in Dirs THEN at[root][f] \cup {"fresh"}
                  ELSE IF at[root][f] = {} \/ (f = Identity /\ session = "astray") THEN {"fresh"}
                  ELSE at[root][f]
  <2>1. at' = [at EXCEPT ![root][f] = S]
    BY <1>3 DEF SessionWrites
  <2>2. at[root][f] \subseteq S \/ (f = Identity /\ session = "astray")
    OBVIOUS
  <2>3. root \in Root
    BY DEF Root
  <2> HIDE DEF root, S
  <2> QED
    BY <1>1, <2>1, <2>2, <2>3
<1> QED
  BY <1>2, <1>3

(* No private file is ever lost, whatever fails, wherever the daemon is     *)
(* killed, forced or not, and whatever clients do: MovePrivateEntries       *)
(* (internal/overlay/migrate.go) never overwrites, and Teardown             *)
(* (internal/overlay/symlink.go) removes directories only after a move that *)
(* left nothing in them.  The exceptions are those of the property: what a  *)
(* client wrote behind the move's back, and .claude.json under a client     *)
(* that did not find it.                                                   *)
THEOREM NoFileLost == Spec => NothingLost
<1>1. ASSUME CustodyInv, [Next]_vars PROVE [Kept]_vars
  <2>1. CASE at' = at
    BY <2>1, GrownKept
  <2>2. CASE Unlink
    BY <1>1, <2>2, UnlinkKept
  <2>3. CASE Launch \/ \E f \in File : SessionWrites(f)
    BY <1>1, <2>3, ClientKept
  <2>4. CASE \E f \in File, v \in Version : MoveEntry(f, v)
    BY <1>1, <2>4, MoveKept
  <2> QED
    BY <1>1, <2>1, <2>2, <2>3, <2>4
       DEF Next, Program, Visit, Clients, vars, diskVars, MoveDone, Mount, Verify, Unmount,
           Link, Flip, Reconcile, ReconcileSkips, Poll, Refresh, Migrate, Select, SelectAlone,
           Expire, MergeReads, Leave, HolderDies, Crash
<1> QED
  BY <1>1, Custody, PTL DEF Spec, NothingLost, Kept

-----------------------------------------------------------------------------
(* What a grave mishap undoes. *)

(* No entry is in both roots, so no move collides; a plain file is one.     *)
NoTwins ==
    \A f \in File :
        /\ \A v \in Version : v \notin at["dir"][f] \/ v \notin at["priv"][f]
        /\ f \notin Dirs => \A v, w \in at["dir"][f] \cup at["priv"][f] : v = w

(* The steps of each program, and the row it runs under. *)
Stages ==
    /\ ~op.failed
    /\ op.job = "none" <=> op.pc = "idle"
    /\ op.job = "none" => op.pre = {}
    /\ op.job = "fuse" => op.pc \in {"move", "unlink", "mount", "verify", "flip"}
    /\ op.job = "heal" => op.pc \in {"unmount", "move", "mount"} /\ mount # "live"
    /\ op.job = "symlink" => op.pc \in {"unmount", "move", "link", "flip"}
    /\ op.job \in {"rollback", "restore"} => op.pc \in {"unmount", "move", "link"}
    /\ op.job = "restore" => start = "visiting"
    /\ op.job \in {"fuse", "rollback", "restore"} => row = "symlink"
    /\ op.job \in {"heal", "symlink"} => row = "fuse"

(* What each program has achieved when it gets to a step. *)
Progress ==
    /\ op.pc = "move" => mount = "none" /\ todo = Held(From(op.job))
    /\ op.pc \in {"unlink", "mount"} => mount = "none" /\ Held("dir") = {}
    /\ op.job = "fuse" /\ op.pc \in {"verify", "flip"} => mount = "live" /\ Held("dir") = {}
    /\ op.pc = "link" => mount = "none" /\ Held("priv") = {}
    /\ op.job = "symlink" /\ op.pc = "flip" => mount = "none" /\ Held("priv") = {}

(* A directory that serves its row. *)
Serving ==
    /\ row = "fuse" /\ mount = "live" => Held("dir") = {}
    /\ op.job = "none" /\ start = "done" /\ row = "symlink" =>
         /\ mount = "none" => Held("priv") = {}
         /\ mishap = "none" => mount = "none"
    /\ row = "fuse" /\ vouched /\ (~Converting \/ op.pc = "unmount") => mount = "live"

(* A client has the directory only where its files are, and finds them. *)
SessionServed ==
    session # "none" =>
        /\ session \in {"chosen", "found", "running"}
        /\ op.job = "none" \/ (op.job = "restore" /\ op.pc = "unmount")
        /\ \/ row = "fuse" /\ mount = "live"
           \/ row = "symlink" /\ mount = "none" /\ Held("priv") = {}

OwnIdentity == "own" \in at["dir"][Identity] \cup at["priv"][Identity]

Well == NoTwins /\ Stages /\ Progress /\ Serving /\ SessionServed /\ OwnIdentity

WholeInv == mishap # "grave" => Well

(* Nothing grave has happened by the end of the step. *)
Spared == mishap' # "grave" /\ (mishap' = "none" => mishap = "none")

(* What has gone wrong once has gone wrong for good. *)
LEMMA Remembered ==
    ASSUME TypeOK, [Next]_vars, mishap' # "grave"
    PROVE  Spared /\ mishap # "grave"
<1> DEFINE Goal == Spared /\ mishap # "grave"
<1>1. ASSUME NEW S, Mark(S) PROVE Goal
  BY <1>1, Marked DEF Spared
<1>2. mishap' = mishap => Goal
  BY DEF Spared
<1>3. ASSUME NEW S, HealFails(S) PROVE Goal
  <2>1. Mark(S) \/ Mark(S \cup Under)
    BY <1>3 DEF HealFails
  <2> QED
    BY <1>1, <2>1
<1>4. NoMishap => Goal
  BY <1>2 DEF NoMishap
<1>5. ASSUME NEW kind, ReadsDead(kind) \/ ReadsWell(kind) PROVE Goal
  BY <1>1, <1>5 DEF ReadsDead, ReadsWell
<1> HIDE DEF Goal
<1>6. CASE Program
  <2>1. (\E f \in File, v \in Version : MoveEntry(f, v)) => Goal
    BY <1>1, <1>4 DEF MoveEntry
  <2>2. MoveDone \/ Unlink => Goal
    BY <1>1, <1>3, <1>4 DEF MoveDone, Unlink
  <2>3. Mount \/ Verify => Goal
    BY <1>1, <1>2, <1>3, <1>4 DEF Mount, Verify
  <2>4. Unmount => Goal
    BY <1>1, <1>3, <1>4 DEF Unmount
  <2>5. Link \/ Flip => Goal
    BY <1>1, <1>4 DEF Link, Flip
  <2> QED
    BY <1>6, <2>1, <2>2, <2>3, <2>4, <2>5 DEF Program, Goal
<1>7. CASE Visit \/ Refresh \/ \E to \in Kind, force \in BOOLEAN : Migrate(to, force)
  <2>1. ReconcileSkips \/ Refresh => Goal
    BY <1>2 DEF ReconcileSkips, Refresh
  <2>2. (\E kind \in Kind : Reconcile(kind) \/ Poll(kind)) => Goal
    BY <1>5 DEF Reconcile, Poll
  <2>3. (\E to \in Kind, force \in BOOLEAN : Migrate(to, force)) => Goal
    BY <1>1 DEF Migrate
  <2> QED
    BY <1>7, <2>1, <2>2, <2>3 DEF Visit, Goal
<1>8. CASE Clients \/ HolderDies \/ Crash \/ UNCHANGED vars
  <2>1. Select \/ SelectAlone \/ HolderDies => Goal
    BY <1>1 DEF Select, SelectAlone, HolderDies
  <2>2. Expire \/ MergeReads \/ Launch \/ Leave \/ Crash \/ UNCHANGED vars => Goal
    BY <1>2 DEF Expire, MergeReads, Launch, Leave, Crash, vars
  <2>3. (\E f \in File : SessionWrites(f)) => Goal
    BY <1>2 DEF SessionWrites
  <2> QED
    BY <1>8, <2>1, <2>2, <2>3 DEF Clients, Goal
<1>9. Goal
  BY <1>6, <1>7, <1>8 DEF Next, Goal
<1> QED
  BY <1>9 DEF Goal

LEMMA InitWhole == Init => WholeInv
<1> SUFFICES ASSUME Init PROVE Well
  BY DEF WholeInv
<1>1. /\ row \in Kind /\ op = Idle /\ start = "pending" /\ session = "none" /\ ~vouched
      /\ mount = IF row = "fuse" THEN "live" ELSE "none"
      /\ \A f \in File : /\ at["dir"][f] = IF row = "fuse" THEN {} ELSE {"own"}
                         /\ at["priv"][f] = IF row = "fuse" THEN {"own"} ELSE {}
  BY DEF Init, Root, Kind
<1>2. NoTwins
  BY <1>1 DEF NoTwins, Version
<1>3. Stages /\ Progress
  BY <1>1 DEF Stages, Progress, Idle
<1>4. row = "fuse" => Held("dir") = {}
  BY <1>1 DEF Held
<1>5. Serving /\ SessionServed
  BY <1>1, <1>4 DEF Serving, SessionServed
<1>6. OwnIdentity
  BY <1>1, FileAssumption DEF OwnIdentity, Kind
<1> QED
  BY <1>2, <1>3, <1>5, <1>6 DEF Well

(* A step that leaves the private files alone. *)
LEMMA FilesStay ==
    ASSUME NoTwins, OwnIdentity, at' = at
    PROVE  /\ NoTwins' /\ OwnIdentity'
           /\ Held("dir")' = Held("dir") /\ Held("priv")' = Held("priv")
BY DEF NoTwins, OwnIdentity, Held

LEMMA MoveWhole ==
    ASSUME TypeOK, Well, Spared, NEW f \in File, NEW v \in Version, MoveEntry(f, v)
    PROVE  Well'
<1> DEFINE from == From(op.job)
           to == To(op.job)
<1>0. op.pc = "move" /\ mount = "none" /\ todo = Held(from) /\ <<f, v>> \in todo
      /\ ~op.failed /\ op.job # "none"
  BY DEF MoveEntry, Well, Progress, Stages
<1>1. (from = "dir" /\ to = "priv") \/ (from = "priv" /\ to = "dir")
  BY DEF From, To
<1> HIDE DEF from, to
<1>2. v \in at[from][f]
  BY <1>0, HeldPairs
<1>3. \A g \in File :
         /\ at[from][g] \in SUBSET Version
         /\ at[to][g] \in SUBSET Version
         /\ \A w \in Version : w \notin at[from][g] \/ w \notin at[to][g]
         /\ g \notin Dirs => \A w, x \in at[from][g] \cup at[to][g] : w = x
  BY <1>1 DEF Well, NoTwins, TypeOK, Root
<1>4. f \notin Dirs => at[from][f] = {v} /\ at[to][f] = {}
  <2>1. ASSUME f \notin Dirs, NEW w \in at[from][f] \cup at[to][f] PROVE w = v
    BY <1>2, <1>3, <2>1
  <2>2. f \notin Dirs => \A w \in at[to][f] : FALSE
    BY <1>2, <1>3, <2>1
  <2> QED
    BY <1>2, <2>1, <2>2
<1>5. ~Collides(f, v)
  <2>1. v \notin at[to][f]
    BY <1>2, <1>3
  <2> QED
    BY <1>4, <2>1 DEF Collides, to
<1>6. op' = op /\ at' = Moved(f, v) /\ todo' = todo \ {<<f, v>>}
  <2>1. ASSUME Mark({"broken"}) PROVE FALSE
    BY <2>1, Marked DEF Spared, Grave
  <2> QED
    BY <1>5, <2>1 DEF MoveEntry
<1>7. /\ \A g \in File : g # f => at'[from][g] = at[from][g] /\ at'[to][g] = at[to][g]
      /\ at'[from][f] = at[from][f] \ {v}
      /\ at'[to][f] = at[to][f] \cup {v}
  <2>1. /\ \A r \in Root, g \in File : g # f => at'[r][g] = at[r][g]
        /\ at'[from][f] = at[from][f] \ {v}
        /\ at'[to][f] = IF f \in Dirs THEN at[to][f] \cup {v} ELSE {v}
    <3>1. /\ \A r \in Root, g \in File : g # f => Moved(f, v)[r][g] = at[r][g]
          /\ Moved(f, v)[from][f] = at[from][f] \ Carried(f, v)
          /\ Moved(f, v)[to][f] = IF f \in Dirs THEN at[to][f] \cup {v} ELSE Carried(f, v)
      BY MovedAt DEF from, to
    <3>2. Carried(f, v) = {v}
      BY <1>4 DEF Carried, from
    <3> QED
      BY <1>6, <3>1, <3>2
  <2> QED
    BY <1>1, <1>4, <2>1 DEF Root
<1>8. NoTwins'
  <2>1. ASSUME NEW g \in File
        PROVE  /\ \A w \in Version : w \notin at'[from][g] \/ w \notin at'[to][g]
               /\ g \notin Dirs => \A w, x \in at'[from][g] \cup at'[to][g] : w = x
    <3>1. CASE g = f
      <4>1. \A w : w \in at'[from][f] \cup at'[to][f] <=> w \in at[from][f] \cup at[to][f]
        BY <1>2, <1>7
      <4> QED
        BY <1>3, <1>7, <3>1, <4>1
    <3>2. CASE g # f
      BY <1>3, <1>7, <3>2
    <3> QED
      BY <3>1, <3>2
  <2> QED
    BY <1>1, <2>1 DEF NoTwins
<1>9. OwnIdentity'
  <2>1. "own" \in at[from][Identity] \cup at[to][Identity]
    BY <1>1 DEF Well, OwnIdentity
  <2>2. "own" \in at'[from][Identity] \cup at'[to][Identity]
    BY <1>7, <2>1, FileAssumption
  <2> QED
    BY <1>1, <2>2 DEF OwnIdentity
<1>10. Held(From(op.job))' = todo'
  <2>1. ASSUME NEW g \in File, NEW w \in Version
        PROVE  w \in at'[from][g] <=> (w \in at[from][g] /\ <<g, w>> # <<f, v>>)
    BY <1>7
  <2>2. Held(From(op.job))' = {e \in File \X Version : e[2] \in at'[from][e[1]]}
    BY <1>6 DEF Held, From, from
  <2>3. todo' = {e \in File \X Version : e[2] \in at[from][e[1]]} \ {<<f, v>>}
    BY <1>0, <1>6 DEF Held
  <2>4. ASSUME NEW e \in File \X Version
        PROVE  e[2] \in at'[from][e[1]] <=> (e[2] \in at[from][e[1]] /\ e # <<f, v>>)
    <3>1. e[1] \in File /\ e[2] \in Version /\ e = <<e[1], e[2]>>
      OBVIOUS
    <3> QED
      BY <2>1, <3>1
  <2> QED
    BY <2>2, <2>3, <2>4
<1>11. Stages' /\ Progress'
  BY <1>0, <1>6, <1>10 DEF Well, Stages, Progress, MoveEntry
<1>12. Serving' /\ SessionServed'
  BY <1>0, <1>6 DEF Well, Serving, SessionServed, MoveEntry, Converting, clientVars, Spared
<1> QED
  BY <1>8, <1>9, <1>11, <1>12 DEF Well

(* A step of the program that leaves the private files alone needs only     *)
(* what it does to the rest of the state.                                  *)
LEMMA ProgramWhole ==
    ASSUME TypeOK, Well, Spared,
           MoveDone \/ Unlink \/ Mount \/ Verify \/ Unmount \/ Link \/ Flip
    PROVE  Well'
<1> USE DEF Well
<1>1. at' = at
  <2>1. CASE Unlink
    <3>1. PICK gone \in SUBSET Dirs :
               at' = [at EXCEPT !["dir"] = [f \in File |-> IF f \in gone THEN {} ELSE @[f]]]
      BY <2>1 DEF Unlink
    <3>2. Held("dir") = {}
      BY <2>1 DEF Unlink, Progress
    <3>3. ASSUME NEW f \in File PROVE at["dir"][f] = {}
      <4>1. \A v \in Version : v \notin at["dir"][f]
        BY <3>2, HeldPairs
      <4>2. at["dir"][f] \in SUBSET Version
        BY DEF TypeOK, Root
      <4> QED
        BY <4>1, <4>2
    <3>4. [f \in File |-> IF f \in gone THEN {} ELSE at["dir"][f]] = at["dir"]
      BY <3>3 DEF TypeOK, Root
    <3> QED
      BY <3>1, <3>4 DEF TypeOK, Root
  <2> QED
    BY <2>1 DEF MoveDone, Mount, Verify, Unmount, Link, Flip, diskVars
<1>2. NoTwins' /\ OwnIdentity' /\ Held("dir")' = Held("dir") /\ Held("priv")' = Held("priv")
  BY <1>1, FilesStay
<1>3. session' = session /\ (mishap' = "none" => mishap = "none")
  BY DEF MoveDone, Unlink, Mount, Verify, Unmount, Link, Flip, clientVars, Spared
<1>4. op.job # "none" /\ op.pc # "idle" /\ ~op.failed
  BY DEF Stages, MoveDone, Unlink, Mount, Verify, Unmount, Link, Flip
<1>5. op.pc # "unmount" => session = "none"
  BY <1>4 DEF SessionServed
<1>6. ~Mark({"broken"}) /\ (Mark({"wedged"}) => mishap' # "none")
  <2>1. ASSUME Mark({"broken"}) PROVE FALSE
    BY <2>1, Marked DEF Spared, Grave
  <2>2. ASSUME Mark({"wedged"}) PROVE mishap' # "none"
    BY <2>2, Marked
  <2> QED
    BY <2>1, <2>2
<1>7. End => op'.job = "none" /\ op'.pc = "idle" /\ ~op'.failed /\ op'.pre = {}
  BY DEF End, Idle
<1>8. \A pc \in Pc : Goto(pc) =>
        op'.job = op.job /\ op'.pc = pc /\ ~op'.failed /\ start' = start
  BY <1>4, Went
<1>9. \A job \in Job, pc \in Pc : Become(job, pc) =>
        op'.job = job /\ op'.pc = pc /\ ~op'.failed /\ start' = start
  BY Became
<1>10. CASE MoveDone
  <2>1. Held(From(op.job)) = {} /\ mount = "none"
    BY <1>10 DEF MoveDone, Progress
  <2>2. UNCHANGED <<row, mount, vouched>> /\ session = "none"
    BY <1>5, <1>10 DEF MoveDone, diskVars
  <2>3. CASE op.job = "fuse" /\ Goto("unlink")
    <3>1. op'.job = "fuse" /\ op'.pc = "unlink" /\ ~op'.failed /\ start' = start
      BY <1>8, <2>3 DEF Pc
    <3>2. Held("dir") = {}
      BY <2>1, <2>3 DEF From
    <3> QED
      BY <1>2, <1>3, <2>1, <2>2, <2>3, <3>1, <3>2
         DEF Stages, Progress, Serving, SessionServed, Converting
  <2>4. CASE op.job \in {"rollback", "symlink", "restore"} /\ Goto("link")
    <3>1. op'.job = op.job /\ op'.pc = "link" /\ ~op'.failed /\ start' = start
      BY <1>8, <2>4 DEF Pc
    <3>2. Held("priv") = {}
      BY <2>1, <2>4 DEF From
    <3> QED
      BY <1>2, <1>3, <2>1, <2>2, <2>4, <3>1, <3>2
         DEF Stages, Progress, Serving, SessionServed, Converting
  <2>5. CASE op.job = "heal" /\ Goto("mount")
    <3>1. op'.job = op.job /\ op'.pc = "mount" /\ ~op'.failed /\ start' = start
      BY <1>8, <2>5 DEF Pc
    <3>2. Held("dir") = {}
      BY <2>1, <2>5 DEF From
    <3> QED
      BY <1>2, <1>3, <2>1, <2>2, <2>5, <3>1, <3>2
         DEF Stages, Progress, Serving, SessionServed, Converting
  <2> QED
    BY <1>4, <1>10, <2>3, <2>4, <2>5 DEF MoveDone, StopsHere
<1>11. CASE Unlink
  <2>1. op'.job = op.job /\ op'.pc = "mount" /\ ~op'.failed /\ start' = start
        /\ UNCHANGED <<row, mount, vouched>> /\ session = "none"
    BY <1>5, <1>6, <1>8, <1>11 DEF Unlink, Pc
  <2>2. op.job = "fuse"
    BY <1>11 DEF Unlink, Stages, TypeOK, Job
  <2> QED
    BY <1>2, <1>3, <1>11, <2>1, <2>2
       DEF Unlink, Stages, Progress, Serving, SessionServed, Converting
<1>12. CASE Mount
  <2>1. row' = row /\ session = "none" /\ Held("dir") = {}
    BY <1>5, <1>12 DEF Mount, Progress
  <2>2. CASE op.job = "fuse" /\ Goto("verify") /\ mount' = "live" /\ vouched' = vouched
    <3>1. op'.job = op.job /\ op'.pc = "verify" /\ ~op'.failed /\ start' = start
      BY <1>8, <2>2 DEF Pc
    <3> QED
      BY <1>2, <1>3, <2>1, <2>2, <3>1
         DEF Stages, Progress, Serving, SessionServed, Converting
  <2>3. CASE op.job = "heal" /\ End /\ mount' = "live"
    BY <1>2, <1>3, <1>7, <2>1, <2>3 DEF Stages, Progress, Serving, SessionServed, Converting
  <2>4. CASE op.job = "fuse" /\ Become("rollback", "unmount")
             /\ mount' \in {"none", "dead"} /\ vouched' = vouched
    <3>1. op'.job = "rollback" /\ op'.pc = "unmount" /\ ~op'.failed /\ start' = start
      BY <1>9, <2>4 DEF Pc, Job
    <3> QED
      BY <1>2, <1>3, <2>1, <2>4, <3>1
         DEF Stages, Progress, Serving, SessionServed, Converting
  <2>5. CASE op.job = "heal" /\ HealFails({})
             /\ mount' \in {"none", "dead"} /\ vouched' = vouched
    <3>1. row = "fuse" /\ ~vouched
      BY <2>5 DEF Stages, Serving, Converting
    <3>2. CASE End
      BY <1>2, <1>3, <1>7, <2>1, <2>5, <3>1, <3>2
         DEF Stages, Progress, Serving, SessionServed, Converting
    <3>3. CASE Become("symlink", "unmount")
      <4>1. op'.job = "symlink" /\ op'.pc = "unmount" /\ ~op'.failed /\ start' = start
        BY <1>9, <3>3 DEF Pc, Job
      <4> QED
        BY <1>2, <1>3, <2>1, <2>5, <3>1, <4>1
           DEF Stages, Progress, Serving, SessionServed, Converting
    <3> QED
      BY <2>5, <3>2, <3>3 DEF HealFails
  <2>6. mount # "live" => mount \in {"none", "dead"}
    BY DEF TypeOK
  <2> QED
    BY <1>12, <2>2, <2>3, <2>4, <2>5, <2>6 DEF Mount
<1>13. CASE Verify
  <2>1. op.job = "fuse" /\ row = "symlink" /\ UNCHANGED <<row, mount, vouched>> /\ session = "none"
    BY <1>5, <1>13 DEF Verify, Stages, TypeOK, Job, diskVars
  <2>2. CASE Goto("flip")
    <3>1. op'.job = op.job /\ op'.pc = "flip" /\ ~op'.failed /\ start' = start
      BY <1>8, <2>2 DEF Pc
    <3> QED
      BY <1>2, <1>3, <1>13, <2>1, <3>1
         DEF Verify, Stages, Progress, Serving, SessionServed, Converting
  <2>3. CASE Become("rollback", "unmount")
    <3>1. op'.job = "rollback" /\ op'.pc = "unmount" /\ ~op'.failed /\ start' = start
      BY <1>9, <2>3 DEF Pc, Job
    <3> QED
      BY <1>2, <1>3, <2>1, <3>1
         DEF Stages, Progress, Serving, SessionServed, Converting
  <2> QED
    BY <1>13, <2>2, <2>3 DEF Verify
<1>14. CASE Unmount
  <2>1. UNCHANGED <<row, vouched>>
    BY <1>14 DEF Unmount
  <2>2. session # "none" => op.job = "restore" /\ row = "symlink" /\ mount = "none" /\ Held("priv") = {}
    BY <1>4 DEF SessionServed, Stages
  <2>3. op.job = "heal" => ~vouched /\ mount # "live"
    BY DEF Stages, Serving, Converting
  <2>4. CASE mount' = "none" /\ AfterUnmount(op.job)
    <3>1. CASE op.job = "restore" /\ Held("priv") = {} /\ End
      BY <1>2, <1>3, <1>7, <2>1, <2>2, <2>4, <3>1
         DEF Stages, Progress, Serving, SessionServed, Converting
    <3>2. CASE ~(op.job = "restore" /\ Held("priv") = {}) /\ GotoMove(op.job)
      <4>1. op'.job = op.job /\ op'.pc = "move" /\ ~op'.failed /\ start' = start
            /\ todo' = Held(From(op.job))
        BY <3>2, Moving DEF TypeOK
      <4>2. Held(From(op.job))' = Held(From(op.job))
        BY <1>1, <4>1 DEF Held, From
      <4>3. session = "none"
        BY <2>2, <3>2
      <4>4. op.job # "fuse"
        BY <1>14 DEF Unmount, Stages
      <4>5. Stages'
        BY <1>4, <2>1, <2>4, <4>1, <4>4 DEF Stages
      <4>6. Progress'
        BY <2>4, <4>1, <4>2 DEF Progress
      <4> QED
        BY <1>2, <1>3, <1>4, <2>1, <2>3, <2>4, <4>1, <4>3, <4>5, <4>6
           DEF Stages, Serving, SessionServed, Converting, TypeOK, Job
    <3> QED
      BY <2>4, <3>1, <3>2 DEF AfterUnmount
  <2>5. CASE mount # "none" /\ mishap' # "none" /\ mount' = mount
             /\ (End \/ (op.job = "heal" /\ Become("symlink", "unmount")))
    <3>1. session = "none"
      BY <2>2, <2>5
    <3>2. vouched /\ row = "fuse" => mount = "live"
      BY <1>14 DEF Unmount, Serving
    <3>3. CASE End
      BY <1>2, <1>3, <1>7, <2>1, <2>5, <3>1, <3>2, <3>3
         DEF Stages, Progress, Serving, SessionServed, Converting
    <3>4. CASE op.job = "heal" /\ Become("symlink", "unmount")
      <4>1. op'.job = "symlink" /\ op'.pc = "unmount" /\ ~op'.failed /\ start' = start
        BY <1>9, <3>4 DEF Pc, Job
      <4> QED
        BY <1>2, <1>3, <2>1, <2>3, <2>5, <3>1, <3>4, <4>1
           DEF Stages, Progress, Serving, SessionServed, Converting
    <3> QED
      BY <2>5, <3>3, <3>4
  <2>6. ASSUME HealFails({"wedged"})
        PROVE  mishap' # "none" /\ (End \/ Become("symlink", "unmount"))
    <3>1. ASSUME Mark({"wedged"} \cup Under) PROVE mishap' # "none"
      BY <3>1, Marked
    <3> QED
      BY <1>6, <2>6, <3>1 DEF HealFails
  <2>7. op.job = "heal" => mount # "live"
    BY <2>3
  <2>8. ASSUME ~(mount' = "none" /\ AfterUnmount(op.job))
        PROVE  /\ mount # "none" /\ mount' = mount
               /\ IF op.job = "heal" THEN HealFails({"wedged"}) ELSE End /\ Mark({"wedged"})
    BY <1>14, <2>7, <2>8 DEF Unmount
  <2>9. CASE ~(mount' = "none" /\ AfterUnmount(op.job))
    <3>1. mishap' # "none" /\ (End \/ (op.job = "heal" /\ Become("symlink", "unmount")))
      BY <1>6, <2>6, <2>8, <2>9
    <3> QED
      BY <2>5, <2>8, <2>9, <3>1
  <2> QED
    BY <2>4, <2>9
<1>15. CASE Link
  <2>1. mount = "none" /\ Held("priv") = {} /\ UNCHANGED <<row, mount, vouched>> /\ session = "none"
    BY <1>5, <1>15 DEF Link, Progress
  <2>2. CASE op.job = "symlink" /\ Goto("flip")
    <3>1. op'.job = op.job /\ op'.pc = "flip" /\ ~op'.failed /\ start' = start
      BY <1>8, <2>2 DEF Pc
    <3> QED
      BY <1>2, <1>3, <2>1, <2>2, <3>1
         DEF Stages, Progress, Serving, SessionServed, Converting
  <2>3. CASE op.job # "symlink" /\ End
    <3>1. row = "symlink"
      BY <1>15, <2>3, <1>4 DEF Link, Stages, TypeOK, Job
    <3> QED
      BY <1>2, <1>3, <1>7, <2>1, <2>3, <3>1
         DEF Stages, Progress, Serving, SessionServed, Converting
  <2> QED
    BY <1>6, <1>15, <2>2, <2>3 DEF Link
<1>16. CASE Flip
  <2>1. End /\ row' = op.job /\ vouched' = (op.job = "fuse") /\ mount' = mount /\ session = "none"
    BY <1>5, <1>6, <1>16 DEF Flip
  <2>2. op.job \in {"fuse", "symlink"}
    BY <1>4, <1>16 DEF Flip, Stages, TypeOK, Job
  <2> QED
    BY <1>2, <1>3, <1>7, <1>16, <2>1, <2>2
       DEF Flip, Stages, Progress, Serving, SessionServed, Converting
<1> QED
  BY <1>10, <1>11, <1>12, <1>13, <1>14, <1>15, <1>16

LEMMA VisitWhole ==
    ASSUME TypeOK, Well, Spared,
           \/ ReconcileSkips \/ Refresh
           \/ \E kind \in Kind : Reconcile(kind) \/ Poll(kind)
           \/ \E to \in Kind, force \in BOOLEAN : Migrate(to, force)
    PROVE  Well'
<1> USE DEF Well
<1>1. at' = at
  BY DEF Reconcile, ReconcileSkips, Poll, Refresh, Migrate, diskVars
<1>2. /\ NoTwins' /\ OwnIdentity' /\ Held("dir")' = Held("dir") /\ Held("priv")' = Held("priv")
      /\ mishap' = "none" => mishap = "none"
  BY <1>1, FilesStay DEF Spared
<1>3. op = Idle => op.job = "none" /\ op.pc = "idle"
  BY DEF Idle
<1>4. \A job \in Job : Begin(job) =>
        op'.job = job /\ op'.pc = "unmount" /\ ~op'.failed
  BY DEF Begin, Idle
<1>5. row \in Kind
  BY DEF TypeOK
<1>11. ASSUME NEW kind, ReadsWell(kind) \/ ReadsDead(kind)
       PROVE  kind = row /\ (ReadsDead(kind) => mount # "live")
  <2>1. ASSUME NEW S, Mark(S), "stale" \in S \/ "lost" \in S PROVE FALSE
    BY <2>1, Marked DEF Spared, Grave
  <2> QED
    BY <1>11, <2>1 DEF ReadsWell, ReadsDead, Stale
<1>6. ASSUME NEW kind \in Kind, Reconcile(kind) PROVE Well'
  <2>1. UNCHANGED <<row, mount, session>> /\ op = Idle /\ start = "pending"
    BY <1>6 DEF Reconcile, diskVars, clientVars
  <2>2. CASE row = "fuse" /\ mount = "live" /\ vouched' = TRUE /\ UNCHANGED op
    BY <1>2, <1>3, <1>6, <2>1, <2>2
       DEF Stages, Progress, Serving, SessionServed, Converting
  <2>3. CASE row = "fuse" /\ mount # "live" /\ Begin("heal") /\ UNCHANGED vouched
    <3>1. op'.job = "heal" /\ op'.pc = "unmount" /\ ~op'.failed
      BY <1>4, <2>3 DEF Job
    <3>2. session = "none"
      BY <2>3 DEF SessionServed
    <3> QED
      BY <1>2, <1>3, <2>1, <2>3, <3>1, <3>2
         DEF Stages, Progress, Serving, SessionServed, Converting
  <2>4. CASE row = "symlink" /\ Begin("restore") /\ start' = "visiting" /\ UNCHANGED vouched
    <3>1. op'.job = "restore" /\ op'.pc = "unmount" /\ ~op'.failed
      BY <1>4, <2>4 DEF Job
    <3> QED
      BY <1>2, <1>3, <2>1, <2>4, <3>1
         DEF Stages, Progress, Serving, SessionServed, Converting
  <2> QED
    BY <1>6, <1>11, <2>2, <2>3, <2>4 DEF Reconcile
<1>7. CASE ReconcileSkips
  <2>1. UNCHANGED <<row, mount, vouched, op, todo, session>> /\ op # Idle /\ start' = "done"
        /\ start = "pending"
    BY <1>7 DEF ReconcileSkips, diskVars, clientVars
  <2>2. op.job # "none"
    BY <2>1 DEF Stages, TypeOK, Idle
  <2>3. Held(From(op.job))' = Held(From(op.job))
    BY <1>1, <2>1 DEF Held, From
  <2> QED
    BY <1>2, <2>1, <2>2, <2>3 DEF Stages, Progress, Serving, SessionServed, Converting
<1>8. ASSUME NEW kind \in Kind, Poll(kind) PROVE Well'
  <2>1. UNCHANGED <<row, mount, vouched, start, session>> /\ op = Idle
    BY <1>8 DEF Poll, clientVars
  <2>2. CASE UNCHANGED op
    BY <1>2, <1>3, <2>1, <2>2 DEF Stages, Progress, Serving, SessionServed, Converting
  <2>3. CASE row = "fuse" /\ mount # "live" /\ Begin("heal")
    <3>1. op'.job = "heal" /\ op'.pc = "unmount" /\ ~op'.failed
      BY <1>4, <2>3 DEF Job
    <3>2. session = "none"
      BY <2>3 DEF SessionServed
    <3> QED
      BY <1>2, <1>3, <2>1, <2>3, <3>1, <3>2
         DEF Stages, Progress, Serving, SessionServed, Converting
  <2> QED
    BY <1>8, <1>11, <2>2, <2>3 DEF Poll
<1>9. CASE Refresh
  <2>1. UNCHANGED <<row, mount, op, todo, start, session>> /\ vouched' = (mount = "live")
    BY <1>9 DEF Refresh, diskVars, progVars, clientVars
  <2>2. Held(From(op.job))' = Held(From(op.job))
    BY <1>1, <2>1 DEF Held, From
  <2> QED
    BY <1>2, <2>1, <2>2 DEF Stages, Progress, Serving, SessionServed, Converting
<1>10. ASSUME NEW to \in Kind, NEW force \in BOOLEAN, Migrate(to, force) PROVE Well'
  <2>1. UNCHANGED <<row, mount, vouched, start, session>> /\ op = Idle /\ row # to /\ session = "none"
    <3>1. ASSUME Mark(Under) PROVE session = "none"
      <4>1. Under \cap Grave = {}
        BY <3>1, Marked DEF Spared
      <4> QED
        BY <4>1 DEF Under, Grave
    <3> QED
      BY <1>10, <3>1 DEF Migrate, diskVars, clientVars
  <2>2. CASE to = "symlink" /\ Begin("symlink")
    <3>1. op'.job = "symlink" /\ op'.pc = "unmount" /\ ~op'.failed
      BY <1>4, <2>2 DEF Job
    <3>2. row = "fuse"
      BY <1>5, <2>1, <2>2 DEF Kind
    <3> QED
      BY <1>2, <1>3, <2>1, <2>2, <3>1, <3>2
         DEF Stages, Progress, Serving, SessionServed, Converting
  <2>3. CASE to = "fuse" /\ mount = "none" /\ todo' = Held("dir")
             /\ op' = [Idle EXCEPT !.job = "fuse", !.pc = "move", !.pre = at["dir"][Identity]]
    <3>1. op'.job = "fuse" /\ op'.pc = "move" /\ ~op'.failed
      BY <2>3 DEF Idle
    <3>2. row = "symlink"
      BY <1>5, <2>1, <2>3 DEF Kind
    <3>3. Held(From(op.job))' = todo'
      BY <1>1, <2>3, <3>1 DEF Held, From
    <3> QED
      BY <1>2, <1>3, <2>1, <2>3, <3>1, <3>2, <3>3
         DEF Stages, Progress, Serving, SessionServed, Converting
  <2> QED
    BY <1>10, <2>2, <2>3 DEF Migrate
<1> QED
  BY <1>6, <1>7, <1>8, <1>9, <1>10

(* A client that gets the directory finds it served. *)
LEMMA ChosenWhole ==
    ASSUME TypeOK, Well, Spared, Select \/ SelectAlone
    PROVE  Well'
<1> USE DEF Well
<1>1. /\ UNCHANGED <<row, mount, at, vouched, op, todo, start>>
      /\ session = "none" /\ session' = "chosen" /\ (mishap' = "none" => mishap = "none")
  BY DEF Select, SelectAlone, diskVars, progVars, Spared
<1>2. NoTwins' /\ OwnIdentity' /\ Held("dir")' = Held("dir") /\ Held("priv")' = Held("priv")
  BY <1>1, FilesStay
<1>3. Held(From(op.job))' = Held(From(op.job))
  BY <1>1 DEF Held, From
<1>4. row \in Kind /\ op.job \in Job
  BY DEF TypeOK
<1>5. ASSUME Mark({"unguarded"}) PROVE FALSE
  BY <1>5, Marked DEF Spared, Grave
<1>6. /\ op.job = "none" \/ (op.job = "restore" /\ op.pc = "unmount")
      /\ \/ row = "fuse" /\ mount = "live"
         \/ row = "symlink" /\ mount = "none" /\ Held("priv") = {}
  <2>1. CASE op = Idle /\ ~HalfConverted
    BY <1>4, <2>1 DEF HalfConverted, Idle, Kind
  <2>2. CASE Select /\ start = "done"
    <3>1. op.job # "restore"
      BY <2>2 DEF Stages
    <3>2. op.job # "heal"
      BY <2>2 DEF Stages, Select, Ready, Serving
    <3>3. op.job = "none"
      BY <1>4, <2>2, <3>1, <3>2 DEF Select, Converting, Job
    <3> QED
      BY <1>4, <2>2, <3>3 DEF Select, Ready, Serving, Converting, Kind
  <2> QED
    BY <1>5, <2>1, <2>2 DEF Select, SelectAlone, AtWork
<1> QED
  BY <1>1, <1>2, <1>3, <1>6 DEF Stages, Progress, Serving, SessionServed, Converting

(* Where the directory is served, its identity is seen. *)
LEMMA ServedIdentity ==
    ASSUME TypeOK, Well, session # "none"
    PROVE  /\ "own" \in Seen(Identity)
           /\ row = "symlink" => "own" \in at["dir"][Identity]
<1>1. CASE row = "fuse" /\ mount = "live"
  <2>1. "own" \notin at["dir"][Identity]
    <3>1. ASSUME "own" \in at["dir"][Identity] PROVE FALSE
      <4>1. <<Identity, "own">> \in Held("dir")
        BY <3>1, FileAssumption, HeldPairs DEF Version
      <4> QED
        BY <1>1, <4>1 DEF Well, Serving
    <3> QED
      BY <3>1
  <2> QED
    BY <1>1, <2>1 DEF Well, OwnIdentity, Seen
<1>2. CASE row = "symlink" /\ mount = "none" /\ Held("priv") = {}
  <2>1. "own" \notin at["priv"][Identity]
    <3>1. ASSUME "own" \in at["priv"][Identity] PROVE FALSE
      <4>1. <<Identity, "own">> \in Held("priv")
        BY <3>1, FileAssumption, HeldPairs DEF Version
      <4> QED
        BY <1>2, <4>1
    <3> QED
      BY <3>1
  <2> QED
    BY <1>2, <2>1 DEF Well, OwnIdentity, Seen
<1> QED
  BY <1>1, <1>2 DEF Well, SessionServed

(* It keeps what it found, and writes where its files are. *)
LEMMA ClientWhole ==
    ASSUME TypeOK, Well, Spared,
           \/ Expire \/ MergeReads \/ Launch \/ Leave \/ HolderDies \/ Crash
           \/ \E f \in File : SessionWrites(f)
    PROVE  Well'
<1> USE DEF Well
<1>1. CASE Launch \/ MergeReads \/ Expire \/ Leave
  <2>1. /\ UNCHANGED <<row, mount, vouched, op, todo, start>>
        /\ mishap' = "none" => mishap = "none"
    BY <1>1 DEF Launch, MergeReads, Expire, Leave, diskVars, progVars, Spared
  <2>2. ASSUME Launch PROVE at' = at /\ session # "none" /\ session' = "running"
    <3>1. session \in {"chosen", "found"}
      BY <2>2 DEF Launch, SessionServed
    <3>2. "own" \in Seen(Identity) /\ (row = "symlink" => "own" \in at["dir"][Identity])
      BY <3>1, ServedIdentity
    <3>3. Merged = at["dir"][Identity]
      BY <3>1, <3>2 DEF Merged, SessionServed
    <3>4. at' = at
      BY <2>2, <3>3 DEF Launch, TypeOK
    <3>5. Seen(Identity)' = Seen(Identity)
      BY <2>1, <3>4 DEF Seen
    <3> QED
      BY <2>2, <3>1, <3>2, <3>4, <3>5 DEF Launch
  <2>3. ASSUME MergeReads PROVE at' = at /\ session # "none" /\ session' = "found"
    <3>1. "own" \in at["dir"][Identity]
      BY <2>3, ServedIdentity DEF MergeReads
    <3> QED
      BY <2>3, <3>1 DEF MergeReads, diskVars
  <2>4. at' = at /\ (session' = "none" \/ (session # "none" /\ session' \in {"found", "running", session}))
    BY <1>1, <2>2, <2>3 DEF Expire, Leave, diskVars
  <2>5. NoTwins' /\ OwnIdentity' /\ Held("dir")' = Held("dir") /\ Held("priv")' = Held("priv")
    BY <2>4, FilesStay
  <2>6. Held(From(op.job))' = Held(From(op.job))
    BY <2>4, <2>1 DEF Held, From
  <2> QED
    BY <2>1, <2>4, <2>5, <2>6 DEF Stages, Progress, Serving, SessionServed, Converting
<1>2. ASSUME NEW f \in File, SessionWrites(f) PROVE Well'
  <2>1. /\ session = "running"
        /\ UNCHANGED <<row, mount, vouched, op, todo, start, session>>
        /\ mishap' = "none" => mishap = "none"
    BY <1>2 DEF SessionWrites, clientVars, Scanned, SessionServed, Spared
  <2>2. PICK root \in Root, other \in Root :
          /\ root # other
          /\ Held(other) = {}
          /\ \/ root = "dir" /\ row = "symlink" /\ mount = "none"
             \/ root = "priv" /\ row = "fuse" /\ mount = "live"
    <3>1. CASE row = "fuse" /\ mount = "live"
      <4>1. Held("dir") = {}
        BY <3>1 DEF Serving
      <4> QED
        BY <3>1, <4>1 DEF Root
    <3>2. CASE row = "symlink" /\ mount = "none" /\ Held("priv") = {}
      BY <3>2 DEF Root
    <3> QED
      BY <2>1, <3>1, <3>2 DEF SessionServed
  <2> DEFINE S == IF f \in Dirs THEN at[root][f] \cup {"fresh"}
                  ELSE IF at[root][f] = {} THEN {"fresh"} ELSE at[root][f]
  <2>3. at' = [at EXCEPT ![root][f] = S]
    BY <1>2, <2>1, <2>2 DEF SessionWrites
  <2>4. /\ \A g \in File : at'[other][g] = at[other][g]
        /\ \A g \in File : g # f => at'[root][g] = at[root][g]
        /\ at'[root][f] = S
    BY <2>2, <2>3 DEF TypeOK, Root
  <2>5. \A g \in File, w \in Version : w \notin at[other][g]
    BY <2>2, HeldPairs
  <2>6. \A g \in File : at[root][g] \in SUBSET Version /\ at[other][g] \in SUBSET Version
    BY DEF TypeOK
  <2>7. (root = "dir" /\ other = "priv") \/ (root = "priv" /\ other = "dir")
    BY <2>2 DEF Root
  <2>8. \A g \in File : g \notin Dirs => \A w, x \in at[root][g] \cup at[other][g] : w = x
    BY <2>7 DEF NoTwins
  <2>9. NoTwins'
    <3>1. ASSUME NEW g \in File, g \notin Dirs,
                 NEW w \in at'[root][g] \cup at'[other][g],
                 NEW x \in at'[root][g] \cup at'[other][g]
          PROVE  w = x
      <4>1. w \in at'[root][g] /\ x \in at'[root][g]
        BY <2>4, <2>5, <2>6
      <4>2. CASE g = f
        BY <2>4, <2>8, <3>1, <4>1, <4>2
      <4>3. CASE g # f
        BY <2>4, <2>8, <3>1, <4>1, <4>3
      <4> QED
        BY <4>2, <4>3
    <3> QED
      BY <2>4, <2>5, <2>7, <3>1 DEF NoTwins
  <2>10. OwnIdentity'
    <3>1. "own" \in at[root][Identity]
      <4>1. "own" \in at[root][Identity] \cup at[other][Identity]
        BY <2>7 DEF OwnIdentity
      <4> QED
        BY <2>5, <4>1, FileAssumption DEF Version
    <3>2. "own" \in at'[root][Identity]
      <4>1. CASE Identity = f
        BY <2>4, <3>1, <4>1
      <4>2. CASE Identity # f
        BY <2>4, <3>1, <4>2, FileAssumption
      <4> QED
        BY <4>1, <4>2
    <3> QED
      BY <2>7, <3>2 DEF OwnIdentity
  <2>11. Held(other)' = {}
    BY <2>2, <2>4 DEF Held
  <2>12. op.job = "none" \/ (op.job = "restore" /\ op.pc = "unmount")
    BY <2>1 DEF SessionServed
  <2>13. op.pc \in {"idle", "unmount"}
    BY <2>12 DEF Stages
  <2> QED
    BY <2>1, <2>2, <2>7, <2>9, <2>10, <2>11, <2>12, <2>13
       DEF Stages, Progress, Serving, SessionServed, Converting
<1>4. ~HolderDies
  <2>1. ASSUME Mark({"lost"}) PROVE FALSE
    BY <2>1, Marked DEF Spared, Grave
  <2> QED
    BY <2>1 DEF HolderDies
<1>5. CASE Crash
  <2>1. UNCHANGED <<row, mount, at, session, mishap>> /\ op' = Idle /\ ~vouched' /\ start' = "pending"
    BY <1>5 DEF Crash, diskVars
  <2>2. NoTwins' /\ OwnIdentity' /\ Held("dir")' = Held("dir") /\ Held("priv")' = Held("priv")
    BY <2>1, FilesStay
  <2>3. op'.job = "none" /\ op'.pc = "idle" /\ ~op'.failed /\ op'.pre = {}
    BY <2>1 DEF Idle
  <2> QED
    BY <2>1, <2>2, <2>3 DEF Stages, Progress, Serving, SessionServed, Converting
<1> QED
  BY <1>1, <1>2, <1>4, <1>5

LEMMA NextWhole == ASSUME TypeOK, WholeInv, [Next]_vars PROVE WholeInv'
<1> SUFFICES ASSUME mishap' # "grave" PROVE Well'
  BY DEF WholeInv
<1>1. Spared /\ Well
  BY Remembered DEF WholeInv
<1>2. CASE UNCHANGED vars
  <2>1. UNCHANGED <<row, mount, at, vouched, op, todo, start, session, mishap>>
    BY <1>2 DEF vars, diskVars, progVars, clientVars
  <2>2. NoTwins' /\ OwnIdentity' /\ Held("dir")' = Held("dir") /\ Held("priv")' = Held("priv")
    BY <1>1, <2>1, FilesStay DEF Well
  <2>3. Held(From(op.job))' = Held(From(op.job))
    BY <2>1 DEF Held, From
  <2> QED
    BY <1>1, <2>1, <2>2, <2>3 DEF Well, Stages, Progress, Serving, SessionServed, Converting
<1> QED
  BY <1>1, <1>2, MoveWhole, ProgramWhole, VisitWhole, ChosenWhole, ClientWhole
     DEF Next, Program, Visit, Clients

LEMMA Whole == Spec => []WholeInv
<1>1. TypeOK /\ WholeInv /\ [Next]_vars => WholeInv'
  BY NextWhole
<1> QED
  BY <1>1, InitWhole, TypeCorrect, PTL DEF Spec

(* An account that is visited and not being worked on is never left half   *)
(* converted: convert.go undoes a failed conversion, reconcileAccount       *)
(* (server.go) completes or undoes one the daemon was killed in, at         *)
(* whatever step.  Clients may select while the reconcile runs, be remade   *)
(* under, merge late; rows may be stale: "mishap" says which of these were  *)
(* met, and the property speaks of the behaviours that met none of them.    *)
THEOREM Settles == Spec => []SettledWhole
<1>1. WholeInv => SettledWhole
  BY DEF WholeInv, Well, SettledWhole, Serving, Idle
<1> QED
  BY <1>1, Whole, PTL

(* Every claude that starts finds the account's own .claude.json, and none  *)
(* starts a second identity in a directory whose files a conversion left in *)
(* the other root, unless one of the five grave mishaps came first: above   *)
(* all a select that server.go granted, or a client took by itself, while   *)
(* the directory was half-converted.                                       *)
THEOREM LaunchesSeeIdentity == Spec => LaunchSeesIdentity
<1>1. TypeOK /\ WholeInv' /\ [Next]_vars
        => [session # "astray" /\ session' = "astray" => mishap = "grave"]_vars
  <2> SUFFICES ASSUME TypeOK, WholeInv', [Next]_vars, session # "astray", session' = "astray"
               PROVE  mishap = "grave"
    OBVIOUS
  <2>1. mishap' = "grave"
    BY DEF WholeInv, Well, SessionServed
  <2>2. mishap' = mishap
    BY DEF Next, Program, Visit, Clients, MoveEntry, MoveDone, Unlink, Mount, Verify, Unmount,
           Link, Flip, Reconcile, ReconcileSkips, Poll, Refresh, Migrate, Select, SelectAlone,
           Expire, MergeReads, Launch, Leave, SessionWrites, HolderDies, Crash, vars, clientVars
  <2> QED
    BY <2>1, <2>2
<1> QED
  BY <1>1, Whole, TypeCorrect, PTL DEF Spec, LaunchSeesIdentity
=============================================================================
