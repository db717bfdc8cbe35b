------------------------------- MODULE PoolProofs -------------------------------
(***************************************************************************)
(* Proofs about internal/pool.                                             *)
(*                                                                         *)
(* About StickyPins, for any number of directories, indices, processes and *)
(* ticks: the type invariant, that nothing is inherited with an index,     *)
(* that a session is closed when it has ended, and that the user's pins    *)
(* stay.  About Accounts, for any number of indices, users and commands:   *)
(* the type invariant, whose login an account has, and that no add touches *)
(* an account.                                                             *)
(***************************************************************************)
EXTENDS StickyPins, Accounts, WellFoundedInduction, TLAPS

(* The fields that a select has filled in by the time it uses them.         *)
Begun == {"force", "scan", "sample", "reap", "pin", "classify", "delete", "forget", "record", "open"}

Fit(w) ==
    /\ w.pc \in Begun => w.dir \in Dir
    /\ w.pc \in {"classify", "delete", "forget"} => w.read \in Pin
    /\ w.pc \in {"record", "open"} => w.acct \in Id

Filled ==
    /\ \A p \in Proc : Fit(proc[p])
    /\ user.pc # "idle" => user.dir \in Dir /\ user.acct \in Id
    /\ user.pc = "look" => user.read \in Pin

Types == TypeOK /\ Filled

-----------------------------------------------------------------------------
LEMMA NowIsTime == ASSUME TypeOK PROVE now \in Time /\ now \in Nat /\ Never \in Time /\ MaxTime \in Nat
BY TimeAssumption DEF TypeOK, Time, Never

LEMMA GoneFits == Gone \in ProcState /\ Fit(Gone) /\ Gone.at = Never /\ Gone.pc = "gone"
<1>1. [i \in Id |-> 0] \in [Id -> Nat] /\ Never \in Time
  BY TimeAssumption DEF Time, Never
<1> QED
  BY <1>1 DEF Gone, ProcState, Fit, Begun, Path

LEMMA DecidedFits ==
    ASSUME NEW w \in ProcState, w.dir \in Dir, NEW path \in Path, NEW i \in Id
    PROVE  LET v == Decided(w, path, i) IN
           /\ v \in ProcState /\ Fit(v) /\ v.pc \in {"record", "open"} /\ v.acct = i
           /\ v.at \in {w.at, Never} /\ v.dir = w.dir /\ v.known \in [Id -> Nat]
<1> DEFINE v == Decided(w, path, i)
<1>1. Never \in Time
  BY TimeAssumption DEF Time, Never
<1>2. w.known \in [Id -> Nat]
  BY DEF ProcState
<1>3. [w.known EXCEPT ![i] = @] = w.known
  BY <1>2
<1>4. [j \in Id |-> IF j = i THEN w.known[j] ELSE 0] \in [Id -> Nat]
  BY <1>2
<1>5. v = [w EXCEPT !.pc = First(path), !.path = path, !.acct = i, !.read = None,
        !.known = [j \in Id |-> IF j = i THEN w.known[j] ELSE 0],
        !.at = IF path = "daemon" THEN Never ELSE w.at]
  BY DEF Decided
<1>6. First(path) \in {"record", "open"}
  BY DEF First
<1>7. /\ w.pc \in SelectPc \cup {"gone", "ccp", "claude"} /\ w.alive \in SUBSET Proc
      /\ w.at \in Time /\ w.slow \in BOOLEAN /\ w.keep \in Id \cup {None}
  BY DEF ProcState
<1>8. v \in ProcState
  BY <1>1, <1>4, <1>5, <1>6, <1>7 DEF ProcState, SelectPc
<1>9. /\ v.pc = First(path) /\ v.acct = i /\ v.dir = w.dir
      /\ v.at = IF path = "daemon" THEN Never ELSE w.at
      /\ v.known = [j \in Id |-> IF j = i THEN w.known[j] ELSE 0]
  BY <1>5 DEF ProcState
<1> QED
  BY <1>4, <1>6, <1>8, <1>9 DEF Fit, Begun

-----------------------------------------------------------------------------
(* What every step of a select makes of its state.                          *)
Unopened == {"force", "scan", "sample", "reap", "pin", "classify", "delete", "forget"}

Expired(p, v) ==
    /\ proc[p].pc = "classify" /\ v.dir = proc[p].dir /\ v.read = proc[p].read /\ v.at = proc[p].at
    /\ ~AliveAt(v.dir, v.read, v.at)

Moves(p, v) ==
    /\ Step(p, v) /\ v \in ProcState /\ Fit(v)
    /\ v.at \in {Never, now, proc[p].at}
    /\ v.pc = "sample" => v.alive = Claudes
    /\ v.pc = "reap" => proc[p].pc = "sample" /\ v.alive = proc[p].alive /\ v.at = now /\ FoundAt(v.alive)
    /\ v.pc = "classify" => v.read = pin[v.dir]
    /\ v.pc = "delete" => Expired(p, v)
    /\ v.pc = "claude" => v.slow = (row[p] # None /\ (~TooYoung(row[p], now) \/ Waiting))
    /\ v.pc \in Unopened \cup {"gone"} => proc[p].pc \in Unopened \/ row[p] = None \/ Goes(p)

LEMMA ChooseMoves ==
    ASSUME Types, NEW p \in Proc, NEW w \in ProcState, w.dir \in Dir,
           w.at \in {now, proc[p].at}, proc[p].pc \in Unopened, Choose(p, w)
    PROVE  \E v \in ProcState : Moves(p, v)
<1>1. CASE Step(p, Gone)
  BY <1>1, GoneFits DEF Moves, Unopened
<1>2. ASSUME NEW i \in Id, Step(p, Decided(w, w.path, i)) PROVE \E v \in ProcState : Moves(p, v)
  <2>1. w.path \in Path
    BY DEF ProcState
  <2> DEFINE v == Decided(w, w.path, i)
  <2>2. /\ v \in ProcState /\ Fit(v) /\ v.pc \in {"record", "open"}
        /\ v.at \in {w.at, Never}
    BY <2>1, DecidedFits
  <2>3. Moves(p, v)
    BY <1>2, <2>2 DEF Moves, Unopened
  <2> QED
    BY <2>2, <2>3
<1> QED
  BY <1>1, <1>2 DEF Choose

(* A copy of the state with another program counter.                        *)
LEMMA AtFields ==
    ASSUME TypeOK, NEW p \in Proc, NEW to \in SelectPc \cup {"gone", "ccp", "claude"}
    PROVE  LET w == At(p, to) IN
           /\ w \in ProcState /\ w.pc = to /\ w.path = proc[p].path /\ w.dir = proc[p].dir
           /\ w.known = proc[p].known /\ w.alive = proc[p].alive /\ w.at = proc[p].at
           /\ w.read = proc[p].read /\ w.acct = proc[p].acct /\ w.keep = proc[p].keep
           /\ w.slow = proc[p].slow
<1>1. proc[p] \in ProcState
  BY DEF TypeOK
<1> QED
  BY <1>1 DEF At, ProcState

LEMMA SelectListMoves ==
    ASSUME Types, NEW p \in Proc, SelectList(p) PROVE \E v \in ProcState : Moves(p, v)
<1>1. PICK d \in Dir, pc \in {"scan", "force"} :
         Step(p, [Gone EXCEPT !.dir = d, !.pc = pc,
                     !.known = [i \in Id |-> IF i \in accounts THEN life[i] ELSE 0]])
  BY DEF SelectList
<1> DEFINE known == [i \in Id |-> IF i \in accounts THEN life[i] ELSE 0]
           v == [Gone EXCEPT !.dir = d, !.pc = pc, !.known = known]
<1>2. known \in [Id -> Nat]
  BY DEF Types, TypeOK
<1>3. Gone \in ProcState /\ Gone.at = Never
  BY GoneFits
<1>4. v \in ProcState /\ v.at = Never /\ v.pc \in {"scan", "force"} /\ v.dir = d
  BY <1>2, <1>3 DEF ProcState, SelectPc
<1>5. row[p] = None
  BY DEF SelectList
<1>6. Fit(v)
  BY <1>4 DEF Fit
<1>7. Step(p, v)
  BY <1>1
<1>8. Moves(p, v)
  BY <1>4, <1>5, <1>6, <1>7 DEF Moves
<1> QED
  BY <1>4, <1>8

LEMMA SelectScanMoves ==
    ASSUME Types, NEW p \in Proc, SelectScan(p) PROVE \E v \in ProcState : Moves(p, v)
<1>1. proc[p].pc = "scan" /\ proc[p].dir \in Dir /\ now \in Time
  BY DEF SelectScan, Types, Filled, Fit, Begun, TypeOK
<1>2. CASE Step(p, [At(p, "sample") EXCEPT !.alive = Claudes])
  <2> DEFINE v == [At(p, "sample") EXCEPT !.alive = Claudes]
  <2>1. /\ At(p, "sample") \in ProcState /\ At(p, "sample").pc = "sample" /\ At(p, "sample").dir \in Dir
         /\ At(p, "sample").at = proc[p].at
    BY <1>1, AtFields DEF Types, SelectPc
  <2>2. Claudes \in SUBSET Proc
    BY DEF Claudes
  <2>3. v \in ProcState /\ v.pc = "sample" /\ v.dir \in Dir /\ v.alive = Claudes /\ v.at = proc[p].at
    BY <1>1, <2>1, <2>2 DEF ProcState
  <2>4. Moves(p, v)
    BY <1>1, <1>2, <2>3 DEF Moves, Fit, Unopened
  <2> QED
    BY <2>3, <2>4
<1>3. CASE Step(p, [At(p, "pin") EXCEPT !.at = now])
  <2> DEFINE v == [At(p, "pin") EXCEPT !.at = now]
  <2>1. At(p, "pin") \in ProcState /\ At(p, "pin").pc = "pin" /\ At(p, "pin").dir \in Dir
    BY <1>1, AtFields DEF Types, SelectPc
  <2>2. v \in ProcState /\ v.pc = "pin" /\ v.dir \in Dir /\ v.at = now
    BY <1>1, <2>1 DEF ProcState
  <2>3. Moves(p, v)
    BY <1>1, <1>3, <2>2 DEF Moves, Fit, Unopened
  <2> QED
    BY <2>2, <2>3
<1> QED
  BY <1>2, <1>3 DEF SelectScan

LEMMA SelectTimeMoves ==
    ASSUME Types, NEW p \in Proc, SelectTime(p) PROVE \E v \in ProcState : Moves(p, v)
<1> DEFINE v == [At(p, "reap") EXCEPT !.at = now]
<1>1. /\ proc[p].pc = "sample" /\ proc[p].dir \in Dir /\ now \in Time /\ Step(p, v)
      /\ FoundAt(proc[p].alive)
  BY DEF SelectTime, Types, Filled, Fit, Begun, TypeOK
<1>2. /\ At(p, "reap") \in ProcState /\ At(p, "reap").pc = "reap" /\ At(p, "reap").dir \in Dir
      /\ At(p, "reap").alive = proc[p].alive
  BY <1>1, AtFields DEF Types, SelectPc
<1>3. v \in ProcState /\ v.pc = "reap" /\ v.dir \in Dir /\ v.at = now /\ v.alive = proc[p].alive
  BY <1>1, <1>2 DEF ProcState
<1>4. Fit(v)
  BY <1>3 DEF Fit
<1>5. Moves(p, v)
  BY <1>1, <1>3, <1>4 DEF Moves, Unopened
<1> QED
  BY <1>3, <1>5

LEMMA SelectReapMoves ==
    ASSUME Types, NEW p \in Proc, SelectReap(p) PROVE \E v \in ProcState : Moves(p, v)
<1> DEFINE v == [At(p, "pin") EXCEPT !.alive = {}]
<1>1. proc[p].pc = "reap" /\ proc[p].dir \in Dir /\ Step(p, v)
  BY DEF SelectReap, Types, Filled, Fit, Begun
<1>2. /\ At(p, "pin") \in ProcState /\ At(p, "pin").pc = "pin" /\ At(p, "pin").dir \in Dir
      /\ At(p, "pin").at = proc[p].at
  BY <1>1, AtFields DEF Types, SelectPc
<1>3. v \in ProcState /\ v.pc = "pin" /\ v.dir \in Dir /\ v.at = proc[p].at
  BY <1>2 DEF ProcState
<1>4. Moves(p, v)
  BY <1>1, <1>3 DEF Moves, Fit, Unopened
<1> QED
  BY <1>3, <1>4

LEMMA StickyReadMoves ==
    ASSUME Types, NEW p \in Proc, StickyRead(p) PROVE \E v \in ProcState : Moves(p, v)
<1>1. PICK path \in Path, st \in {pin[proc[p].dir], None} :
         LET w == [At(p, "classify") EXCEPT !.path = path, !.read = st,
                                            !.at = IF path = "daemon" THEN now ELSE @]
         IN IF st = None THEN Choose(p, w) ELSE Step(p, w)
  BY DEF StickyRead
<1>2. proc[p].pc = "pin" /\ proc[p].dir \in Dir /\ now \in Time
  BY DEF StickyRead, Types, Filled, Fit, Begun, TypeOK
<1> DEFINE w == [At(p, "classify") EXCEPT !.path = path, !.read = st,
                                          !.at = IF path = "daemon" THEN now ELSE @]
<1>3. /\ At(p, "classify") \in ProcState /\ At(p, "classify").pc = "classify"
      /\ At(p, "classify").dir = proc[p].dir /\ At(p, "classify").at = proc[p].at
      /\ proc[p].at \in Time
  BY <1>2, AtFields DEF Types, SelectPc, TypeOK, ProcState
<1>4. st \in Pin \cup {None}
  BY <1>2 DEF Types, TypeOK
<1>5. w = [At(p, "classify") EXCEPT !.path = path, !.read = st,
                                    !.at = IF path = "daemon" THEN now ELSE proc[p].at]
  BY <1>3
<1>6. /\ w \in ProcState /\ w.pc = "classify" /\ w.dir = proc[p].dir
      /\ w.read = st /\ w.at \in {now, proc[p].at}
  BY <1>2, <1>3, <1>4, <1>5 DEF ProcState
<1>7. CASE st = None
  BY <1>1, <1>2, <1>6, <1>7, ChooseMoves DEF Unopened
<1>8. CASE st # None
  <2>1. Step(p, w) /\ w.read \in Pin /\ w.read = pin[w.dir]
    BY <1>1, <1>4, <1>6, <1>8
  <2>2. Moves(p, w)
    BY <2>1, <1>2, <1>6 DEF Moves, Fit, Unopened
  <2> QED
    BY <1>6, <2>2
<1> QED
  BY <1>7, <1>8

LEMMA OutcomeMoves ==
    ASSUME Types, NEW p \in Proc, proc[p].pc = "classify", proc[p].dir \in Dir, proc[p].read \in Pin,
           NEW binds \in BOOLEAN, Outcome(p, binds)
    PROVE  \E v \in ProcState : Moves(p, v)
<1> DEFINE st == proc[p].read
<1>1. proc[p] \in ProcState /\ st.acct \in Id
  BY DEF Types, TypeOK, Pin
<1>2. ASSUME NEW k \in Id \cup {None}, Choose(p, [proc[p] EXCEPT !.keep = k])
      PROVE  \E v \in ProcState : Moves(p, v)
  <2> DEFINE w == [proc[p] EXCEPT !.keep = k]
  <2>1. w \in ProcState /\ w.dir = proc[p].dir /\ w.at = proc[p].at
    BY <1>1 DEF ProcState
  <2> QED
    BY <1>2, <2>1, ChooseMoves DEF Unopened
<1>3. ASSUME Step(p, Decided(proc[p], proc[p].path, st.acct))
      PROVE  \E v \in ProcState : Moves(p, v)
  <2> DEFINE v == Decided(proc[p], proc[p].path, st.acct)
  <2>1. proc[p].path \in Path
    BY <1>1 DEF ProcState
  <2>2. /\ v \in ProcState /\ Fit(v) /\ v.pc \in {"record", "open"}
        /\ v.at \in {proc[p].at, Never}
    BY <1>1, <2>1, DecidedFits
  <2>3. Moves(p, v)
    BY <1>3, <2>2 DEF Moves, Unopened
  <2> QED
    BY <2>2, <2>3
<1>4. CASE Choose(p, proc[p])
  BY <1>1, <1>4, ChooseMoves DEF Unopened
<1> QED
  BY <1>1, <1>2, <1>3, <1>4 DEF Outcome

LEMMA ClassifyMoves ==
    ASSUME Types, NEW p \in Proc, Classify(p) PROVE \E v \in ProcState : Moves(p, v)
<1> DEFINE st == proc[p].read
           d == proc[p].dir
<1>1. proc[p].pc = "classify" /\ d \in Dir /\ st \in Pin
  BY DEF Classify, Types, Filled, Fit, Begun
<1>2. CASE ~AliveAt(d, st, proc[p].at) /\ Step(p, At(p, "delete"))
  <2> DEFINE v == At(p, "delete")
  <2>1. /\ v \in ProcState /\ v.pc = "delete" /\ v.dir = d /\ v.at = proc[p].at
        /\ v.read = st
    BY AtFields DEF Types, SelectPc
  <2>2. Moves(p, v)
    BY <1>1, <1>2, <2>1 DEF Moves, Fit, Unopened, Expired
  <2> QED
    BY <2>1, <2>2
<1>3. CASE Step(p, At(p, "forget"))
  <2> DEFINE v == At(p, "forget")
  <2>1. /\ v \in ProcState /\ v.pc = "forget" /\ v.dir = d /\ v.at = proc[p].at
        /\ v.read = st
    BY AtFields DEF Types, SelectPc
  <2>2. Moves(p, v)
    BY <1>1, <1>3, <2>1 DEF Moves, Fit, Unopened
  <2> QED
    BY <2>1, <2>2
<1>4. ASSUME NEW binds \in BOOLEAN, Outcome(p, binds) PROVE \E v \in ProcState : Moves(p, v)
  BY <1>1, <1>4, OutcomeMoves
<1>5. Binding(d, st, proc[p].at) \in BOOLEAN /\ TRUE \in BOOLEAN
  BY DEF Binding
<1> QED
  BY <1>2, <1>3, <1>4, <1>5 DEF Classify

LEMMA DeleteExpiredMoves ==
    ASSUME Types, NEW p \in Proc, DeleteExpired(p) PROVE \E v \in ProcState : Moves(p, v)
<1>1. /\ proc[p].pc \in {"delete", "forget"} /\ proc[p].dir \in Dir /\ proc[p] \in ProcState
      /\ Choose(p, proc[p])
  BY DEF DeleteExpired, Types, Filled, Fit, Begun, TypeOK
<1> QED
  BY <1>1, ChooseMoves DEF Unopened

LEMMA ForcedMoves ==
    ASSUME Types, NEW p \in Proc, Forced(p) PROVE \E v \in ProcState : Moves(p, v)
<1>1. PICK path \in Path, i \in Id :
        Step(p, [Decided(proc[p], path, i) EXCEPT !.at = IF path = "daemon" THEN Never ELSE now])
  BY DEF Forced
<1>2. proc[p].pc = "force" /\ proc[p].dir \in Dir /\ proc[p] \in ProcState /\ now \in Time
  BY DEF Forced, Types, Filled, Fit, Begun, TypeOK
<1> DEFINE w == Decided(proc[p], path, i)
           v == [w EXCEPT !.at = IF path = "daemon" THEN Never ELSE now]
<1>3. /\ w \in ProcState /\ Fit(w) /\ w.pc \in {"record", "open"} /\ w.at \in {proc[p].at, Never}
      /\ w.acct = i /\ w.dir = proc[p].dir /\ w.at \in Time
  <2>1. /\ w \in ProcState /\ Fit(w) /\ w.pc \in {"record", "open"} /\ w.at \in {proc[p].at, Never}
        /\ w.acct = i /\ w.dir = proc[p].dir
    BY <1>2, DecidedFits
  <2> QED
    BY <2>1 DEF ProcState
<1>4. Never \in Time
  BY NowIsTime DEF Types
<1>5. /\ v \in ProcState /\ v.pc = w.pc /\ v.acct = i /\ v.dir = proc[p].dir
      /\ v.at \in {Never, now}
  BY <1>2, <1>3, <1>4 DEF ProcState
<1>6. Moves(p, v)
  BY <1>1, <1>2, <1>3, <1>5 DEF Moves, Fit, Unopened, Begun
<1> QED
  BY <1>5, <1>6

(* The steps on the chosen account, and the ends.                           *)
LEMMA LaunchingFits ==
    ASSUME NEW p \in Proc
    PROVE  Launching(p) \in ProcState /\ Fit(Launching(p)) /\ Launching(p).pc = "ccp" /\ Launching(p).at = Never
<1>1. Gone \in ProcState /\ Gone.at = Never
  BY GoneFits
<1>2. Launching(p) \in ProcState /\ Launching(p).pc = "ccp" /\ Launching(p).at = Never
  BY <1>1 DEF Launching, ProcState
<1> QED
  BY <1>2 DEF Fit, Begun

LEMMA RecordStickyMoves ==
    ASSUME Types, NEW p \in Proc, RecordSticky(p) PROVE \E v \in ProcState : Moves(p, v)
<1>1. proc[p].pc = "record" /\ proc[p].dir \in Dir /\ proc[p].acct \in Id
  BY DEF RecordSticky, Types, Filled, Fit, Begun
<1>2. CASE Step(p, Launching(p))
  BY <1>2, LaunchingFits DEF Moves, Unopened
<1>3. CASE Step(p, At(p, "open"))
  <2>1. /\ At(p, "open") \in ProcState /\ At(p, "open").pc = "open" /\ At(p, "open").at = proc[p].at
        /\ At(p, "open").dir = proc[p].dir /\ At(p, "open").acct = proc[p].acct
    BY AtFields DEF Types, SelectPc
  <2>2. Moves(p, At(p, "open"))
    BY <1>1, <1>3, <2>1 DEF Moves, Fit, Unopened
  <2> QED
    BY <2>1, <2>2
<1> QED
  BY <1>2, <1>3 DEF RecordSticky

LEMMA OpenSessionMoves ==
    ASSUME Types, NEW p \in Proc, OpenSession(p) PROVE \E v \in ProcState : Moves(p, v)
<1>1. proc[p].pc = "open" /\ proc[p].dir \in Dir /\ proc[p].acct \in Id
  BY DEF OpenSession, Types, Filled, Fit, Begun
<1>2. CASE Step(p, Launching(p))
  BY <1>2, LaunchingFits DEF Moves, Unopened
<1>3. CASE Step(p, At(p, "record"))
  <2>1. /\ At(p, "record") \in ProcState /\ At(p, "record").pc = "record" /\ At(p, "record").at = proc[p].at
        /\ At(p, "record").dir = proc[p].dir /\ At(p, "record").acct = proc[p].acct
    BY AtFields DEF Types, SelectPc
  <2>2. Moves(p, At(p, "record"))
    BY <1>1, <1>3, <2>1 DEF Moves, Fit, Unopened
  <2> QED
    BY <2>1, <2>2
<1> QED
  BY <1>2, <1>3 DEF OpenSession

LEMMA GoesMoves ==
    ASSUME NEW p \in Proc, Goes(p) PROVE \E v \in ProcState : Moves(p, v)
BY GoneFits DEF Moves, Goes, Unopened

LEMMA ExecMoves ==
    ASSUME Types, NEW p \in Proc, Exec(p) PROVE \E v \in ProcState : Moves(p, v)
<1> DEFINE late == row[p] # None /\ (~TooYoung(row[p], now) \/ Waiting)
           v == [At(p, "claude") EXCEPT !.slow = late]
<1>1. Step(p, v) /\ late \in BOOLEAN
  BY DEF Exec
<1>2. At(p, "claude") \in ProcState /\ At(p, "claude").pc = "claude" /\ At(p, "claude").at = proc[p].at
  BY AtFields DEF Types
<1> HIDE DEF late
<1>3. v \in ProcState /\ v.pc = "claude" /\ v.at = proc[p].at /\ v.slow = late
  BY <1>1, <1>2 DEF ProcState
<1>4. Moves(p, v)
  BY <1>1, <1>3 DEF Moves, Fit, Begun, Unopened, late
<1> QED
  BY <1>3, <1>4

LEMMA SelectStepMoves ==
    ASSUME Types, NEW p \in Proc, SelectStep(p) PROVE \E v \in ProcState : Moves(p, v)
<1>1. CASE Leave(p) \/ Exit(p)
  BY <1>1, GoesMoves DEF Leave, Exit
<1>2. CASE SelectList(p) \/ SelectScan(p) \/ SelectTime(p) \/ SelectReap(p) \/ StickyRead(p)
  BY <1>2, SelectListMoves, SelectScanMoves, SelectTimeMoves, SelectReapMoves, StickyReadMoves
<1>3. CASE Classify(p) \/ DeleteExpired(p) \/ Forced(p)
  BY <1>3, ClassifyMoves, DeleteExpiredMoves, ForcedMoves
<1>4. CASE RecordSticky(p) \/ OpenSession(p) \/ Exec(p)
  BY <1>4, RecordStickyMoves, OpenSessionMoves, ExecMoves
<1> QED
  BY <1>1, <1>2, <1>3, <1>4 DEF SelectStep


-----------------------------------------------------------------------------
(* Of times there is a latest one.                                          *)
LEMMA LatestIsLast ==
    ASSUME NEW times \in SUBSET Time, times # {}
    PROVE  Latest(times) \in times /\ \A u \in times : u <= Latest(times)
<1> DEFINE left == {MaxTime - t : t \in times}
<1>1. MaxTime \in Nat /\ \A t \in times : t \in Nat /\ t <= MaxTime
  BY TimeAssumption DEF Time
<1>2. left \in SUBSET Nat /\ left # {}
  BY <1>1
<1>3. PICK m \in left : \A n \in left : m <= n
  <2> DEFINE less == OpToRel(<, Nat)
  <2>1. \E m \in left : \A n \in left : ~ (<<n, m>> \in less)
    BY <1>2, WFMin, NatLessThanWellFounded, Zenon
  <2>2. ASSUME NEW m \in Nat, NEW n \in Nat, n < m PROVE <<n, m>> \in less
    BY <2>2, Zenon DEF OpToRel
  <2> HIDE DEF less
  <2>3. PICK m \in left : \A n \in left : <<n, m>> \notin less
    BY <2>1
  <2>4. ASSUME NEW n \in left PROVE m <= n
    <3>1. m \in Nat /\ n \in Nat
      BY <1>2
    <3>2. ~ (n < m)
      BY <2>2, <2>3, <3>1
    <3> QED
      BY <3>1, <3>2
  <2> QED
    BY <2>4
<1>4. PICK t \in times : m = MaxTime - t
  BY <1>3
<1>5. \A u \in times : u <= t
  <2> TAKE u \in times
  <2>1. m <= MaxTime - u
    BY <1>3
  <2> QED
    BY <1>1, <1>4, <2>1
<1> QED
  BY <1>5 DEF Latest


-----------------------------------------------------------------------------
(* What the store's statements leave.                                       *)
LEMMA RowFields ==
    ASSUME TypeOK, NEW p \in Proc, row[p] # None
    PROVE  /\ row[p] \in Row /\ row[p].acct \in Id /\ row[p].dir \in Dir /\ row[p].of \in Nat
           /\ row[p].started \in Time /\ row[p].seen \in Time /\ row[p].left \in Time
BY DEF TypeOK, Row

LEMMA EndOfIsTime ==
    ASSUME TypeOK, NEW p \in Proc, row[p] # None, NEW at
    PROVE  /\ EndOf(row[p], at) \in Time /\ EndOf(row[p], at) \in {row[p].started, row[p].seen}
BY RowFields DEF EndOf, Later

LEMMA CloseDeadRows ==
    ASSUME TypeOK, NEW alive, NEW at \in Time, CloseDeadSessions(alive, at)
    PROVE  /\ row' \in [Proc -> Row \cup {None}]
           /\ \A p \in Proc : row'[p] # None =>
                /\ row[p] # None /\ ~Reapable(p, alive, at)
                /\ row'[p].acct = row[p].acct /\ row'[p].dir = row[p].dir
                /\ row'[p].started = row[p].started /\ row'[p].of = row[p].of
                /\ row'[p].left = row[p].left
                /\ row'[p].seen = row[p].seen \/ (row'[p].seen = at /\ p \in alive)
           /\ \A p \in Proc : row'[p] = None => row[p] = None \/ Reapable(p, alive, at)
           /\ \A p \in Proc : Reapable(p, alive, at) => row[p] # None /\ row'[p] = None
<1>1. ASSUME NEW p \in Proc
      PROVE  /\ row'[p] \in Row \cup {None}
             /\ row'[p] # None =>
                /\ row[p] # None /\ ~Reapable(p, alive, at)
                /\ row'[p].acct = row[p].acct /\ row'[p].dir = row[p].dir
                /\ row'[p].started = row[p].started /\ row'[p].of = row[p].of
                /\ row'[p].left = row[p].left
                /\ row'[p].seen = row[p].seen \/ (row'[p].seen = at /\ p \in alive)
             /\ row'[p] = None => row[p] = None \/ Reapable(p, alive, at)
             /\ Reapable(p, alive, at) => row[p] # None /\ row'[p] = None
  <2>1. row'[p] = IF Reapable(p, alive, at) THEN None
                  ELSE IF row[p] # None /\ p \in alive
                  THEN [row[p] EXCEPT !.seen = at] ELSE row[p]
    BY DEF CloseDeadSessions
  <2>2. row[p] \in Row \cup {None}
    BY DEF TypeOK
  <2>3. CASE Reapable(p, alive, at)
    BY <2>1, <2>3 DEF Reapable
  <2>4. CASE ~Reapable(p, alive, at) /\ row[p] # None /\ p \in alive
    <3>1. row'[p] = [row[p] EXCEPT !.seen = at] /\ row[p] \in Row
      BY <2>1, <2>2, <2>4
    <3>2. /\ row'[p] \in Row /\ row'[p].seen = at /\ row'[p].left = row[p].left
          /\ row'[p].acct = row[p].acct /\ row'[p].dir = row[p].dir
          /\ row'[p].started = row[p].started /\ row'[p].of = row[p].of
      BY <3>1 DEF Row
    <3> QED
      BY <2>4, <3>2, NoneAssumption
  <2>5. CASE ~Reapable(p, alive, at) /\ ~(row[p] # None /\ p \in alive)
    BY <2>1, <2>2, <2>5
  <2> QED
    BY <2>3, <2>4, <2>5
<1>2. row' = [p \in Proc |-> row'[p]]
  BY DEF CloseDeadSessions
<1>3. row' \in [Proc -> Row \cup {None}]
  BY <1>1, <1>2
<1> QED
  BY <1>1, <1>3

LEMMA CloseDeadEnds ==
    ASSUME TypeOK, NEW alive, NEW at \in Time, CloseDeadSessions(alive, at)
    PROVE  /\ ended' \in [Dir -> [Id -> Time]] /\ endOf' \in [Dir -> [Id -> Nat]]
           /\ \A d \in Dir, i \in Id :
                /\ ended[d][i] <= ended'[d][i]
                /\ \/ ended'[d][i] = ended[d][i] /\ endOf'[d][i] = endOf[d][i]
                   \/ \E p \in Proc : /\ Reapable(p, alive, at) /\ row[p].dir = d /\ row[p].acct = i
                                      /\ ended'[d][i] = EndOf(row[p], at) /\ endOf'[d][i] = row[p].of
<1> DEFINE Ends(d, i) == {EndOf(row[p], at) : p \in Closers(d, i, alive, at)}
<1>1. ended' = [d \in Dir |-> [i \in Id |-> Latest({ended[d][i]} \cup Ends(d, i))]]
  BY DEF CloseDeadSessions
<1>2. ASSUME NEW d \in Dir, NEW i \in Id
      PROVE  /\ ended'[d][i] \in {ended[d][i]} \cup Ends(d, i)
             /\ ended'[d][i] \in Time /\ ended[d][i] <= ended'[d][i]
  <2>1. ended[d][i] \in Time
    BY DEF TypeOK
  <2>2. Ends(d, i) \subseteq Time
    BY EndOfIsTime DEF Closers, Reapable
  <2>3. {ended[d][i]} \cup Ends(d, i) \in SUBSET Time
    BY <2>1, <2>2
  <2>4. ended'[d][i] = Latest({ended[d][i]} \cup Ends(d, i))
    BY <1>1
  <2> HIDE DEF Ends
  <2> QED
    BY <2>3, <2>4, LatestIsLast
<1>3. ASSUME NEW d \in Dir, NEW i \in Id
      PROVE  \/ ended'[d][i] = ended[d][i] /\ endOf'[d][i] = endOf[d][i]
             \/ \E p \in Closers(d, i, alive, at) :
                  ended'[d][i] = EndOf(row[p], at) /\ endOf'[d][i] = row[p].of
  <2> DEFINE last == CHOOSE p \in Closers(d, i, alive, at) : EndOf(row[p], at) = ended'[d][i]
  <2>1. endOf'[d][i] = IF ended'[d][i] = ended[d][i] THEN endOf[d][i] ELSE row[last].of
    BY DEF CloseDeadSessions
  <2>2. ended'[d][i] # ended[d][i] => \E p \in Closers(d, i, alive, at) : EndOf(row[p], at) = ended'[d][i]
    BY <1>2
  <2> QED
    BY <2>1, <2>2
<1>4. ended' \in [Dir -> [Id -> Time]]
  <2>1. ended' = [d \in Dir |-> [i \in Id |-> ended'[d][i]]]
    BY <1>1
  <2> HIDE DEF Ends
  <2> QED
    BY <1>2, <2>1
<1>5. \A d \in Dir, i \in Id : \A p \in Closers(d, i, alive, at) :
        p \in Proc /\ Reapable(p, alive, at) /\ row[p].dir = d /\ row[p].acct = i /\ row[p].of \in Nat
  BY RowFields DEF Closers, Reapable
<1>6. endOf' \in [Dir -> [Id -> Nat]]
  <2>1. endOf' = [d \in Dir |-> [i \in Id |-> endOf'[d][i]]]
    BY DEF CloseDeadSessions
  <2>2. \A d \in Dir, i \in Id : endOf'[d][i] \in Nat
    BY <1>3, <1>5 DEF TypeOK
  <2> QED
    BY <2>1, <2>2
<1> HIDE DEF Ends
<1> QED
  BY <1>2, <1>3, <1>4, <1>5, <1>6

LEMMA FoundRows ==
    ASSUME TypeOK, NEW alive, FoundAt(alive)
    PROVE  /\ row' \in [Proc -> Row \cup {None}]
           /\ \A p \in Proc : row'[p] = None <=> row[p] = None
           /\ \A p \in Proc : row'[p] # None =>
                /\ row'[p].acct = row[p].acct /\ row'[p].dir = row[p].dir /\ row'[p].of = row[p].of
                /\ row'[p].started = row[p].started /\ row'[p].seen = row[p].seen
                /\ row'[p].left \in {row[p].left, now}
                /\ proc[p].pc = "gone" /\ p \in alive => row'[p].left = now
<1>1. ASSUME NEW p \in Proc
      PROVE  /\ row'[p] \in Row \cup {None}
             /\ row'[p] = None <=> row[p] = None
             /\ row'[p] # None =>
                /\ row'[p].acct = row[p].acct /\ row'[p].dir = row[p].dir /\ row'[p].of = row[p].of
                /\ row'[p].started = row[p].started /\ row'[p].seen = row[p].seen
                /\ row'[p].left \in {row[p].left, now}
                /\ proc[p].pc = "gone" /\ p \in alive => row'[p].left = now
  <2>1. row'[p] = IF p \in alive /\ proc[p].pc = "gone" /\ row[p] # None
                  THEN [row[p] EXCEPT !.left = now] ELSE row[p]
    BY DEF FoundAt
  <2>2. row[p] \in Row \cup {None} /\ now \in Time
    BY DEF TypeOK
  <2>3. CASE p \in alive /\ proc[p].pc = "gone" /\ row[p] # None
    <3>1. row'[p] = [row[p] EXCEPT !.left = now] /\ row[p] \in Row
      BY <2>1, <2>2, <2>3
    <3>2. /\ row'[p] \in Row /\ row'[p].left = now
          /\ row'[p].acct = row[p].acct /\ row'[p].dir = row[p].dir /\ row'[p].of = row[p].of
          /\ row'[p].started = row[p].started /\ row'[p].seen = row[p].seen
      BY <2>2, <3>1 DEF Row
    <3> QED
      BY <2>3, <3>2, NoneAssumption
  <2>4. CASE ~(p \in alive /\ proc[p].pc = "gone" /\ row[p] # None)
    BY <2>1, <2>2, <2>4
  <2> QED
    BY <2>3, <2>4
<1>2. row' = [p \in Proc |-> row'[p]]
  BY DEF FoundAt
<1>3. row' \in [Proc -> Row \cup {None}]
  BY <1>1, <1>2
<1> QED
  BY <1>1, <1>3

LEMMA UpsertStickyPins ==
    ASSUME TypeOK, NEW d \in Dir, NEW st \in Pin, UpsertSticky(d, st)
    PROVE  /\ pin' \in [Dir -> Pin \cup {None}]
           /\ \A e \in Dir : e # d => pin'[e] = pin[e]
           /\ \/ pin'[d] = pin[d]
              \/ /\ pin'[d] \in Pin /\ pin'[d].acct = st.acct /\ pin'[d].at = st.at /\ pin'[d].of = st.of
                 /\ Manual(d) => pin'[d].acct = pin[d].acct /\ pin'[d].manual
<1>1. pin[d] \in Pin \cup {None} /\ pin \in [Dir -> Pin \cup {None}]
  BY DEF TypeOK
<1>2. CASE pin[d] = None \/ ~pin[d].manual
  BY <1>1, <1>2 DEF UpsertSticky, Manual
<1>3. CASE pin[d] # None /\ pin[d].manual /\ pin[d].acct = st.acct
  <2> DEFINE new == [st EXCEPT !.manual = TRUE]
  <2>1. new \in Pin /\ new.acct = st.acct /\ new.at = st.at /\ new.of = st.of /\ new.manual
    BY DEF Pin
  <2>2. pin' = [pin EXCEPT ![d] = new]
    BY <1>3 DEF UpsertSticky
  <2> HIDE DEF new
  <2> QED
    BY <1>1, <1>3, <2>1, <2>2
<1>4. CASE pin[d] # None /\ pin[d].manual /\ pin[d].acct # st.acct
  BY <1>1, <1>4 DEF UpsertSticky
<1> QED
  BY <1>2, <1>3, <1>4


-----------------------------------------------------------------------------
(* Types.                                                                   *)
LEMMA InitTypes == Init => Types
<1> SUFFICES ASSUME Init PROVE Types
  OBVIOUS
<1>1. Gone \in ProcState /\ Fit(Gone)
  BY GoneFits
<1>2. now \in Time /\ Never \in Time
  <2>1. 1 \in Time
    BY TimeAssumption DEF Init, Time
  <2> QED
    BY <2>1, TimeAssumption DEF Init, Time, Never
<1>3. PollIdle \in PollState /\ UserIdle \in UserState
  BY <1>2 DEF PollIdle, PollState, UserIdle, UserState
<1>4. /\ accounts \subseteq Id /\ life \in [Id -> Nat] /\ pin \in [Dir -> Pin \cup {None}]
      /\ row \in [Proc -> Row \cup {None}] /\ ended \in [Dir -> [Id -> Time]]
      /\ endOf \in [Dir -> [Id -> Nat]]
      /\ lapsed \subseteq Dir /\ removes \in Nat /\ selects \in Nat
  BY <1>2 DEF Init
<1>5. TypeOK
  BY <1>1, <1>2, <1>3, <1>4 DEF Init, TypeOK
<1>6. Filled
  BY <1>1 DEF Init, Filled, UserIdle
<1> QED
  BY <1>5, <1>6 DEF Types

LEMMA StepFits ==
    ASSUME Types, NEW p \in Proc, NEW v \in ProcState, Fit(v), Step(p, v)
    PROVE  /\ proc' \in [Proc -> ProcState] /\ \A q \in Proc : Fit(proc'[q])
           /\ proc'[p] = v /\ \A q \in Proc : q # p => proc'[q] = proc[q]
<1>1. proc' = [proc EXCEPT ![p] = v] /\ proc \in [Proc -> ProcState]
  BY DEF Step, Types, TypeOK
<1>2. proc' \in [Proc -> ProcState] /\ proc'[p] = v /\ \A q \in Proc : q # p => proc'[q] = proc[q]
  BY <1>1
<1>3. \A q \in Proc : Fit(proc[q])
  BY DEF Types, Filled
<1> QED
  BY <1>2, <1>3

LEMMA StampIsTime ==
    ASSUME TypeOK, NEW p \in Proc PROVE Stamp(p) \in Time /\ Stamp(p) \in {now, proc[p].at}
BY DEF TypeOK, ProcState, Stamp

LEMMA MeantIsNat ==
    ASSUME TypeOK, NEW known \in Nat, NEW i \in Id PROVE Meant(known, i) \in Nat
BY DEF Meant

LEMMA OfIsNat ==
    ASSUME TypeOK, NEW p \in Proc, proc[p].acct \in Id PROVE Of(p) \in Nat
<1>1. proc[p].known[proc[p].acct] \in Nat
  BY DEF TypeOK, ProcState
<1> QED
  BY <1>1, MeantIsNat DEF Of

LEMMA GoesRows ==
    ASSUME TypeOK, NEW p \in Proc, Goes(p)
    PROVE  /\ row' \in [Proc -> Row \cup {None}]
           /\ \A q \in Proc : q # p => row'[q] = row[q]
           /\ row[p] = None => row'[p] = None
           /\ row[p] # None =>
                /\ row'[p] # None
                /\ row'[p].acct = row[p].acct /\ row'[p].dir = row[p].dir
                /\ row'[p].started = row[p].started /\ row'[p].seen = row[p].seen
                /\ row'[p].of = row[p].of /\ row'[p].left = now
<1>1. row \in [Proc -> Row \cup {None}] /\ now \in Time
  BY DEF TypeOK
<1>2. CASE row[p] = None
  BY <1>1, <1>2 DEF Goes
<1>3. CASE row[p] # None
  <2>1. row' = [row EXCEPT ![p] = [row[p] EXCEPT !.left = now]]
    BY <1>3 DEF Goes
  <2> DEFINE new == [row[p] EXCEPT !.left = now]
  <2>2. /\ new \in Row /\ new.acct = row[p].acct /\ new.dir = row[p].dir
        /\ new.started = row[p].started /\ new.seen = row[p].seen
        /\ new.of = row[p].of /\ new.left = now
    BY <1>1, <1>3 DEF Row
  <2>3. new # None
    BY <2>2, NoneAssumption
  <2> HIDE DEF new
  <2>4. row' = [row EXCEPT ![p] = new]
    BY <2>1 DEF new
  <2> QED
    BY <1>1, <1>3, <2>2, <2>3, <2>4
<1> QED
  BY <1>2, <1>3

LEMMA OpenSessionRows ==
    ASSUME Types, NEW p \in Proc, OpenSession(p)
    PROVE  /\ row' \in [Proc -> Row \cup {None}]
           /\ \A q \in Proc : q # p => row'[q] = row[q]
           /\ row'[p] # None /\ row'[p].started \in {now, proc[p].at} /\ row'[p].seen = Never
           /\ row'[p].left = Never /\ row'[p].acct = proc[p].acct /\ row'[p].dir = proc[p].dir
           /\ row'[p].of = Of(p)
<1> DEFINE new == [acct |-> proc[p].acct, dir |-> proc[p].dir, started |-> Stamp(p),
                   seen |-> Never, of |-> Of(p), left |-> Never]
<1>1. proc[p].dir \in Dir /\ proc[p].acct \in Id
  BY DEF OpenSession, Types, Filled, Fit, Begun
<1>2. Stamp(p) \in Time /\ Stamp(p) \in {now, proc[p].at} /\ Of(p) \in Nat /\ Never \in Time
  BY <1>1, StampIsTime, OfIsNat, NowIsTime DEF Types
<1>3. new \in Row
  BY <1>1, <1>2 DEF Row
<1>4. new # None /\ row \in [Proc -> Row \cup {None}]
  BY <1>3, NoneAssumption DEF Types, TypeOK
<1>5. row' = [row EXCEPT ![p] = new]
  BY DEF OpenSession
<1>6. row'[p] = new
  BY <1>4, <1>5
<1> QED
  BY <1>2, <1>3, <1>4, <1>5, <1>6

(* What a select writes: a pin of the account and the time it has.          *)
LEMMA RecordStickyPins ==
    ASSUME Types, NEW p \in Proc, RecordSticky(p)
    PROVE  /\ proc[p].dir \in Dir /\ pin' \in [Dir -> Pin \cup {None}]
           /\ \A e \in Dir : e # proc[p].dir => pin'[e] = pin[e]
           /\ \/ pin'[proc[p].dir] = pin[proc[p].dir]
              \/ LET d == proc[p].dir IN
                 /\ pin'[d] \in Pin /\ pin'[d].acct = proc[p].acct /\ pin'[d].of = Of(p)
                 /\ Manual(d) => pin'[d].acct = pin[d].acct /\ pin'[d].manual
<1>1. proc[p].dir \in Dir /\ proc[p].acct \in Id
  BY DEF RecordSticky, Types, Filled, Fit, Begun
<1> DEFINE st == [acct |-> proc[p].acct, at |-> Stamp(p), manual |-> FALSE, of |-> Of(p)]
<1>2. Stamp(p) \in Time /\ Of(p) \in Nat
  BY <1>1, StampIsTime, OfIsNat DEF Types
<1>3. st \in Pin /\ st.acct = proc[p].acct /\ st.of = Of(p)
  BY <1>1, <1>2 DEF Pin
<1>4. UNCHANGED pin \/ UpsertSticky(proc[p].dir, st)
  BY DEF RecordSticky
<1>5. pin \in [Dir -> Pin \cup {None}]
  BY DEF Types, TypeOK
<1> HIDE DEF st
<1> QED
  BY <1>1, <1>3, <1>4, <1>5, UpsertStickyPins DEF Types

LEMMA DeleteExpiredPins ==
    ASSUME Types, NEW p \in Proc, DeleteExpired(p)
    PROVE  /\ proc[p].dir \in Dir /\ pin' \in [Dir -> Pin \cup {None}]
           /\ \A e \in Dir : pin'[e] = pin[e] \/ (/\ e = proc[p].dir /\ pin'[e] = None
                                                  /\ SameVersion(e, proc[p].read))
<1>1. proc[p].dir \in Dir /\ pin \in [Dir -> Pin \cup {None}]
  BY DEF DeleteExpired, Types, Filled, Fit, Begun, TypeOK
<1> QED
  BY <1>1 DEF DeleteExpired

(* The statements of a select, one at a time.                               *)
LEMMA SelectStores ==
    ASSUME NEW p \in Proc, SelectStep(p)
    PROVE  /\ UNCHANGED <<now, accounts, life, poll, user>>
           /\ \/ UNCHANGED <<pin, row, ended, endOf>>
              \/ SelectTime(p) /\ UNCHANGED <<pin, ended, endOf>>
              \/ SelectReap(p) /\ UNCHANGED pin
              \/ DeleteExpired(p) /\ UNCHANGED <<row, ended, endOf>>
              \/ RecordSticky(p) /\ UNCHANGED <<row, ended, endOf>>
              \/ OpenSession(p) /\ UNCHANGED <<pin, ended, endOf>>
              \/ Goes(p) /\ UNCHANGED <<pin, ended, endOf>>
<1> USE DEF storeVars
<1>1. CASE SelectList(p) \/ SelectScan(p) \/ StickyRead(p) \/ Classify(p) \/ Forced(p) \/ Exec(p)
  BY <1>1 DEF SelectList, SelectScan, StickyRead, Classify, Forced, Exec
<1>2. CASE SelectTime(p) \/ SelectReap(p) \/ DeleteExpired(p) \/ RecordSticky(p) \/ OpenSession(p)
  BY <1>2 DEF SelectTime, SelectReap, DeleteExpired, RecordSticky, OpenSession
<1>3. CASE Leave(p) \/ Exit(p)
  BY <1>3 DEF Leave, Exit
<1> QED
  BY <1>1, <1>2, <1>3 DEF SelectStep

LEMMA SelectCounts ==
    ASSUME TypeOK, NEW p \in Proc, SelectStep(p) PROVE removes' \in Nat /\ selects' \in Nat
<1>1. removes \in Nat /\ selects \in Nat
  BY DEF TypeOK
<1>2. CASE SelectList(p)
  BY <1>1, <1>2 DEF SelectList
<1>3. CASE ~SelectList(p)
  BY <1>1, <1>3 DEF SelectStep, SelectScan, SelectTime, StickyRead, Classify, Forced, Exec, SelectReap, DeleteExpired,
                    RecordSticky, OpenSession, Leave, Exit
<1> QED
  BY <1>2, <1>3

LEMMA SelectTypes ==
    ASSUME Types, NEW p \in Proc, SelectStep(p), lapsed' \subseteq Dir
    PROVE  Types'
<1>1. PICK v \in ProcState : Moves(p, v)
  BY SelectStepMoves
<1>2. proc' \in [Proc -> ProcState] /\ \A q \in Proc : Fit(proc'[q])
  BY <1>1, StepFits DEF Moves
<1>3. UNCHANGED <<now, accounts, life, poll, user>>
  BY SelectStores
<1>4. removes' \in Nat /\ selects' \in Nat
  BY SelectCounts DEF Types
<1>5. /\ pin \in [Dir -> Pin \cup {None}] /\ row \in [Proc -> Row \cup {None}]
      /\ ended \in [Dir -> [Id -> Time]] /\ endOf \in [Dir -> [Id -> Nat]]
  BY DEF Types, TypeOK
<1>6. /\ pin' \in [Dir -> Pin \cup {None}] /\ row' \in [Proc -> Row \cup {None}]
      /\ ended' \in [Dir -> [Id -> Time]] /\ endOf' \in [Dir -> [Id -> Nat]]
  <2>1. CASE UNCHANGED <<pin, row, ended, endOf>>
    BY <1>5, <2>1
  <2>2. CASE SelectReap(p) /\ UNCHANGED pin
    <3>1. CloseDeadSessions(proc[p].alive, proc[p].at) /\ proc[p].at \in Time
      BY <2>2 DEF SelectReap, Types, TypeOK, ProcState
    <3> QED
      BY <1>5, <2>2, <3>1, CloseDeadRows, CloseDeadEnds DEF Types
  <2>3. CASE DeleteExpired(p) /\ UNCHANGED <<row, ended, endOf>>
    BY <1>5, <2>3, DeleteExpiredPins
  <2>4. CASE RecordSticky(p) /\ UNCHANGED <<row, ended, endOf>>
    BY <1>5, <2>4, RecordStickyPins
  <2>5. CASE OpenSession(p) /\ UNCHANGED <<pin, ended, endOf>>
    BY <1>5, <2>5, OpenSessionRows
  <2>6. CASE Goes(p) /\ UNCHANGED <<pin, ended, endOf>>
    BY <1>5, <2>6, GoesRows DEF Types
  <2>7. CASE SelectTime(p) /\ UNCHANGED <<pin, ended, endOf>>
    BY <1>5, <2>7, FoundRows DEF Types, SelectTime
  <2> QED
    BY <2>1, <2>2, <2>3, <2>4, <2>5, <2>6, <2>7, SelectStores
<1>7. TypeOK'
  BY <1>2, <1>3, <1>4, <1>6 DEF Types, TypeOK
<1>8. Filled'
  BY <1>2, <1>3 DEF Types, Filled
<1> QED
  BY <1>7, <1>8 DEF Types


LEMMA PollTypes ==
    ASSUME Types, PollStep, lapsed' \subseteq Dir
    PROVE  Types'
<1>1. /\ UNCHANGED <<now, accounts, life, proc, user, removes, selects>>
      /\ \/ UNCHANGED <<pin, row, ended, endOf>>
         \/ PollTime /\ UNCHANGED <<pin, ended, endOf>>
         \/ PollReap /\ UNCHANGED pin
         \/ PruneSticky /\ UNCHANGED <<row, ended, endOf>>
  BY DEF PollStep, PollScan, PollTime, PollScanFails, PollReap, PruneSticky, storeVars
<1>2. now \in Time /\ Never \in Time
  BY NowIsTime DEF Types
<1>3. [PollIdle EXCEPT !.pc = "prune"] \in PollState /\ PollIdle \in PollState
  BY <1>2 DEF PollIdle, PollState
<1>4. poll' \in PollState
  <2>1. CASE PollScan
    <3>1. Claudes \in SUBSET Proc
      BY DEF Claudes
    <3> QED
      BY <1>2, <2>1, <3>1 DEF PollScan, PollIdle, PollState
  <2>2. CASE PollScanFails \/ PollReap \/ PruneSticky
    BY <1>3, <2>2 DEF PollScanFails, PollReap, PruneSticky
  <2>3. CASE PollTime
    BY <1>2, <2>3 DEF PollTime, PollState, Types, TypeOK
  <2> QED
    BY <2>1, <2>2, <2>3 DEF PollStep
<1>5. /\ pin \in [Dir -> Pin \cup {None}] /\ row \in [Proc -> Row \cup {None}]
      /\ ended \in [Dir -> [Id -> Time]] /\ endOf \in [Dir -> [Id -> Nat]]
  BY DEF Types, TypeOK
<1>6. /\ pin' \in [Dir -> Pin \cup {None}] /\ row' \in [Proc -> Row \cup {None}]
      /\ ended' \in [Dir -> [Id -> Time]] /\ endOf' \in [Dir -> [Id -> Nat]]
  <2>1. CASE UNCHANGED <<pin, row, ended, endOf>>
    BY <1>5, <2>1
  <2>2. CASE PollReap /\ UNCHANGED pin
    <3>1. CloseDeadSessions(poll.alive, poll.at) /\ poll.at \in Time
      BY <2>2 DEF PollReap, Types, TypeOK, PollState
    <3> QED
      BY <1>5, <2>2, <3>1, CloseDeadRows, CloseDeadEnds DEF Types
  <2>3. CASE PruneSticky /\ UNCHANGED <<row, ended, endOf>>
    BY <1>5, <2>3 DEF PruneSticky
  <2>4. CASE PollTime /\ UNCHANGED <<pin, ended, endOf>>
    BY <1>5, <2>4, FoundRows DEF Types, PollTime
  <2> QED
    BY <1>1, <2>1, <2>2, <2>3, <2>4
<1>7. TypeOK'
  BY <1>1, <1>4, <1>6 DEF Types, TypeOK
<1>8. Filled'
  BY <1>1 DEF Types, Filled
<1> QED
  BY <1>7, <1>8 DEF Types

(* The fields of the user's state, whichever is set.                        *)
LEMMA UserFields ==
    ASSUME TypeOK
    PROVE  /\ user.pc \in {"idle", "look", "unpin", "check", "pin"} /\ user.dir \in Dir \cup {None}
           /\ user.acct \in Id \cup {None} /\ user.read \in Pin \cup {None} /\ user.of \in Nat
           /\ UserIdle \in UserState /\ UserIdle.pc = "idle" /\ UserIdle.of = 0 /\ UserIdle.read = None
BY DEF TypeOK, UserState, UserIdle

LEMMA ToggleReadUser ==
    ASSUME Types, ToggleRead
    PROVE  /\ user' \in UserState /\ user'.dir \in Dir /\ user'.acct \in Id
           /\ user'.pc = "look" => user'.read \in Pin
<1>1. PICK d \in Dir, i \in accounts :
         LET u == [UserIdle EXCEPT !.dir = d, !.acct = i] IN
         user' = IF pin[d] # None /\ pin[d].acct = i
                   THEN [u EXCEPT !.pc = "look", !.read = pin[d]]
                   ELSE [u EXCEPT !.pc = "check"]
  BY DEF ToggleRead
<1> DEFINE u == [UserIdle EXCEPT !.dir = d, !.acct = i]
<1>2. i \in Id /\ pin[d] \in Pin \cup {None}
  BY DEF Types, TypeOK
<1>3. UserIdle \in UserState
  BY UserFields DEF Types
<1>4. u \in UserState /\ u.dir = d /\ u.acct = i
  BY <1>2, <1>3 DEF UserState
<1>5. CASE pin[d] # None /\ pin[d].acct = i
  <2>1. user' = [u EXCEPT !.pc = "look", !.read = pin[d]] /\ pin[d] \in Pin
    BY <1>1, <1>2, <1>5
  <2> HIDE DEF u
  <2> QED
    BY <1>2, <1>4, <2>1 DEF UserState
<1>6. CASE ~(pin[d] # None /\ pin[d].acct = i)
  <2>1. user' = [u EXCEPT !.pc = "check"]
    BY <1>1, <1>6
  <2> HIDE DEF u
  <2> QED
    BY <1>2, <1>4, <2>1 DEF UserState
<1> QED
  BY <1>5, <1>6

LEMMA UserGoes ==
    ASSUME Types, UserStep
    PROVE  /\ user' \in UserState
           /\ user'.pc # "idle" => user'.dir \in Dir /\ user'.acct \in Id
           /\ user'.pc = "look" => user'.read \in Pin
<1>1. CASE ToggleRead
  BY <1>1, ToggleReadUser
<1>2. CASE ToggleLook
  <2>1. PICK alive \in {AliveAt(user.dir, user.read, now), Fresh(user.read, now)} :
           user' = [user EXCEPT !.read = None, !.pc = IF alive THEN "unpin" ELSE "check"]
    BY <1>2 DEF ToggleLook
  <2>2. user \in UserState /\ user.dir \in Dir /\ user.acct \in Id
    BY <1>2 DEF ToggleLook, Types, TypeOK, Filled
  <2>3. PICK to \in {"unpin", "check"} : user' = [user EXCEPT !.read = None, !.pc = to]
    BY <2>1
  <2> QED
    BY <2>2, <2>3 DEF UserState
<1>3. CASE Unpin \/ PinManual
  <2>1. user' = UserIdle
    BY <1>3 DEF Unpin, PinManual
  <2> QED
    BY <2>1, UserFields DEF Types
<1>4. CASE PinCheck
  <2>1. user \in UserState /\ user.dir \in Dir /\ user.acct \in Id
    BY <1>4 DEF PinCheck, Types, TypeOK, Filled
  <2>2. life[user.acct] \in Nat
    BY <2>1 DEF Types, TypeOK
  <2>3. CASE user' = [user EXCEPT !.pc = "pin", !.read = None, !.of = life[user.acct]]
    BY <2>1, <2>2, <2>3 DEF UserState
  <2>4. CASE user' = UserIdle
    BY <2>4, UserFields DEF Types
  <2> QED
    BY <1>4, <2>3, <2>4 DEF PinCheck
<1> QED
  BY <1>1, <1>2, <1>3, <1>4 DEF UserStep

(* A pin of the user's is of this moment.                                   *)
LEMMA PinManualPins ==
    ASSUME Types, PinManual
    PROVE  /\ user.dir \in Dir /\ user.acct \in Id
           /\ pin' \in [Dir -> Pin \cup {None}]
           /\ \A e \in Dir : e # user.dir => pin'[e] = pin[e]
           /\ pin'[user.dir] \in Pin /\ pin'[user.dir].acct = user.acct /\ pin'[user.dir].at = now
           /\ pin'[user.dir].of = Meant(user.of, user.acct)
<1> DEFINE st == [acct |-> user.acct, at |-> now, manual |-> TRUE, of |-> Meant(user.of, user.acct)]
<1>1. user.dir \in Dir /\ user.acct \in Id /\ pin \in [Dir -> Pin \cup {None}] /\ now \in Time
  BY DEF PinManual, Types, TypeOK, Filled
<1>2. Meant(user.of, user.acct) \in Nat
  BY <1>1, UserFields, MeantIsNat DEF Types
<1>3. st \in Pin
  BY <1>1, <1>2 DEF Pin
<1>4. pin' = [pin EXCEPT ![user.dir] = st]
  BY DEF PinManual
<1>5. pin'[user.dir] = st
  BY <1>1, <1>4
<1> QED
  BY <1>1, <1>3, <1>4, <1>5

LEMMA UnpinPins ==
    ASSUME Types, Unpin
    PROVE  pin' \in [Dir -> Pin \cup {None}] /\ \A e \in Dir : pin'[e] = pin[e] \/ pin'[e] = None
<1>1. user.dir \in Dir /\ pin \in [Dir -> Pin \cup {None}]
  BY DEF Unpin, Types, TypeOK, Filled
<1> QED
  BY <1>1 DEF Unpin

LEMMA UserStores ==
    ASSUME UserStep
    PROVE  /\ UNCHANGED <<now, accounts, life, row, ended, endOf, proc, poll, removes, selects>>
           /\ UNCHANGED pin \/ Unpin \/ PinManual
BY DEF UserStep, ToggleRead, ToggleLook, Unpin, PinCheck, PinManual, storeVars

LEMMA UserTypes ==
    ASSUME Types, UserStep, lapsed' \subseteq Dir
    PROVE  Types'
<1>1. UNCHANGED <<now, accounts, life, row, ended, endOf, proc, poll, removes, selects>>
  BY UserStores
<1>2. pin' \in [Dir -> Pin \cup {None}]
  BY UserStores, UnpinPins, PinManualPins DEF Types, TypeOK
<1>3. /\ user' \in UserState
      /\ user'.pc # "idle" => user'.dir \in Dir /\ user'.acct \in Id
      /\ user'.pc = "look" => user'.read \in Pin
  BY UserGoes
<1>4. TypeOK'
  BY <1>1, <1>2, <1>3 DEF Types, TypeOK
<1>5. Filled'
  BY <1>1, <1>3 DEF Types, Filled
<1> QED
  BY <1>4, <1>5 DEF Types

LEMMA RemoveTypes ==
    ASSUME Types, NEW i \in Id, Remove(i), lapsed' \subseteq Dir
    PROVE  Types'
<1>1. /\ UNCHANGED <<now, life, proc, poll, user, selects>> /\ removes' = removes + 1
      /\ accounts' = accounts \ {i}
      /\ pin' = PinsWithout(i) /\ row' = RowsWithout(i)
      /\ ended' = [d \in Dir |-> [ended[d] EXCEPT ![i] = Never]]
      /\ endOf' = [d \in Dir |-> [endOf[d] EXCEPT ![i] = 0]]
  BY DEF Remove
<1>2. Never \in Time
  BY NowIsTime DEF Types
<1>3. pin' \in [Dir -> Pin \cup {None}] /\ row' \in [Proc -> Row \cup {None}]
  BY <1>1 DEF Types, TypeOK, PinsWithout, RowsWithout
<1>4. ended' \in [Dir -> [Id -> Time]] /\ endOf' \in [Dir -> [Id -> Nat]]
  BY <1>1, <1>2 DEF Types, TypeOK
<1>5. TypeOK'
  BY <1>1, <1>3, <1>4 DEF Types, TypeOK
<1>6. Filled'
  BY <1>1 DEF Types, Filled
<1> QED
  BY <1>5, <1>6 DEF Types

LEMMA AddTypes ==
    ASSUME Types, NEW i \in Id, Add(i), lapsed' \subseteq Dir
    PROVE  Types'
<1>1. /\ UNCHANGED <<now, pin, row, ended, endOf, proc, poll, user, removes, selects>>
      /\ accounts' = accounts \cup {i} /\ life' = [life EXCEPT ![i] = life[i] + 1]
  BY DEF Add
<1>2. life' \in [Id -> Nat]
  BY <1>1 DEF Types, TypeOK
<1>3. TypeOK'
  BY <1>1, <1>2 DEF Types, TypeOK
<1>4. Filled'
  BY <1>1 DEF Types, Filled
<1> QED
  BY <1>3, <1>4 DEF Types

LEMMA TickTypes ==
    ASSUME Types, Tick, lapsed' \subseteq Dir
    PROVE  Types'
<1>1. now' \in Time
  BY TimeAssumption DEF Tick, Types, TypeOK, Time
<1>2. UNCHANGED <<accounts, life, pin, row, ended, endOf, proc, poll, user, removes, selects>>
  BY DEF Tick, storeVars
<1>3. TypeOK'
  BY <1>1, <1>2 DEF Types, TypeOK
<1>4. Filled'
  BY <1>2 DEF Types, Filled
<1> QED
  BY <1>3, <1>4 DEF Types

LEMMA NextTypes == Types /\ [Next]_vars => Types'
<1> SUFFICES ASSUME Types, [Next]_vars PROVE Types'
  OBVIOUS
<1>1. CASE UNCHANGED vars
  BY <1>1 DEF vars, Types, TypeOK, Filled
<1>2. CASE Next
  <2>1. lapsed' \subseteq Dir
    BY <1>2 DEF Next
  <2>2. \/ \E p \in Proc : SelectStep(p)
        \/ PollStep \/ UserStep
        \/ \E i \in Id : Remove(i) \/ Add(i)
        \/ Tick
    BY <1>2 DEF Next
  <2> QED
    BY <2>1, <2>2, SelectTypes, PollTypes, UserTypes, RemoveTypes, AddTypes, TickTypes
<1> QED
  BY <1>1, <1>2

LEMMA AlwaysTypes == Spec => []Types
BY InitTypes, NextTypes, PTL DEF Spec

(* Every variable has the shape it is declared with.                        *)
THEOREM TypesHold == Spec => []TypeOK
<1>1. Types => TypeOK
  BY DEF Types
<1> QED
  BY <1>1, AlwaysTypes, PTL


-----------------------------------------------------------------------------
(* Nothing is inherited with an index.                                      *)
LEMMA MeantLives ==
    ASSUME NEW known, NEW i, Meant(known, i) # 0 PROVE i \in accounts /\ Meant(known, i) = life[i]
BY DEF Meant

(* Where accounts stay, it is enough that what is new was meant.            *)
LEMMA InheritedKeeps ==
    ASSUME Types, NothingInherited, UNCHANGED <<accounts, life>>,
           \A d \in Dir, i \in Id :
             \/ endOf'[d][i] = endOf[d][i]
             \/ \E p \in Proc : row[p] # None /\ row[p].acct = i /\ endOf'[d][i] = row[p].of,
           \A d \in Dir : pin'[d] # None =>
             \/ pin'[d] = pin[d]
             \/ pin'[d].of # 0 => pin'[d].acct \in accounts /\ pin'[d].of = life[pin'[d].acct],
           \A p \in Proc : row'[p] # None =>
             \/ row[p] # None /\ row'[p].acct = row[p].acct /\ row'[p].of = row[p].of
             \/ row'[p].of # 0 => row'[p].acct \in accounts /\ row'[p].of = life[row'[p].acct]
    PROVE  NothingInherited'
BY DEF NothingInherited

LEMMA SelectInherits ==
    ASSUME Types, NothingInherited, NEW p \in Proc, SelectStep(p)
    PROVE  NothingInherited'
<1>1. UNCHANGED <<accounts, life>>
  BY SelectStores
<1>2. Of(p) # 0 => proc[p].acct \in accounts /\ Of(p) = life[proc[p].acct]
  BY MeantLives DEF Of
<1>3. CASE UNCHANGED <<pin, row, ended, endOf>>
  BY <1>1, <1>3 DEF NothingInherited
<1>4. CASE SelectReap(p) /\ UNCHANGED pin
  <2>1. CloseDeadSessions(proc[p].alive, proc[p].at) /\ proc[p].at \in Time
    BY <1>4 DEF SelectReap, Types, TypeOK, ProcState
  <2>2. \A q \in Proc : row'[q] # None => row[q] # None /\ row'[q].acct = row[q].acct /\ row'[q].of = row[q].of
    BY <2>1, CloseDeadRows DEF Types
  <2>3. \A d \in Dir, i \in Id :
          \/ endOf'[d][i] = endOf[d][i]
          \/ \E q \in Proc : row[q] # None /\ row[q].acct = i /\ endOf'[d][i] = row[q].of
    BY <2>1, CloseDeadEnds DEF Types, Reapable
  <2> QED
    BY <1>1, <1>4, <2>2, <2>3, InheritedKeeps
<1>5. CASE DeleteExpired(p) /\ UNCHANGED <<row, ended, endOf>>
  <2>1. \A d \in Dir : pin'[d] = pin[d] \/ pin'[d] = None
    BY <1>5, DeleteExpiredPins
  <2> QED
    BY <1>1, <1>5, <2>1, InheritedKeeps
<1>6. CASE RecordSticky(p) /\ UNCHANGED <<row, ended, endOf>>
  <2>1. \A d \in Dir : pin'[d] = pin[d] \/ (pin'[d].acct = proc[p].acct /\ pin'[d].of = Of(p))
    BY <1>6, RecordStickyPins
  <2> QED
    BY <1>1, <1>2, <1>6, <2>1, InheritedKeeps
<1>7. CASE OpenSession(p) /\ UNCHANGED <<pin, ended, endOf>>
  <2>1. \A q \in Proc : row'[q] = row[q] \/ (row'[q].acct = proc[p].acct /\ row'[q].of = Of(p))
    BY <1>7, OpenSessionRows
  <2> QED
    BY <1>1, <1>2, <1>7, <2>1, InheritedKeeps
<1>8. CASE Goes(p) /\ UNCHANGED <<pin, ended, endOf>>
  <2>1. \A q \in Proc : row'[q] # None => row[q] # None /\ row'[q].acct = row[q].acct /\ row'[q].of = row[q].of
    BY <1>8, GoesRows DEF Types
  <2> QED
    BY <1>1, <1>8, <2>1, InheritedKeeps
<1>9. CASE SelectTime(p) /\ UNCHANGED <<pin, ended, endOf>>
  <2>1. \A q \in Proc : row'[q] # None => row[q] # None /\ row'[q].acct = row[q].acct /\ row'[q].of = row[q].of
    BY <1>9, FoundRows DEF Types, SelectTime
  <2> QED
    BY <1>1, <1>9, <2>1, InheritedKeeps
<1> QED
  BY <1>3, <1>4, <1>5, <1>6, <1>7, <1>8, <1>9, SelectStores

LEMMA PollInherits ==
    ASSUME Types, NothingInherited, PollStep
    PROVE  NothingInherited'
<1>1. /\ UNCHANGED <<accounts, life>>
      /\ \/ UNCHANGED <<pin, row, endOf>>
         \/ PollReap /\ UNCHANGED pin
         \/ PruneSticky /\ UNCHANGED <<row, endOf>>
         \/ PollTime /\ UNCHANGED <<pin, endOf>>
  BY DEF PollStep, PollScan, PollTime, PollScanFails, PollReap, PruneSticky, storeVars
<1>2. CASE UNCHANGED <<pin, row, endOf>>
  BY <1>1, <1>2 DEF NothingInherited
<1>3. CASE PollReap /\ UNCHANGED pin
  <2>1. CloseDeadSessions(poll.alive, poll.at) /\ poll.at \in Time
    BY <1>3 DEF PollReap, Types, TypeOK, PollState
  <2>2. \A q \in Proc : row'[q] # None => row[q] # None /\ row'[q].acct = row[q].acct /\ row'[q].of = row[q].of
    BY <2>1, CloseDeadRows DEF Types
  <2>3. \A d \in Dir, i \in Id :
          \/ endOf'[d][i] = endOf[d][i]
          \/ \E q \in Proc : row[q] # None /\ row[q].acct = i /\ endOf'[d][i] = row[q].of
    BY <2>1, CloseDeadEnds DEF Types, Reapable
  <2> QED
    BY <1>1, <1>3, <2>2, <2>3, InheritedKeeps
<1>4. CASE PruneSticky /\ UNCHANGED <<row, endOf>>
  <2>1. \A d \in Dir : pin'[d] = pin[d] \/ pin'[d] = None
    BY <1>4 DEF PruneSticky
  <2> QED
    BY <1>1, <1>4, <2>1, InheritedKeeps
<1>5. CASE PollTime /\ UNCHANGED <<pin, endOf>>
  <2>1. \A q \in Proc : row'[q] # None => row[q] # None /\ row'[q].acct = row[q].acct /\ row'[q].of = row[q].of
    BY <1>5, FoundRows DEF Types, PollTime
  <2> QED
    BY <1>1, <1>5, <2>1, InheritedKeeps
<1> QED
  BY <1>1, <1>2, <1>3, <1>4, <1>5

LEMMA UserInherits ==
    ASSUME Types, NothingInherited, UserStep
    PROVE  NothingInherited'
<1>1. UNCHANGED <<accounts, life, row, endOf>> /\ (UNCHANGED pin \/ Unpin \/ PinManual)
  BY UserStores
<1>2. CASE UNCHANGED pin
  BY <1>1, <1>2 DEF NothingInherited
<1>3. CASE Unpin
  BY <1>1, <1>3, UnpinPins, InheritedKeeps
<1>4. CASE PinManual
  <2>1. \A d \in Dir : pin'[d] = pin[d] \/ (pin'[d].acct = user.acct /\ pin'[d].of = Meant(user.of, user.acct))
    BY <1>4, PinManualPins
  <2>2. Meant(user.of, user.acct) # 0 =>
           user.acct \in accounts /\ Meant(user.of, user.acct) = life[user.acct]
    BY MeantLives
  <2> QED
    BY <1>1, <2>1, <2>2, InheritedKeeps
<1> QED
  BY <1>1, <1>2, <1>3, <1>4

LEMMA RemoveInherits ==
    ASSUME Types, NothingInherited, NEW i \in Id, Remove(i)
    PROVE  NothingInherited'
<1>1. /\ accounts' = accounts \ {i} /\ UNCHANGED life /\ pin' = PinsWithout(i) /\ row' = RowsWithout(i)
      /\ endOf' = [d \in Dir |-> [endOf[d] EXCEPT ![i] = 0]]
  BY DEF Remove
<1>2. \A d \in Dir : pin'[d] = None \/ (pin'[d] = pin[d] /\ pin[d].acct # i)
  BY <1>1 DEF PinsWithout
<1>3. \A p \in Proc : row'[p] = None \/ (row'[p] = row[p] /\ row[p].acct # i)
  BY <1>1 DEF RowsWithout
<1>4. \A d \in Dir, j \in Id : endOf'[d][j] = IF j = i THEN 0 ELSE endOf[d][j]
  BY <1>1 DEF Types, TypeOK
<1> QED
  BY <1>1, <1>2, <1>3, <1>4 DEF NothingInherited

LEMMA AddInherits ==
    ASSUME Types, NothingInherited, NEW i \in Id, Add(i)
    PROVE  NothingInherited'
<1>1. /\ i \notin accounts /\ accounts' = accounts \cup {i} /\ UNCHANGED <<pin, row, endOf>>
      /\ life' = [life EXCEPT ![i] = life[i] + 1] /\ accounts \subseteq Id /\ life \in [Id -> Nat]
  BY DEF Add, Types, TypeOK
<1>2. \A j \in accounts : life'[j] = life[j] /\ j \in accounts'
  BY <1>1
<1> QED
  BY <1>1, <1>2 DEF NothingInherited

LEMMA NextInherits == Types /\ NothingInherited /\ [Next]_vars => NothingInherited'
<1> SUFFICES ASSUME Types, NothingInherited, [Next]_vars PROVE NothingInherited'
  OBVIOUS
<1>1. CASE UNCHANGED vars
  BY <1>1 DEF vars, NothingInherited
<1>2. CASE Tick
  BY <1>2 DEF Tick, storeVars, NothingInherited
<1> QED
  BY <1>1, <1>2, SelectInherits, PollInherits, UserInherits, RemoveInherits, AddInherits DEF Next

(* Of what is recorded of an account, none but what a select or a pin still *)
(* under way writes afterwards is left for the next one of its index: no    *)
(* pin, no open session and no end of a session (DeleteAccount).            *)
THEOREM IndexInheritsNothing == Spec => []NothingInherited
<1>1. Init => NothingInherited
  BY DEF Init, NothingInherited
<1> QED
  BY <1>1, AlwaysTypes, NextInherits, PTL DEF Spec


-----------------------------------------------------------------------------
(* Sessions and the processes they stand for.                               *)

(* A select has no row before it has chosen.                                *)
RowAfter == \A p \in Proc : proc[p].pc \in Unopened => row[p] = None

(* Times that were taken are of the past, and a process goes after all that *)
(* its row has to say.                                                      *)
Past ==
    /\ poll.at <= now
    /\ \A p \in Proc : /\ proc[p].at <= now
                       /\ row[p] # None => row[p].started <= now /\ row[p].seen <= now

LeftLast == \A p \in Proc : row[p] # None /\ proc[p].pc = "gone" =>
    row[p].started <= row[p].left /\ row[p].seen <= row[p].left

(* A claude that a scan has not found and that has started before the time  *)
(* was taken for it is slow.                                                *)
MissedOf(p, alive) == row[p] # None /\ proc[p].pc = "claude" /\ p \notin alive => proc[p].slow

Missed(alive) == \A p \in Proc : MissedOf(p, alive)

(* What a scan tells stays true of rows old enough to go by it: a claude it *)
(* has not found is new or slow, and who was found has not gone before.     *)
TellsOf(p, alive, at) == row[p] # None =>
    /\ proc[p].pc = "claude" /\ p \notin alive => TooYoung(row[p], at) \/ proc[p].slow
    /\ proc[p].pc = "gone" /\ p \in alive => at <= row[p].left

Tells(alive, at) == \A p \in Proc : TellsOf(p, alive, at)

ScansTell ==
    /\ \A p \in Proc : proc[p].pc = "sample" => Missed(proc[p].alive)
    /\ poll.pc = "sample" => Missed(poll.alive)
    /\ \A p \in Proc : proc[p].pc = "reap" => Tells(proc[p].alive, proc[p].at)
    /\ poll.pc = "reap" => Tells(poll.alive, poll.at)

Sessions == RowAfter /\ Past /\ LeftLast /\ ScansTell

(* What a row may become: kept, seen again, or left.                        *)
SameRow(p) ==
    /\ row[p] # None /\ row'[p].acct = row[p].acct /\ row'[p].dir = row[p].dir
    /\ row'[p].started = row[p].started /\ row'[p].left \in {row[p].left, now}

SeenRow(p, alive, at) == SameRow(p) /\ (row'[p].seen = row[p].seen \/ (row'[p].seen = at /\ p \in alive))

LeftRow(p) ==
    /\ row[p] # None /\ proc'[p].pc = "gone" /\ row'[p].left = now
    /\ row'[p].started = row[p].started /\ row'[p].seen = row[p].seen

NewRow(p) ==
    /\ proc'[p].pc \in {"record", "ccp"}
    /\ row'[p].started \in {now, proc[p].at} /\ row'[p].seen = Never

LEMMA SelectRows ==
    ASSUME Types, NEW p \in Proc, SelectStep(p), NEW q \in Proc, row'[q] # None
    PROVE  \/ SameRow(q) /\ row'[q].seen = row[q].seen
           \/ proc[p].pc = "reap" /\ SeenRow(q, proc[p].alive, proc[p].at)
           \/ q = p /\ LeftRow(p)
           \/ q = p /\ NewRow(p)
<1>1. CASE UNCHANGED <<pin, row, ended, endOf>>
  BY <1>1 DEF SameRow
<1>2. CASE SelectReap(p)
  <2>1. /\ CloseDeadSessions(proc[p].alive, proc[p].at) /\ proc[p].at \in Time
        /\ proc[p].pc = "reap"
    BY <1>2 DEF SelectReap, Types, TypeOK, ProcState
  <2>2. SeenRow(q, proc[p].alive, proc[p].at)
    BY <2>1, CloseDeadRows DEF Types, SeenRow, SameRow
  <2> QED
    BY <2>1, <2>2
<1>3. CASE DeleteExpired(p) /\ UNCHANGED <<row, ended, endOf>>
  BY <1>3 DEF SameRow
<1>4. CASE RecordSticky(p) /\ UNCHANGED <<row, ended, endOf>>
  BY <1>4 DEF SameRow
<1>5. CASE OpenSession(p)
  <2>1. CASE q = p
    <3>1. proc[p] \in ProcState /\ proc \in [Proc -> ProcState]
      BY DEF Types, TypeOK
    <3>2. Launching(p).pc = "ccp" /\ At(p, "record").pc = "record"
      BY <3>1, LaunchingFits, AtFields DEF Types, SelectPc
    <3>3. proc'[p].pc \in {"record", "ccp"}
      BY <1>5, <3>1, <3>2 DEF OpenSession, Step
    <3> QED
      BY <1>5, <2>1, <3>3, OpenSessionRows DEF NewRow
  <2>2. CASE q # p
    BY <1>5, <2>2, OpenSessionRows DEF SameRow
  <2> QED
    BY <2>1, <2>2
<1>7. CASE SelectTime(p)
  BY <1>7, FoundRows DEF SelectTime, SameRow, Types
<1>6. CASE Goes(p)
  <2>1. CASE q = p
    <3>1. proc'[p].pc = "gone"
      BY <1>6, GoneFits DEF Goes, Step, Types, TypeOK
    <3> QED
      BY <1>6, <2>1, <3>1, GoesRows DEF Types, LeftRow
  <2>2. CASE q # p
    BY <1>6, <2>2, GoesRows DEF Types, SameRow
  <2> QED
    BY <2>1, <2>2
<1> QED
  BY <1>1, <1>2, <1>3, <1>4, <1>5, <1>6, <1>7, SelectStores


LEMMA TimesAreNat ==
    ASSUME Types
    PROVE  /\ now \in Nat /\ poll.at \in Nat /\ Never = 0
           /\ \A p \in Proc : proc[p].at \in Nat
           /\ \A p \in Proc : row[p] # None =>
                row[p].started \in Nat /\ row[p].seen \in Nat /\ row[p].left \in Nat
<1>1. Time \subseteq Nat
  BY DEF Time
<1>2. now \in Time /\ poll.at \in Time /\ \A p \in Proc : proc[p].at \in Time
  BY DEF Types, TypeOK, PollState, ProcState
<1> QED
  BY <1>1, <1>2, RowFields DEF Types, Never

LEMMA SelectPast ==
    ASSUME Types, Types', Sessions, NEW p \in Proc, SelectStep(p)
    PROVE  Past'
<1>1. PICK v \in ProcState : Moves(p, v)
  BY SelectStepMoves
<1>2. proc'[p] = v /\ \A q \in Proc : q # p => proc'[q] = proc[q]
  BY <1>1, StepFits DEF Moves
<1>3. UNCHANGED <<now, poll>>
  BY SelectStores
<1>4. now \in Nat /\ Never = 0
  BY TimesAreNat
<1>5. ASSUME NEW q \in Proc PROVE proc'[q].at <= now
  BY <1>1, <1>2, <1>4 DEF Moves, Sessions, Past
<1>6. ASSUME NEW q \in Proc, row'[q] # None PROVE row'[q].started <= now /\ row'[q].seen <= now
  <2>1. CASE SameRow(q) /\ row'[q].seen = row[q].seen
    BY <2>1 DEF SameRow, Sessions, Past
  <2>2. CASE proc[p].pc = "reap" /\ SeenRow(q, proc[p].alive, proc[p].at)
    BY <2>2 DEF SeenRow, SameRow, Sessions, Past
  <2>3. CASE q = p /\ LeftRow(p)
    BY <2>3 DEF LeftRow, Sessions, Past
  <2>4. CASE q = p /\ NewRow(p)
    BY <2>4, <1>4 DEF NewRow, Sessions, Past
  <2> QED
    BY <1>6, <2>1, <2>2, <2>3, <2>4, SelectRows
<1> QED
  BY <1>3, <1>5, <1>6 DEF Past, Sessions

LEMMA SelectRowAfter ==
    ASSUME Types, Types', Sessions, NEW p \in Proc, SelectStep(p)
    PROVE  RowAfter'
<1>1. PICK v \in ProcState : Moves(p, v)
  BY SelectStepMoves
<1>2. proc'[p] = v /\ \A q \in Proc : q # p => proc'[q] = proc[q]
  BY <1>1, StepFits DEF Moves
<1> SUFFICES ASSUME NEW q \in Proc, proc'[q].pc \in Unopened, row'[q] # None PROVE FALSE
  BY DEF RowAfter
<1>3. row[q] # None
  BY SelectRows DEF SeenRow, SameRow, LeftRow, NewRow, Unopened
<1>4. CASE q # p
  BY <1>2, <1>3, <1>4 DEF Sessions, RowAfter
<1>5. CASE q = p
  <2>1. v.pc \in Unopened
    BY <1>2, <1>5
  <2>2. ~Goes(p)
    BY <1>2, <2>1, GoneFits DEF Goes, Step, Types, TypeOK, Unopened
  <2> QED
    BY <1>1, <1>3, <1>5, <2>1, <2>2 DEF Moves, Sessions, RowAfter
<1> QED
  BY <1>4, <1>5

(* Who is gone after the step had gone before, or goes with it.             *)
LEMMA SelectGone ==
    ASSUME Types, Types', Sessions, NEW p \in Proc, SelectStep(p),
           NEW q \in Proc, row'[q] # None, proc'[q].pc = "gone"
    PROVE  \/ q # p /\ proc[q].pc = "gone" /\ row[q] # None
           \/ q = p /\ LeftRow(p)
<1>1. PICK v \in ProcState : Moves(p, v)
  BY SelectStepMoves
<1>2. proc'[p] = v /\ \A r \in Proc : r # p => proc'[r] = proc[r]
  BY <1>1, StepFits DEF Moves
<1>3. row[q] # None
  BY SelectRows DEF SeenRow, SameRow, LeftRow, NewRow
<1>4. CASE q # p
  BY <1>2, <1>3, <1>4
<1>5. CASE q = p
  <2>1. Goes(p)
    BY <1>1, <1>2, <1>3, <1>5 DEF Moves, Sessions, RowAfter
  <2> QED
    BY <1>3, <1>5, <2>1, GoesRows DEF LeftRow, Types
<1> QED
  BY <1>4, <1>5

LEMMA SelectLeftLast ==
    ASSUME Types, Types', Sessions, NEW p \in Proc, SelectStep(p)
    PROVE  LeftLast'
<1> SUFFICES ASSUME NEW q \in Proc, row'[q] # None, proc'[q].pc = "gone"
             PROVE  row'[q].started <= row'[q].left /\ row'[q].seen <= row'[q].left
  BY DEF LeftLast
<1>1. CASE q = p /\ LeftRow(p)
  BY <1>1 DEF LeftRow, Sessions, Past
<1>2. CASE q # p /\ proc[q].pc = "gone" /\ row[q] # None
  <2>1. CASE SameRow(q) /\ row'[q].seen = row[q].seen
    BY <1>2, <2>1 DEF SameRow, Sessions, LeftLast, Past
  <2>2. CASE proc[p].pc = "reap" /\ SeenRow(q, proc[p].alive, proc[p].at)
    <3>1. TellsOf(q, proc[p].alive, proc[p].at)
      BY <2>2 DEF Sessions, ScansTell, Tells
    <3> QED
      BY <1>2, <2>2, <3>1 DEF TellsOf, SeenRow, SameRow, Sessions, LeftLast, Past
  <2> QED
    BY <1>2, <2>1, <2>2, SelectRows
<1> QED
  BY <1>1, <1>2, SelectGone

LEMMA SelectTells ==
    ASSUME Types, Types', Sessions, NEW p \in Proc, SelectStep(p),
           NEW alive, NEW at \in Nat, at <= now, Tells(alive, at)
    PROVE  Tells(alive, at)'
<1>1. PICK v \in ProcState : Moves(p, v)
  BY SelectStepMoves
<1>2. proc'[p] = v /\ \A r \in Proc : r # p => proc'[r] = proc[r]
  BY <1>1, StepFits DEF Moves
<1> SUFFICES ASSUME NEW q \in Proc, row'[q] # None
             PROVE  /\ proc'[q].pc = "claude" /\ q \notin alive => TooYoung(row'[q], at) \/ proc'[q].slow
                    /\ proc'[q].pc = "gone" /\ q \in alive => at <= row'[q].left
  BY DEF Tells, TellsOf, TooYoung
<1>3. Grace \in Nat /\ now \in Nat
  BY TimeAssumption, TimesAreNat
<1>4. ASSUME proc'[q].pc = "claude", q \notin alive
      PROVE  TooYoung(row'[q], at) \/ proc'[q].slow
  <2>1. SameRow(q)
    BY <1>4, SelectRows DEF SeenRow, LeftRow, NewRow
  <2>2. row[q].started \in Nat
    BY <2>1, TimesAreNat DEF SameRow
  <2>3. CASE q # p
    BY <1>2, <1>4, <2>1, <2>3 DEF Tells, TellsOf, TooYoung, SameRow
  <2>4. CASE q = p
    <3>1. v.slow = (row[p] # None /\ (~TooYoung(row[p], now) \/ Waiting)) /\ row[p] # None
      BY <1>1, <1>2, <1>4, <2>1, <2>4 DEF Moves, SameRow
    <3>2. CASE TooYoung(row[p], now)
      BY <1>3, <2>1, <2>2, <2>4, <3>2 DEF TooYoung, SameRow
    <3>3. CASE ~TooYoung(row[p], now)
      BY <1>2, <2>4, <3>1, <3>3, Zenon
    <3> QED
      BY <3>2, <3>3
  <2> QED
    BY <2>3, <2>4
<1>5. ASSUME proc'[q].pc = "gone", q \in alive
      PROVE  at <= row'[q].left
  <2>1. CASE q = p /\ LeftRow(p)
    BY <2>1 DEF LeftRow
  <2>2. CASE q # p /\ proc[q].pc = "gone" /\ row[q] # None
    <3>1. SameRow(q)
      BY <2>2, SelectRows DEF SeenRow
    <3> QED
      BY <1>5, <2>2, <3>1 DEF Tells, TellsOf, SameRow
  <2> QED
    BY <1>5, <2>1, <2>2, SelectGone
<1> QED
  BY <1>4, <1>5

(* Who starts while a scan waits for its time is slow.                      *)
LEMMA SelectMisses ==
    ASSUME Types, Types', Sessions, NEW p \in Proc, SelectStep(p), Waiting, NEW alive, Missed(alive),
           NEW q \in Proc, row'[q] # None, proc'[q].pc = "claude", q \notin alive
    PROVE  proc'[q].slow
<1>1. PICK v \in ProcState : Moves(p, v)
  BY SelectStepMoves
<1>2. proc'[p] = v /\ \A r \in Proc : r # p => proc'[r] = proc[r]
  BY <1>1, StepFits DEF Moves
<1>3. row[q] # None
  BY SelectRows DEF SeenRow, SameRow, LeftRow, NewRow
<1>4. CASE q # p
  BY <1>2, <1>3, <1>4 DEF Missed, MissedOf
<1>5. CASE q = p
  <2>1. v.slow = (row[p] # None /\ (~TooYoung(row[p], now) \/ Waiting)) /\ row[p] # None
    BY <1>1, <1>2, <1>3, <1>5 DEF Moves
  <2> QED
    BY <1>2, <1>5, <2>1, Zenon
<1> QED
  BY <1>4, <1>5

(* The time for a scan: who has not been found is slow, and who was found   *)
(* has not gone before.                                                     *)
LEMMA TimedTells ==
    ASSUME Types, Sessions, NEW alive, Missed(alive), FoundAt(alive), NEW q \in Proc, row'[q] # None
    PROVE  /\ proc[q].pc = "claude" /\ q \notin alive => proc[q].slow
           /\ proc[q].pc = "gone" /\ q \in alive => row'[q].left = now
BY FoundRows DEF Types, Missed, MissedOf

LEMMA SelectScansTell ==
    ASSUME Types, Types', Sessions, NEW p \in Proc, SelectStep(p)
    PROVE  ScansTell'
<1>1. PICK v \in ProcState : Moves(p, v)
  BY SelectStepMoves
<1>2. proc'[p] = v /\ \A r \in Proc : r # p => proc'[r] = proc[r]
  BY <1>1, StepFits DEF Moves
<1>3. UNCHANGED <<poll, now>> /\ now \in Nat
  BY SelectStores, TimesAreNat
<1>4. ASSUME NEW alive, NEW at \in Nat, at <= now, Tells(alive, at), NEW q \in Proc, row'[q] # None
      PROVE  /\ proc'[q].pc = "claude" /\ q \notin alive => TooYoung(row'[q], at) \/ proc'[q].slow
             /\ proc'[q].pc = "gone" /\ q \in alive => at <= row'[q].left
  BY <1>4, SelectTells DEF Tells, TellsOf, TooYoung
<1>5. (poll.pc = "reap" => Tells(poll.alive, poll.at))'
  <2> SUFFICES ASSUME poll.pc = "reap", NEW q \in Proc, row'[q] # None
               PROVE  /\ proc'[q].pc = "claude" /\ q \notin poll.alive => TooYoung(row'[q], poll.at) \/ proc'[q].slow
                      /\ proc'[q].pc = "gone" /\ q \in poll.alive => poll.at <= row'[q].left
    BY <1>3 DEF Tells, TellsOf, TooYoung
  <2>1. poll.at \in Nat /\ poll.at <= now /\ Tells(poll.alive, poll.at)
    BY TimesAreNat DEF Sessions, Past, ScansTell
  <2> QED
    BY <1>4, <2>1
<1>6. ASSUME NEW q \in Proc PROVE (proc[q].pc = "reap" => Tells(proc[q].alive, proc[q].at))'
  <2>1. CASE q # p
    <3> SUFFICES ASSUME proc[q].pc = "reap", NEW r \in Proc, row'[r] # None
                 PROVE  /\ proc'[r].pc = "claude" /\ r \notin proc[q].alive =>
                             TooYoung(row'[r], proc[q].at) \/ proc'[r].slow
                        /\ proc'[r].pc = "gone" /\ r \in proc[q].alive => proc[q].at <= row'[r].left
      BY <1>2, <2>1 DEF Tells, TellsOf, TooYoung
    <3>1. proc[q].at \in Nat /\ proc[q].at <= now /\ Tells(proc[q].alive, proc[q].at)
      BY TimesAreNat DEF Sessions, Past, ScansTell
    <3> QED
      BY <1>4, <3>1
  <2>2. CASE q = p
    <3> SUFFICES ASSUME v.pc = "reap", NEW r \in Proc, row'[r] # None
                 PROVE  /\ proc'[r].pc = "claude" /\ r \notin v.alive => proc'[r].slow
                        /\ proc'[r].pc = "gone" /\ r \in v.alive => v.at <= row'[r].left
      BY <1>2, <2>2 DEF Tells, TellsOf
    <3>1. proc[p].pc = "sample" /\ v.alive = proc[p].alive /\ v.at = now /\ FoundAt(v.alive)
      BY <1>1 DEF Moves
    <3>2. Missed(v.alive)
      BY <3>1 DEF Sessions, ScansTell
    <3>3. proc'[r].pc \in {"claude", "gone"} => proc'[r] = proc[r]
      BY <1>2
    <3>4. /\ proc[r].pc = "claude" /\ r \notin v.alive => proc[r].slow
          /\ proc[r].pc = "gone" /\ r \in v.alive => row'[r].left = now
      BY <3>1, <3>2, TimedTells
    <3> QED
      BY <1>3, <3>1, <3>3, <3>4
  <2> QED
    BY <2>1, <2>2
<1>7. (poll.pc = "sample" => Missed(poll.alive))'
  <2> SUFFICES ASSUME poll.pc = "sample", NEW q \in Proc, row'[q] # None, proc'[q].pc = "claude",
                      q \notin poll.alive
               PROVE  proc'[q].slow
    BY <1>3 DEF Missed, MissedOf
  <2>1. Missed(poll.alive) /\ Waiting
    BY DEF Sessions, ScansTell, Waiting
  <2> QED
    BY <2>1, SelectMisses
<1>8. ASSUME NEW q \in Proc PROVE (proc[q].pc = "sample" => Missed(proc[q].alive))'
  <2>1. CASE q # p
    <3> SUFFICES ASSUME proc[q].pc = "sample", NEW r \in Proc, row'[r] # None, proc'[r].pc = "claude",
                        r \notin proc[q].alive
                 PROVE  proc'[r].slow
      BY <1>2, <2>1 DEF Missed, MissedOf
    <3>1. Missed(proc[q].alive) /\ Waiting
      BY DEF Sessions, ScansTell, Waiting
    <3> QED
      BY <3>1, SelectMisses
  <2>2. CASE q = p
    <3> SUFFICES ASSUME v.pc = "sample", NEW r \in Proc, proc'[r].pc = "claude", r \notin v.alive
                 PROVE  FALSE
      BY <1>2, <2>2 DEF Missed, MissedOf
    <3>1. v.alive = Claudes
      BY <1>1 DEF Moves
    <3>2. proc[r].pc = "claude"
      BY <1>2
    <3> QED
      BY <3>1, <3>2 DEF Claudes
  <2> QED
    BY <2>1, <2>2
<1> QED
  BY <1>5, <1>6, <1>7, <1>8 DEF ScansTell


(* The steps that leave the processes alone.                                *)
LEMMA OthersKeepSessions ==
    ASSUME Types, Types', Sessions, UNCHANGED proc, now <= now',
           \A q \in Proc : row'[q] # None =>
              \/ SameRow(q) /\ row'[q].seen = row[q].seen
              \/ poll.pc = "reap" /\ SeenRow(q, poll.alive, poll.at),
           \/ UNCHANGED poll
           \/ poll'.pc \notin {"sample", "reap"} /\ poll'.at = Never
           \/ poll'.pc = "sample" /\ poll'.alive = Claudes /\ poll'.at = Never
           \/ /\ poll'.pc = "reap" /\ poll.pc = "sample" /\ poll'.alive = poll.alive /\ poll'.at = now
              /\ FoundAt(poll.alive)
    PROVE  Sessions'
<1>1. now \in Nat /\ now' \in Nat /\ Never = 0
  <2>1. \A t \in Time : t \in Nat
    BY DEF Time
  <2> QED
    BY <2>1 DEF Types, TypeOK, Never
<1>2. \A q \in Proc : row'[q] # None => SameRow(q)
  BY DEF SeenRow
<1>3. RowAfter'
  BY <1>2 DEF Sessions, RowAfter, SameRow
<1>4. Past'
  <2>1. poll'.at <= now'
    BY <1>1, TimesAreNat DEF Sessions, Past
  <2>2. ASSUME NEW q \in Proc PROVE proc'[q].at <= now'
    BY <1>1, TimesAreNat DEF Sessions, Past
  <2>3. ASSUME NEW q \in Proc, row'[q] # None PROVE row'[q].started <= now' /\ row'[q].seen <= now'
    <3>1. row'[q].started = row[q].started /\ row[q] # None /\ row'[q].seen \in {row[q].seen, poll.at}
      BY <2>3 DEF SeenRow, SameRow
    <3>2. row[q].started <= now /\ row[q].seen <= now /\ poll.at <= now
      BY <3>1 DEF Sessions, Past
    <3>3. row[q].started \in Nat /\ row[q].seen \in Nat /\ poll.at \in Nat
      BY <3>1, TimesAreNat
    <3> QED
      BY <1>1, <3>1, <3>2, <3>3
  <2> QED
    BY <2>1, <2>2, <2>3 DEF Past
<1>5. LeftLast'
  <2> SUFFICES ASSUME NEW q \in Proc, row'[q] # None, proc[q].pc = "gone"
               PROVE  row'[q].started <= row'[q].left /\ row'[q].seen <= row'[q].left
    BY DEF LeftLast
  <2>1. CASE SameRow(q) /\ row'[q].seen = row[q].seen
    BY <2>1 DEF SameRow, Sessions, LeftLast, Past
  <2>2. CASE poll.pc = "reap" /\ SeenRow(q, poll.alive, poll.at)
    <3>1. TellsOf(q, poll.alive, poll.at)
      BY <2>2 DEF Sessions, ScansTell, Tells
    <3> QED
      BY <2>2, <3>1 DEF TellsOf, SeenRow, SameRow, Sessions, LeftLast, Past
  <2> QED
    BY <2>1, <2>2
<1>6. ASSUME NEW alive, NEW at, at <= now, Tells(alive, at), NEW q \in Proc, row'[q] # None
      PROVE  /\ proc[q].pc = "claude" /\ q \notin alive => TooYoung(row'[q], at) \/ proc[q].slow
             /\ proc[q].pc = "gone" /\ q \in alive => at <= row'[q].left
  BY <1>2, <1>6 DEF Tells, TellsOf, SameRow, TooYoung
<1>7. ASSUME NEW p \in Proc PROVE (proc[p].pc = "reap" => Tells(proc[p].alive, proc[p].at))'
  <2> SUFFICES ASSUME proc[p].pc = "reap" PROVE Tells(proc[p].alive, proc[p].at)'
    OBVIOUS
  <2>1. Tells(proc[p].alive, proc[p].at) /\ proc[p].at <= now
    BY DEF Sessions, ScansTell, Past
  <2> QED
    BY <1>6, <2>1 DEF Tells, TellsOf, TooYoung
<1>8. (poll.pc = "reap" => Tells(poll.alive, poll.at))'
  <2> SUFFICES ASSUME poll'.pc = "reap" PROVE Tells(poll.alive, poll.at)'
    OBVIOUS
  <2>1. CASE UNCHANGED poll
    <3>1. Tells(poll.alive, poll.at) /\ poll.at <= now
      BY <2>1 DEF Sessions, ScansTell, Past
    <3> QED
      BY <1>6, <2>1, <3>1 DEF Tells, TellsOf, TooYoung
  <2>2. CASE poll.pc = "sample" /\ poll'.alive = poll.alive /\ poll'.at = now /\ FoundAt(poll.alive)
    <3>1. Missed(poll.alive)
      BY <2>2 DEF Sessions, ScansTell
    <3>2. ASSUME NEW q \in Proc, row'[q] # None
          PROVE  /\ proc[q].pc = "claude" /\ q \notin poll.alive => proc[q].slow
                 /\ proc[q].pc = "gone" /\ q \in poll.alive => row'[q].left = now
      BY <2>2, <3>1, <3>2, TimedTells
    <3> QED
      BY <1>1, <2>2, <3>2 DEF Tells, TellsOf
  <2> QED
    BY <2>1, <2>2
<1>9. ASSUME NEW alive, Missed(alive) PROVE Missed(alive)'
  BY <1>2, <1>9 DEF Missed, MissedOf, SameRow
<1>10. ASSUME NEW p \in Proc PROVE (proc[p].pc = "sample" => Missed(proc[p].alive))'
  <2>1. proc[p].pc = "sample" => Missed(proc[p].alive)
    BY DEF Sessions, ScansTell
  <2> QED
    BY <1>9, <2>1 DEF Missed, MissedOf
<1>11. (poll.pc = "sample" => Missed(poll.alive))'
  <2> SUFFICES ASSUME poll'.pc = "sample" PROVE Missed(poll.alive)'
    OBVIOUS
  <2>1. CASE UNCHANGED poll
    <3>1. Missed(poll.alive)
      BY <2>1 DEF Sessions, ScansTell
    <3> QED
      BY <1>9, <2>1, <3>1 DEF Missed, MissedOf
  <2>2. CASE poll'.alive = Claudes
    BY <2>2 DEF Missed, MissedOf, Claudes
  <2> QED
    BY <2>1, <2>2
<1> QED
  BY <1>3, <1>4, <1>5, <1>7, <1>8, <1>10, <1>11 DEF Sessions, ScansTell

LEMMA InitSessions == Init => Sessions
<1> SUFFICES ASSUME Init PROVE Sessions
  OBVIOUS
<1>1. \A p \in Proc : row[p] = None /\ proc[p] = Gone
  BY DEF Init
<1>2. now = 1 /\ poll = PollIdle
  BY DEF Init
<1> QED
  BY <1>1, <1>2, GoneFits DEF Sessions, RowAfter, Past, LeftLast, ScansTell, PollIdle, Never

LEMMA PollSessions ==
    ASSUME Types, Types', Sessions, PollStep
    PROVE  Sessions'
<1>1. UNCHANGED <<now, proc>> /\ now \in Nat
  BY TimesAreNat DEF PollStep, PollScan, PollTime, PollScanFails, PollReap, PruneSticky, storeVars
<1>2. PollIdle.at = Never /\ PollIdle.pc = "idle"
  BY DEF PollIdle
<1>3. /\ [PollIdle EXCEPT !.pc = "prune"].pc = "prune"
      /\ [PollIdle EXCEPT !.pc = "prune"].at = Never
  BY DEF PollIdle
<1>4. CASE PollScan
  <2>1. poll'.pc = "sample" /\ poll'.alive = Claudes /\ poll'.at = Never
    BY <1>4 DEF PollScan, PollIdle
  <2> QED
    BY <1>1, <1>4, <2>1, OthersKeepSessions DEF PollScan, SameRow, storeVars
<1>5. CASE PollScanFails
  BY <1>1, <1>3, <1>5, OthersKeepSessions DEF PollScanFails, SameRow, storeVars
<1>6. CASE PollReap
  <2>1. CloseDeadSessions(poll.alive, poll.at) /\ poll.at \in Time /\ poll.pc = "reap"
    BY <1>6 DEF PollReap, Types, TypeOK, PollState
  <2>2. \A q \in Proc : row'[q] # None => SeenRow(q, poll.alive, poll.at)
    BY <2>1, CloseDeadRows DEF Types, SeenRow, SameRow
  <2> QED
    BY <1>1, <1>3, <1>6, <2>1, <2>2, OthersKeepSessions DEF PollReap
<1>7. CASE PruneSticky
  BY <1>1, <1>2, <1>7, OthersKeepSessions DEF PruneSticky, SameRow
<1>8. CASE PollTime
  <2>1. /\ poll.pc = "sample" /\ FoundAt(poll.alive)
        /\ poll'.pc = "reap" /\ poll'.alive = poll.alive /\ poll'.at = now
    BY <1>8 DEF PollTime, Types, TypeOK, PollState
  <2>2. \A q \in Proc : row'[q] # None => SameRow(q) /\ row'[q].seen = row[q].seen
    BY <2>1, FoundRows DEF Types, SameRow
  <2> QED
    BY <1>1, <2>1, <2>2, OthersKeepSessions
<1> QED
  BY <1>4, <1>5, <1>6, <1>7, <1>8 DEF PollStep

LEMMA NextSessions == Types /\ Types' /\ Sessions /\ [Next]_vars => Sessions'
<1> SUFFICES ASSUME Types, Types', Sessions, [Next]_vars PROVE Sessions'
  OBVIOUS
<1>1. now \in Nat
  BY TimesAreNat
<1>2. CASE UNCHANGED vars
  BY <1>1, <1>2, OthersKeepSessions DEF vars, SameRow
<1>3. ASSUME NEW p \in Proc, SelectStep(p) PROVE Sessions'
  BY <1>3, SelectPast, SelectRowAfter, SelectLeftLast, SelectScansTell DEF Sessions
<1>4. CASE UserStep
  BY <1>1, <1>4, UserStores, OthersKeepSessions DEF SameRow
<1>5. ASSUME NEW i \in Id, Remove(i) PROVE Sessions'
  <2>1. \A q \in Proc : row'[q] # None => row'[q] = row[q]
    BY <1>5 DEF Remove, RowsWithout
  <2> QED
    BY <1>1, <1>5, <2>1, OthersKeepSessions DEF Remove, SameRow
<1>6. ASSUME NEW i \in Id, Add(i) PROVE Sessions'
  BY <1>1, <1>6, OthersKeepSessions DEF Add, SameRow
<1>7. CASE Tick
  BY <1>1, <1>7, OthersKeepSessions DEF Tick, SameRow, storeVars
<1> QED
  BY <1>2, <1>3, <1>4, <1>5, <1>6, <1>7, PollSessions DEF Next

LEMMA AlwaysSessions == Spec => []Sessions
BY InitSessions, NextSessions, AlwaysTypes, PTL DEF Spec


-----------------------------------------------------------------------------
(* Sessions are closed when they have ended.                                *)
LEMMA ClosesTruly ==
    ASSUME Types, Sessions, NEW alive, NEW at \in Time, at <= now, Tells(alive, at),
           CloseDeadSessions(alive, at), UNCHANGED accounts
    PROVE  Reaped
<1>1. now \in Nat /\ at \in Nat /\ Grace \in Nat /\ accounts \subseteq Id
  BY TimesAreNat, TimeAssumption DEF Time, Types, TypeOK
<1>2. ASSUME NEW p \in Proc, Reapable(p, alive, at)
      PROVE  /\ Closed(p) /\ Over(p)
             /\ proc[p].pc = "gone" => EndOf(row[p], at) <= row[p].left
  <2>1. row[p] # None /\ row'[p] = None /\ p \notin alive /\ ~TooYoung(row[p], at)
    BY <1>2, CloseDeadRows DEF Types, Reapable
  <2>2. row[p].started \in Nat /\ TellsOf(p, alive, at)
    BY <2>1, TimesAreNat DEF Tells
  <2>3. ~TooYoung(row[p], now)
    BY <1>1, <2>1, <2>2 DEF TooYoung
  <2>4. Over(p)
    BY <2>1, <2>2, <2>3 DEF Over, TellsOf
  <2>5. proc[p].pc = "gone" => EndOf(row[p], at) <= row[p].left
    BY <2>1, EndOfIsTime DEF Types, Sessions, LeftLast
  <2> QED
    BY <2>1, <2>4, <2>5 DEF Closed
<1>3. ASSUME NEW p \in Proc, Closed(p) PROVE Over(p)
  BY <1>2, <1>3, CloseDeadRows DEF Closed, Types
<1>4. ASSUME NEW d \in Dir, NEW i \in Id
      PROVE  \/ ended'[d][i] = ended[d][i]
             \/ ended'[d][i] > ended[d][i] /\ \E p \in Proc : EndsWith(d, i, p)
  <2>1. ended[d][i] <= ended'[d][i] /\ ended[d][i] \in Time /\ ended'[d][i] \in Time
    BY CloseDeadEnds DEF Types, TypeOK
  <2>2. ended[d][i] \in Nat /\ ended'[d][i] \in Nat
    BY <2>1 DEF Time
  <2>3. \/ ended'[d][i] = ended[d][i]
        \/ \E p \in Proc : /\ Reapable(p, alive, at) /\ row[p].dir = d /\ row[p].acct = i
                           /\ ended'[d][i] = EndOf(row[p], at)
    BY CloseDeadEnds DEF Types
  <2>4. ended'[d][i] = ended[d][i] \/ \E p \in Proc : EndsWith(d, i, p)
    BY <1>2, <2>3 DEF EndsWith
  <2> QED
    BY <2>1, <2>2, <2>4
<1> QED
  BY <1>1, <1>3, <1>4 DEF Reaped

LEMMA NothingCloses ==
    ASSUME Types, UNCHANGED <<accounts, ended>>, \A p \in Proc : row[p] # None => row'[p] # None
    PROVE  Reaped
BY DEF Reaped, Closed, Types, TypeOK

LEMMA SelectReaps ==
    ASSUME Types, Sessions, NEW p \in Proc, SelectStep(p)
    PROVE  Reaped
<1>1. UNCHANGED accounts
  BY SelectStores
<1>2. CASE UNCHANGED <<row, ended>>
  BY <1>1, <1>2, NothingCloses
<1>3. CASE SelectReap(p)
  <2>1. /\ CloseDeadSessions(proc[p].alive, proc[p].at) /\ proc[p].at \in Time
        /\ proc[p].pc = "reap"
    BY <1>3 DEF SelectReap, Types, TypeOK, ProcState
  <2>2. Tells(proc[p].alive, proc[p].at) /\ proc[p].at <= now
    BY <2>1 DEF Sessions, ScansTell, Past
  <2> QED
    BY <1>1, <2>1, <2>2, ClosesTruly
<1>4. CASE OpenSession(p) /\ UNCHANGED ended
  BY <1>1, <1>4, OpenSessionRows, NothingCloses
<1>5. CASE Goes(p) /\ UNCHANGED ended
  BY <1>1, <1>5, GoesRows, NothingCloses DEF Types
<1>6. CASE SelectTime(p) /\ UNCHANGED ended
  BY <1>1, <1>6, FoundRows, NothingCloses DEF Types, SelectTime
<1> QED
  BY <1>2, <1>3, <1>4, <1>5, <1>6, SelectStores

LEMMA NextReaps == Types /\ Sessions /\ [Next]_vars => [Reaped]_vars
<1> SUFFICES ASSUME Types, Sessions, Next PROVE Reaped
  OBVIOUS
<1>1. ASSUME NEW p \in Proc, SelectStep(p) PROVE Reaped
  BY <1>1, SelectReaps
<1>2. CASE PollReap
  <2>1. CloseDeadSessions(poll.alive, poll.at) /\ poll.at \in Time /\ poll.pc = "reap"
    BY <1>2 DEF PollReap, Types, TypeOK, PollState
  <2>2. Tells(poll.alive, poll.at) /\ poll.at <= now
    BY <2>1 DEF Sessions, ScansTell, Past
  <2> QED
    BY <1>2, <2>1, <2>2, ClosesTruly DEF PollReap
<1>3. CASE PollScan \/ PollScanFails \/ PruneSticky
  BY <1>3, NothingCloses DEF PollScan, PollScanFails, PruneSticky, storeVars
<1>8. CASE PollTime
  BY <1>8, FoundRows, NothingCloses DEF PollTime, Types
<1>4. CASE UserStep
  BY <1>4, UserStores, NothingCloses
<1>5. ASSUME NEW i \in Id, Remove(i) PROVE Reaped
  <2>1. /\ accounts' = accounts \ {i} /\ row' = RowsWithout(i)
        /\ ended' = [d \in Dir |-> [ended[d] EXCEPT ![i] = Never]]
    BY <1>5 DEF Remove
  <2>2. \A p \in Proc : Closed(p) => row[p].acct = i
    BY <2>1 DEF Closed, RowsWithout
  <2>3. \A d \in Dir, j \in Id : j # i => ended'[d][j] = ended[d][j]
    BY <2>1 DEF Types, TypeOK
  <2> QED
    BY <2>1, <2>2, <2>3 DEF Reaped, Types, TypeOK
<1>6. ASSUME NEW i \in Id, Add(i) PROVE Reaped
  BY <1>6 DEF Add, Reaped, Closed
<1>7. CASE Tick
  BY <1>7, NothingCloses DEF Tick, storeVars
<1> QED
  BY <1>1, <1>2, <1>3, <1>4, <1>5, <1>6, <1>7, <1>8 DEF Next, PollStep

(* A session is closed when it has ended, unless its claude was slow to     *)
(* start or started between a scan and its time; and its end is not put     *)
(* after its process's, or after the time of a scan that had found it.      *)
THEOREM SessionsEndTruly == Spec => ReapTruth
BY AlwaysTypes, AlwaysSessions, NextReaps, PTL DEF Spec, ReapTruth


-----------------------------------------------------------------------------
(* The user's pins.                                                         *)

(* A manual pin that is dead has lapsed; and of one that a select has read  *)
(* and that was over by the time it took, either it is the pin still, or    *)
(* what looks like it has lapsed.                                           *)
DeadLapsed == \A d \in Dir : Manual(d) /\ Dead(d) => d \in lapsed

Outlived(p) == proc[p].at > proc[p].read.at + StickyTTL

StillRead(p) == pin[proc[p].dir] = proc[p].read \/ proc[p].dir \in lapsed

Classifies(p) ==
    proc[p].pc = "classify" /\ proc[p].read.manual /\ Outlived(p) /\ SameVersion(proc[p].dir, proc[p].read)
      => StillRead(p)

Deletes(p) == proc[p].pc = "delete" /\ proc[p].read.manual =>
    Outlived(p) /\ (SameVersion(proc[p].dir, proc[p].read) => proc[p].dir \in lapsed)

Pins == DeadLapsed /\ \A p \in Proc : Classifies(p) /\ Deletes(p)

LEMMA PinFields ==
    ASSUME Types, NEW st \in Pin
    PROVE  /\ st.acct \in Id /\ st.at \in Nat /\ StickyTTL \in Nat
           /\ \A d \in Dir : LastActivity(d, st) \in Nat /\ st.at <= LastActivity(d, st)
<1>1. st.acct \in Id /\ st.at \in Time /\ \A t \in Time : t \in Nat
  BY DEF Pin, Time
<1>2. ASSUME NEW d \in Dir PROVE ended[d][st.acct] \in Nat
  BY <1>1 DEF Types, TypeOK
<1> QED
  BY <1>1, <1>2, TimeAssumption DEF LastActivity, Later

(* What is not alive at a time that has passed is dead.                     *)
LEMMA NotAliveIsDead ==
    ASSUME Types, NEW d \in Dir, NEW t \in Nat, t <= now, pin[d] \in Pin, ~AliveAt(d, pin[d], t)
    PROVE  Dead(d)
<1>1. LastActivity(d, pin[d]) \in Nat /\ StickyTTL \in Nat /\ now \in Nat
  BY PinFields, TimesAreNat
<1> QED
  BY <1>1 DEF AliveAt, Dead

LEMMA LapsedNext ==
    ASSUME Next, NEW d \in Dir, Manual(d)'
    PROVE  /\ Dead(d)' => d \in lapsed'
           /\ WrittenLate(d) => d \in lapsed'
           /\ d \in lapsed /\ pin'[d] = pin[d] => d \in lapsed'
<1>1. lapsed' = {e \in Dir : Manual(e)' /\ (Dead(e)' \/ WrittenLate(e) \/ (e \in lapsed /\ pin'[e] = pin[e]))}
  BY DEF Next
<1> QED
  BY <1>1

(* Where a pin is not what it was and has the time of one that was over, it *)
(* was written late.                                                        *)
LEMMA SameVersionLate ==
    ASSUME Types, Next, NEW d \in Dir, NEW st \in Pin, NEW t \in Nat, t <= now, t > st.at + StickyTTL,
           SameVersion(d, st)', st.manual, pin'[d] # pin[d]
    PROVE  d \in lapsed'
<1>1. st.at \in Nat /\ StickyTTL \in Nat /\ now \in Nat
  BY PinFields, TimesAreNat
<1>2. Manual(d)' /\ pin'[d].at = st.at
  BY DEF SameVersion, Manual
<1>3. WrittenLate(d)
  BY <1>1, <1>2 DEF WrittenLate
<1> QED
  BY <1>2, <1>3, LapsedNext

(* What a select has read, at its next step and at everybody else's.        *)
LEMMA ReadStays ==
    ASSUME Types, Next, NEW d \in Dir, NEW st \in Pin, NEW t \in Nat, t <= now, t > st.at + StickyTTL,
           SameVersion(d, st)', st.manual,
           SameVersion(d, st) => pin[d] = st \/ d \in lapsed
    PROVE  pin'[d] = st \/ d \in lapsed'
<1>1. CASE pin'[d] # pin[d]
  BY <1>1, SameVersionLate
<1>2. CASE pin'[d] = pin[d]
  <2>1. SameVersion(d, st) /\ Manual(d)'
    BY <1>2 DEF SameVersion, Manual
  <2> QED
    BY <1>2, <2>1, LapsedNext
<1> QED
  BY <1>1, <1>2

LEMMA LapsedStays ==
    ASSUME Types, Next, NEW d \in Dir, NEW st \in Pin, NEW t \in Nat, t <= now, t > st.at + StickyTTL,
           SameVersion(d, st)', st.manual,
           SameVersion(d, st) => d \in lapsed
    PROVE  d \in lapsed'
<1>1. CASE pin'[d] # pin[d]
  BY <1>1, SameVersionLate
<1>2. CASE pin'[d] = pin[d]
  <2>1. SameVersion(d, st) /\ Manual(d)'
    BY <1>2 DEF SameVersion, Manual
  <2> QED
    BY <1>2, <2>1, LapsedNext
<1> QED
  BY <1>1, <1>2

(* A state of a select from which this one can have come by a step.         *)
LEMMA PinsKept ==
    ASSUME Types, Types', Sessions, Pins, Next, NEW p \in Proc, proc'[p] = proc[p]
    PROVE  Classifies(p)' /\ Deletes(p)'
<1> DEFINE d == proc[p].dir
           st == proc[p].read
           t == proc[p].at
<1>1. t \in Nat /\ t <= now
  BY TimesAreNat DEF Sessions, Past
<1>2. proc[p].pc \in {"classify", "delete"} => d \in Dir /\ st \in Pin
  BY DEF Types, Filled, Fit, Begun
<1>3. ASSUME proc[p].pc = "classify", st.manual, t > st.at + StickyTTL, SameVersion(d, st)'
      PROVE  pin'[d] = st \/ d \in lapsed'
  <2>1. SameVersion(d, st) => pin[d] = st \/ d \in lapsed
    BY <1>3 DEF Pins, Classifies, Outlived, StillRead
  <2> QED
    BY <1>1, <1>2, <1>3, <2>1, ReadStays
<1>4. ASSUME proc[p].pc = "delete", st.manual
      PROVE  t > st.at + StickyTTL /\ (SameVersion(d, st)' => d \in lapsed')
  <2>1. t > st.at + StickyTTL /\ (SameVersion(d, st) => d \in lapsed)
    BY <1>4 DEF Pins, Deletes, Outlived
  <2> QED
    BY <1>1, <1>2, <1>4, <2>1, LapsedStays
<1>5. Classifies(p)'
  BY <1>3 DEF Classifies, Outlived, StillRead, SameVersion
<1>6. Deletes(p)'
  BY <1>4 DEF Deletes, Outlived, SameVersion
<1> QED
  BY <1>5, <1>6

LEMMA PinsMoved ==
    ASSUME Types, Types', Sessions, Pins, Next, NEW p \in Proc, SelectStep(p)
    PROVE  Classifies(p)' /\ Deletes(p)'
<1>1. PICK v \in ProcState : Moves(p, v)
  BY SelectStepMoves
<1>2. proc'[p] = v
  BY <1>1, StepFits DEF Moves
<1> DEFINE d == v.dir
           st == v.read
           t == v.at
<1>3. t \in Nat /\ t <= now
  BY <1>1, TimesAreNat DEF Moves, Sessions, Past
<1>4. v.pc \in {"classify", "delete"} => d \in Dir /\ st \in Pin
  BY <1>1 DEF Moves, Fit, Begun
<1>5. ASSUME v.pc = "classify", st.manual, t > st.at + StickyTTL, SameVersion(d, st)'
      PROVE  pin'[d] = st \/ d \in lapsed'
  <2>1. pin[d] = st
    BY <1>1, <1>5 DEF Moves
  <2> QED
    BY <1>3, <1>4, <1>5, <2>1, ReadStays
<1>6. ASSUME v.pc = "delete", st.manual
      PROVE  t > st.at + StickyTTL /\ (SameVersion(d, st)' => d \in lapsed')
  <2>1. /\ proc[p].pc = "classify" /\ d = proc[p].dir /\ st = proc[p].read /\ t = proc[p].at
        /\ ~AliveAt(d, st, t)
    BY <1>1, <1>6 DEF Moves, Expired
  <2>2. t > st.at + StickyTTL
    <3>1. /\ st.at \in Nat /\ StickyTTL \in Nat /\ LastActivity(d, st) \in Nat
          /\ st.at <= LastActivity(d, st)
      BY <1>4, <1>6, PinFields
    <3> QED
      BY <1>3, <2>1, <3>1 DEF AliveAt
  <2>3. ASSUME SameVersion(d, st) PROVE d \in lapsed
    <3>1. pin[d] = st \/ d \in lapsed
      BY <1>6, <2>1, <2>2, <2>3 DEF Pins, Classifies, Outlived, StillRead
    <3>2. ASSUME pin[d] = st PROVE d \in lapsed
      <4>1. Dead(d)
        BY <1>3, <1>4, <1>6, <2>1, <3>2, NotAliveIsDead
      <4>2. Manual(d)
        BY <1>6, <2>3, <3>2 DEF SameVersion, Manual
      <4> QED
        BY <1>4, <1>6, <4>1, <4>2 DEF Pins, DeadLapsed
    <3> QED
      BY <3>1, <3>2
  <2> QED
    BY <1>3, <1>4, <1>6, <2>2, <2>3, LapsedStays
<1>7. Classifies(p)'
  BY <1>2, <1>5 DEF Classifies, Outlived, StillRead, SameVersion
<1>8. Deletes(p)'
  BY <1>2, <1>6 DEF Deletes, Outlived, SameVersion
<1> QED
  BY <1>7, <1>8

LEMMA InitPins == Init => Pins
<1> SUFFICES ASSUME Init PROVE Pins
  OBVIOUS
<1>1. \A d \in Dir : pin[d] = None
  BY DEF Init
<1>2. \A p \in Proc : proc[p].pc = "gone"
  BY GoneFits DEF Init
<1> QED
  BY <1>1, <1>2 DEF Pins, DeadLapsed, Manual, Classifies, Deletes

LEMMA NextPins == Types /\ Types' /\ Sessions /\ Pins /\ [Next]_vars => Pins'
<1> SUFFICES ASSUME Types, Types', Sessions, Pins, [Next]_vars PROVE Pins'
  OBVIOUS
<1>1. CASE UNCHANGED vars
  BY <1>1 DEF vars, Pins, DeadLapsed, Manual, Dead, AliveAt, Live, LastActivity, Later,
              Classifies, Deletes, Outlived, StillRead, SameVersion
<1>2. CASE Next
  <2>1. DeadLapsed'
    BY <1>2, LapsedNext DEF DeadLapsed
  <2>2. ASSUME NEW q \in Proc PROVE Classifies(q)' /\ Deletes(q)'
    <3>1. ASSUME NEW p \in Proc, SelectStep(p) PROVE Classifies(q)' /\ Deletes(q)'
      <4>1. CASE q = p
        BY <1>2, <3>1, <4>1, PinsMoved
      <4>2. CASE q # p
        <5>1. PICK v \in ProcState : Moves(p, v)
          BY <3>1, SelectStepMoves
        <5>2. proc'[q] = proc[q]
          BY <4>2, <5>1, StepFits DEF Moves
        <5> QED
          BY <1>2, <5>2, PinsKept
      <4> QED
        BY <4>1, <4>2
    <3>2. CASE UNCHANGED proc
      BY <1>2, <3>2, PinsKept
    <3>3. UNCHANGED proc \/ \E p \in Proc : SelectStep(p)
      BY <1>2, UserStores DEF Next, PollStep, PollScan, PollTime, PollScanFails, PollReap, PruneSticky, Remove, Add, Tick
    <3> QED
      BY <3>1, <3>2, <3>3
  <2> QED
    BY <2>1, <2>2 DEF Pins
<1> QED
  BY <1>1, <1>2

LEMMA AlwaysPins == Spec => []Pins
BY InitPins, NextPins, AlwaysTypes, AlwaysSessions, PTL DEF Spec

LEMMA NextStays ==
    Types /\ Sessions /\ Pins /\ [Next]_vars => [\A d \in Dir : Manual(d) /\ Unmade(d) => Allowed(d)]_vars
<1> SUFFICES ASSUME Types, Sessions, Pins, Next, NEW d \in Dir, Manual(d), Unmade(d) PROVE Allowed(d)
  OBVIOUS
<1>1. pin'[d] # pin[d]
  BY DEF Unmade, Manual
<1>2. pin[d] \in Pin
  BY DEF Manual, Types, TypeOK
<1>3. ASSUME NEW p \in Proc, SelectStep(p) PROVE Allowed(d)
  <2>1. CASE UNCHANGED pin
    BY <1>1, <2>1
  <2>2. CASE DeleteExpired(p)
    <3>1. d = proc[p].dir /\ SameVersion(d, proc[p].read)
      BY <1>1, <2>2, DeleteExpiredPins
    <3>2. proc[p].pc \in {"delete", "forget"} /\ proc[p].read.manual
      BY <2>2, <3>1 DEF DeleteExpired, SameVersion, Manual
    <3>3. CASE proc[p].pc = "delete"
      BY <3>1, <3>2, <3>3 DEF Pins, Deletes, Allowed
    <3>4. CASE proc[p].pc = "forget"
      BY <2>2, <3>1, <3>4 DEF Allowed, Forgotten
    <3> QED
      BY <3>2, <3>3, <3>4
  <2>3. CASE RecordSticky(p)
    <3>1. pin'[d] \in Pin /\ pin'[d].acct = pin[d].acct /\ pin'[d].manual
      BY <1>1, <2>3, RecordStickyPins
    <3> QED
      BY <3>1, NoneAssumption DEF Unmade
  <2> QED
    BY <1>3, <2>1, <2>2, <2>3, SelectStores
<1>4. CASE PruneSticky
  <2>1. Prunable(d)
    BY <1>1, <1>4 DEF PruneSticky
  <2>2. Dead(d)
    <3>1. LastActivity(d, pin[d]) \in Nat /\ StickyTTL \in Nat /\ now \in Nat
      BY <1>2, PinFields, TimesAreNat
    <3> QED
      BY <2>1, <3>1 DEF Prunable, Dead, AliveAt
  <2> QED
    BY <2>2 DEF Pins, DeadLapsed, Allowed
<1>5. CASE PollScan \/ PollTime \/ PollScanFails \/ PollReap
  BY <1>1, <1>5 DEF PollScan, PollTime, PollScanFails, PollReap, storeVars
<1>6. CASE UserStep
  BY <1>1, <1>6, UserStores DEF Allowed
<1>7. ASSUME NEW i \in Id, Remove(i) PROVE Allowed(d)
  <2>1. pin[d].acct = i /\ accounts' = accounts \ {i}
    BY <1>1, <1>7 DEF Remove, PinsWithout
  <2> QED
    BY <2>1 DEF Allowed
<1>8. CASE (\E i \in Id : Add(i)) \/ Tick
  BY <1>1, <1>8 DEF Add, Tick, storeVars
<1> QED
  BY <1>3, <1>4, <1>5, <1>6, <1>7, <1>8 DEF Next, PollStep

(* What the user has pinned stays until the user, its account or its own    *)
(* time ends it, or a select that could not read its activity.              *)
THEOREM PinsOfTheUserStay == Spec => ManualPinsStay
BY AlwaysTypes, AlwaysSessions, AlwaysPins, NextStays, PTL DEF Spec, ManualPinsStay

-----------------------------------------------------------------------------
(* Accounts.                                                                *)

(* Unless two commands have been at work on index i, it is in one hand: of  *)
(* one add, or of what an add has left behind, or of an account and perhaps *)
(* one remove.                                                              *)
Sole(i) == i \notin raced =>
    /\ \A a, b \in Adder : add[a].id = i /\ add[b].id = i => a = b
    /\ \A r, s \in Remover : remove[r].id = i /\ remove[s].id = i => r = s
    /\ \A a \in Adder : add[a].id = i => i \notin rows /\ i \notin loose
    /\ i \in loose => i \notin rows
    /\ \A r \in Remover : remove[r].id = i => i \in rows

(* What lies under index i then: an identity goes with its credential, but  *)
(* between the two halves of a rollback; a purge finds no identity, what is *)
(* registered has one, and a remove takes the credential last.              *)
Whole(i) == i \notin raced =>
    /\ i \notin odd /\ dir[i].ident # Nil
          /\ (\A a \in Adder : ~(add[a].id = i /\ add[a].pc = "undir"))
          => Credential(i) = dir[i].ident
    /\ \A a \in Adder : add[a].id = i =>
          /\ add[a].pc = "purge" => dir[i].ident = Nil
          /\ add[a].pc \in {"locate", "upsert"} => dir[i].ident # Nil
    /\ \A r \in Remover : remove[r].id = i /\ remove[r].pc \in {"item", "row"} => dir[i] = NoDir
    /\ i \in rows \ odd /\ dir[i].there => dir[i].ident # Nil

IInv == AccountsTypeOK /\ \A i \in Index : Sole(i) /\ Whole(i)

-----------------------------------------------------------------------------
(* Types.                                                                   *)
StoreTypes ==
    /\ rows \subseteq Index /\ loose \subseteq Index /\ raced \subseteq Index /\ odd \subseteq Index
    /\ item \in [Index -> Cred]
    /\ adds \in Nat /\ looses \in Nat /\ faults \in Nat

DirTypes == dir \in [Index -> DirState] /\ \A i \in Index : ~dir[i].there => dir[i] = NoDir

AddsTypes == add \in [Adder -> AddState] /\ \A a \in Adder : add[a].pc = "idle" <=> add[a].id = Nil

RemovesTypes ==
    /\ remove \in [Remover -> RemoveState]
    /\ \A r \in Remover : remove[r].pc = "idle" <=> remove[r].id = Nil

LEMMA TypesOK == AccountsTypeOK <=> StoreTypes /\ DirTypes /\ AddsTypes /\ RemovesTypes
BY DEF AccountsTypeOK, StoreTypes, DirTypes, AddsTypes, RemovesTypes

LEMMA TypesNext == (StoreTypes /\ DirTypes /\ AddsTypes /\ RemovesTypes)' => AccountsTypeOK'
BY DEF AccountsTypeOK, StoreTypes, DirTypes, AddsTypes, RemovesTypes

LEMMA InitIInv == AccountsInit => IInv
<1> SUFFICES ASSUME AccountsInit PROVE IInv
  OBVIOUS
<1> USE NameAssumption
<1>1. StoreTypes /\ DirTypes
  BY DEF AccountsInit, StoreTypes, DirTypes, DirState, NoDir, Cred
<1>2. AddsTypes /\ RemovesTypes
  BY DEF AccountsInit, AddsTypes, RemovesTypes, AddState, AddIdle, AddPc, RemoveState, RemoveIdle
<1>3. \A i \in Index : Sole(i) /\ Whole(i)
  BY DEF AccountsInit, Sole, Whole, AddIdle, RemoveIdle, NoDir
<1> QED
  BY <1>1, <1>2, <1>3, TypesOK DEF IInv

LEMMA AddAt ==
    ASSUME AccountsTypeOK, NEW a \in Adder, add[a].pc # "idle"
    PROVE  add[a].id \in Index /\ add[a] \in AddState
BY DEF AccountsTypeOK, AddState

LEMMA AddSteps ==
    ASSUME AccountsTypeOK, NEW a \in Adder, NEW f \in AddState, f.pc = "idle" <=> f.id = Nil, Becomes(a, f)
    PROVE  AddsTypes' /\ add'[a] = f /\ \A b \in Adder \ {a} : add'[b] = add[b]
BY DEF AccountsTypeOK, AddsTypes, Becomes

(* The states that an add at work goes to.                                  *)
LEMMA AddStates ==
    ASSUME AccountsTypeOK, NEW a \in Adder, add[a].pc # "idle"
    PROVE  /\ AddIdle \in AddState /\ AddIdle.pc = "idle" /\ AddIdle.id = Nil
           /\ add[a].id # Nil
           /\ \A pc \in AddPc :
                 /\ Stage(a, pc) \in AddState /\ Stage(a, pc).pc = pc /\ Stage(a, pc).id = add[a].id
                 /\ \A k \in BOOLEAN :
                       /\ [Stage(a, pc) EXCEPT !.kept = k] \in AddState
                       /\ [Stage(a, pc) EXCEPT !.kept = k].pc = pc
                       /\ [Stage(a, pc) EXCEPT !.kept = k].id = add[a].id
                 /\ \A c \in Backend \cup {"off", "in"} :
                       /\ [Stage(a, pc) EXCEPT !.claude = c] \in AddState
                       /\ [Stage(a, pc) EXCEPT !.claude = c].pc = pc
                       /\ [Stage(a, pc) EXCEPT !.claude = c].id = add[a].id
           /\ \A c \in Backend \cup {"off", "in"} :
                 /\ [add[a] EXCEPT !.claude = c] \in AddState
                 /\ [add[a] EXCEPT !.claude = c].pc = add[a].pc
                 /\ [add[a] EXCEPT !.claude = c].id = add[a].id
           /\ "idle" \notin AddPc
<1> USE NameAssumption
<1>1. AddIdle \in AddState /\ AddIdle.pc = "idle" /\ AddIdle.id = Nil /\ "idle" \notin AddPc
  BY DEF AddIdle, AddState, AddPc
<1>2. add[a].id \in Index /\ add[a] \in AddState /\ add[a].id # Nil
  BY AddAt
<1>3. ASSUME NEW pc \in AddPc
      PROVE  Stage(a, pc) \in AddState /\ Stage(a, pc).pc = pc /\ Stage(a, pc).id = add[a].id
  BY <1>2 DEF Stage, AddState
<1>4. ASSUME NEW f \in AddState, NEW k \in BOOLEAN
      PROVE  /\ [f EXCEPT !.kept = k] \in AddState
             /\ [f EXCEPT !.kept = k].pc = f.pc /\ [f EXCEPT !.kept = k].id = f.id
  BY DEF AddState
<1>5. ASSUME NEW f \in AddState, NEW c \in Backend \cup {"off", "in"}
      PROVE  /\ [f EXCEPT !.claude = c] \in AddState
             /\ [f EXCEPT !.claude = c].pc = f.pc /\ [f EXCEPT !.claude = c].id = f.id
  BY DEF AddState
<1> HIDE DEF AddState, AddPc, Stage, AddIdle
<1> QED
  BY <1>1, <1>2, <1>3, <1>4, <1>5

LEMMA WritesTypes ==
    ASSUME AccountsTypeOK, NEW i \in Index, NEW cred \in Cred \ {Nil}, NEW ident \in User \cup {Nil},
           NEW backend \in Backend, Writes(i, cred, ident, backend)
    PROVE  /\ item' \in [Index -> Cred] /\ DirTypes'
           /\ dir'[i].ident = ident /\ dir'[i].there
           /\ \A j \in Index \ {i} : dir'[j] = dir[j] /\ item'[j] = item[j]
           /\ backend = "item" => item'[i] = cred
           /\ backend = "file" => dir'[i].file = cred /\ item'[i] = item[i]
<1>1. dir[i] \in DirState
  BY DEF AccountsTypeOK
<1>2. [there |-> TRUE, ident |-> ident, file |-> IF backend = "file" THEN cred ELSE dir[i].file] \in DirState
  BY <1>1 DEF DirState
<1>3. dir' = [dir EXCEPT ![i] = [there |-> TRUE, ident |-> ident,
                                 file |-> IF backend = "file" THEN cred ELSE dir[i].file]]
  BY DEF Writes
<1>4. DirTypes'
  BY <1>2, <1>3 DEF AccountsTypeOK, DirTypes
<1>5. item' \in [Index -> Cred] /\ (\A j \in Index \ {i} : item'[j] = item[j])
      /\ (backend = "item" => item'[i] = cred) /\ (backend = "file" => item'[i] = item[i])
  BY DEF Writes, AccountsTypeOK
<1> QED
  BY <1>3, <1>4, <1>5 DEF AccountsTypeOK

-----------------------------------------------------------------------------
(* Indices that a step does not concern.                                    *)
LEMMA Elsewhere ==
    ASSUME NEW j \in Index, Sole(j), Whole(j),
           dir'[j] = dir[j], item'[j] = item[j],
           j \in rows' <=> j \in rows, j \in loose' <=> j \in loose, j \in odd' <=> j \in odd,
           j \in raced => j \in raced',
           \A a \in Adder : add'[a].id = j => add'[a] = add[a],
           \A a \in Adder : add[a].id = j => add'[a] = add[a],
           \A r \in Remover : remove'[r].id = j => remove'[r] = remove[r],
           \A r \in Remover : remove[r].id = j => remove'[r] = remove[r]
    PROVE  Sole(j)' /\ Whole(j)'
<1>1. Sole(j)'
  BY DEF Sole
<1>2. Credential(j)' = Credential(j)
  BY DEF Credential
<1>3. Whole(j)'
  BY <1>2 DEF Whole
<1> QED
  BY <1>1, <1>3

(* What an add at work can count on.                                        *)
LEMMA Alone ==
    ASSUME IInv, NEW a \in Adder, add[a].pc # "idle", add[a].id \notin raced
    PROVE  /\ \A b \in Adder : add[b].id = add[a].id => b = a
           /\ \A r \in Remover : remove[r].id # add[a].id
           /\ add[a].id \notin rows /\ add[a].id \notin loose
           /\ add[a].id \notin odd /\ dir[add[a].id].ident # Nil /\ add[a].pc # "undir"
                => Credential(add[a].id) = dir[add[a].id].ident
           /\ add[a].pc = "purge" => dir[add[a].id].ident = Nil
           /\ add[a].pc \in {"locate", "upsert"} => dir[add[a].id].ident # Nil
<1>1. add[a].id \in Index
  BY AddAt DEF IInv
<1>2. Sole(add[a].id) /\ Whole(add[a].id)
  BY <1>1 DEF IInv
<1> QED
  BY <1>2 DEF Sole, Whole

LEMMA AddKeeps ==
    ASSUME IInv, NEW a \in Adder, add[a].pc # "idle", NEW i, i = add[a].id,
           NEW f \in AddState, f.pc = "idle" <=> f.id = Nil, f.id \in {Nil, i}, Becomes(a, f),
           UNCHANGED <<remove, raced>>, StoreTypes', DirTypes',
           \A j \in Index \ {i} : /\ dir'[j] = dir[j] /\ item'[j] = item[j]
                                  /\ j \in rows' <=> j \in rows
                                  /\ j \in loose' <=> j \in loose
                                  /\ j \in odd' <=> j \in odd,
           i \notin raced =>
               /\ f.id = i => i \notin rows' /\ i \notin loose'
               /\ i \in loose' => i \notin rows'
               /\ i \notin odd' /\ dir'[i].ident # Nil /\ f.pc # "undir"
                     => Credential(i)' = dir'[i].ident
               /\ f.pc = "purge" => dir'[i].ident = Nil
               /\ f.pc \in {"locate", "upsert"} => dir'[i].ident # Nil
               /\ i \in rows' /\ dir'[i].there => dir'[i].ident # Nil
    PROVE  IInv'
<1> USE NameAssumption
<1>1. i \in Index /\ i # Nil
  BY AddAt DEF IInv
<1>2. AddsTypes' /\ add'[a] = f /\ \A b \in Adder \ {a} : add'[b] = add[b]
  BY AddSteps DEF IInv
<1>3. RemovesTypes'
  BY DEF IInv, AccountsTypeOK, RemovesTypes
<1>4. ASSUME NEW j \in Index, j # i PROVE Sole(j)' /\ Whole(j)'
  <2>1. \A b \in Adder : add'[b].id = j \/ add[b].id = j => add'[b] = add[b]
    BY <1>1, <1>2, <1>4
  <2> QED
    BY <1>4, <2>1, Elsewhere DEF IInv
<1>5. Sole(i)' /\ Whole(i)'
  <2> SUFFICES ASSUME i \notin raced PROVE Sole(i)' /\ Whole(i)'
    BY DEF Sole, Whole
  <2>1. /\ \A b \in Adder : add[b].id = i => b = a
        /\ \A r \in Remover : remove[r].id # i
    BY Alone
  <2>2. /\ \A b \in Adder : add'[b].id = i => b = a /\ add'[b] = f
        /\ \A r \in Remover : remove'[r].id # i
    BY <1>2, <2>1
  <2>3. Sole(i)'
    BY <2>2 DEF Sole
  <2>4. f.pc = "undir" => add'[a].id = i
    BY <1>2
  <2>5. i \notin odd' /\ dir'[i].ident # Nil
            /\ (\A b \in Adder : ~(add'[b].id = i /\ add'[b].pc = "undir"))
            => Credential(i)' = dir'[i].ident
    BY <1>2, <2>4
  <2> QED
    BY <2>2, <2>3, <2>5 DEF Whole
<1> QED
  BY <1>2, <1>3, <1>4, <1>5, TypesNext DEF IInv

-----------------------------------------------------------------------------
(* The steps of an add.                                                     *)
LEMMA AddIndexKeeps == ASSUME IInv, NEW a \in Adder, AddIndex(a) PROVE IInv'
<1> USE NameAssumption
<1>1. PICK i \in Index :
         /\ Free(i) /\ Becomes(a, [AddIdle EXCEPT !.pc = "setup", !.id = i])
         /\ raced' = IF Added(i) THEN raced \cup {i} ELSE raced
  BY DEF AddIndex
<1>2. /\ add[a].pc = "idle" /\ add[a].id = Nil /\ i # Nil
      /\ UNCHANGED <<rows, dir, item, remove, loose, odd, looses, faults>>
  BY DEF AddIndex, IInv, AccountsTypeOK
<1> DEFINE f == [AddIdle EXCEPT !.pc = "setup", !.id = i]
<1>3. f \in AddState /\ f.pc = "setup" /\ f.id = i
  BY DEF AddIdle, AddState, AddPc
<1> HIDE DEF f
<1>4. AddsTypes' /\ add'[a] = f /\ \A b \in Adder \ {a} : add'[b] = add[b]
  BY <1>1, <1>2, <1>3, AddSteps DEF IInv, f
<1>5. StoreTypes' /\ DirTypes' /\ RemovesTypes'
  BY <1>1, <1>2 DEF AddIndex, IInv, AccountsTypeOK, StoreTypes, DirTypes, RemovesTypes
<1>6. ASSUME NEW j \in Index, j # i PROVE Sole(j)' /\ Whole(j)'
  <2>1. \A b \in Adder : add'[b].id = j \/ add[b].id = j => add'[b] = add[b]
    BY <1>2, <1>3, <1>4, <1>6
  <2> QED
    BY <1>1, <1>2, <1>6, <2>1, Elsewhere DEF IInv
<1>7. Sole(i)' /\ Whole(i)'
  <2> SUFFICES ASSUME i \notin raced' PROVE Sole(i)' /\ Whole(i)'
    BY DEF Sole, Whole
  <2>1. i \notin raced /\ i \notin loose /\ (\A b \in Adder : add[b].id # i) /\ i \notin rows
    BY <1>1 DEF Added, Free
  <2>2. Sole(i) /\ Whole(i)
    BY DEF IInv
  <2>3. Credential(i)' = Credential(i)
    BY <1>2 DEF Credential
  <2>4. \A b \in Adder : add'[b].id = i => b = a /\ add'[b] = f
    BY <1>4, <2>1
  <2> QED
    BY <1>2, <1>3, <2>1, <2>2, <2>3, <2>4 DEF Sole, Whole
<1> QED
  BY <1>4, <1>5, <1>6, <1>7, TypesNext DEF IInv

(* Steps that leave the disk and the keychain alone.                        *)
LEMMA QuietAddKeeps ==
    ASSUME IInv, NEW a \in Adder, add[a].pc # "idle",
           NEW f \in AddState, f.pc # "idle", f.id = add[a].id, Becomes(a, f),
           UNCHANGED <<rows, dir, item, remove, loose, raced, odd>>, StoreTypes',
           add[a].pc # "undir", f.pc = "purge" => dir[add[a].id].ident = Nil,
           f.pc \in {"locate", "upsert"} =>
               dir[add[a].id].ident # Nil \/ add[a].pc \in {"locate", "upsert"}
    PROVE  IInv'
<1>1. PICK i \in Index : i = add[a].id
  BY AddAt DEF IInv
<1>2. DirTypes' /\ i # Nil
  BY NameAssumption DEF IInv, AccountsTypeOK, DirTypes
<1>3. Credential(i)' = Credential(i)
  BY DEF Credential
<1>4. i \notin raced =>
           /\ i \notin rows' /\ i \notin loose'
           /\ i \notin odd' /\ dir'[i].ident # Nil => Credential(i)' = dir'[i].ident
           /\ f.pc = "purge" => dir'[i].ident = Nil
           /\ f.pc \in {"locate", "upsert"} => dir'[i].ident # Nil
  BY <1>1, <1>3, Alone
<1> HIDE DEF Credential
<1> QED
  BY <1>1, <1>2, <1>4, AddKeeps

LEMMA TypesStay ==
    ASSUME IInv, UNCHANGED <<rows, loose, raced, odd, item, adds, looses>>, faults' \in Nat
    PROVE  StoreTypes'
BY DEF IInv, AccountsTypeOK, StoreTypes

LEMMA AskingKeeps ==
    ASSUME IInv, NEW a \in Adder, LoginOver(a) \/ CheckDuplicate(a) \/ AddIdentity(a) \/ AddLocate(a)
    PROVE  IInv'
<1>1. add[a].pc \in {"login", "dup", "identity", "locate"}
  BY DEF LoginOver, CheckDuplicate, AddIdentity, AddLocate
<1>2. UNCHANGED <<rows, dir, item, remove, loose, raced, odd, adds, looses>> /\ faults' \in Nat
  BY DEF LoginOver, CheckDuplicate, AddIdentity, AddLocate, IInv, AccountsTypeOK
<1>3. StoreTypes'
  BY <1>2, TypesStay
<1>4. \E f \in AddState :
         /\ f.pc \in {"dup", "identity", "undo", "locate", "upsert"} /\ f.id = add[a].id /\ Becomes(a, f)
         /\ f.pc = "locate" => dir[add[a].id].ident # Nil
         /\ f.pc = "upsert" => add[a].pc = "locate"
  <2>1. \A pc \in {"dup", "identity", "undo", "locate", "upsert"} :
           /\ Stage(a, pc) \in AddState /\ Stage(a, pc).pc = pc /\ Stage(a, pc).id = add[a].id
           /\ [Stage(a, pc) EXCEPT !.claude = "off"] \in AddState
           /\ [Stage(a, pc) EXCEPT !.claude = "off"].pc = pc
           /\ [Stage(a, pc) EXCEPT !.claude = "off"].id = add[a].id
    <3>1. {"dup", "identity", "undo", "locate", "upsert"} \subseteq AddPc
      BY DEF AddPc
    <3>2. add[a].pc # "idle" /\ AccountsTypeOK /\ "off" \in Backend \cup {"off", "in"}
      BY <1>1 DEF IInv
    <3>3. \A pc \in AddPc : \A c \in Backend \cup {"off", "in"} :
             /\ Stage(a, pc) \in AddState /\ Stage(a, pc).pc = pc /\ Stage(a, pc).id = add[a].id
             /\ [Stage(a, pc) EXCEPT !.claude = c] \in AddState
             /\ [Stage(a, pc) EXCEPT !.claude = c].pc = pc
             /\ [Stage(a, pc) EXCEPT !.claude = c].id = add[a].id
      BY <3>2, AddStates
    <3> HIDE DEF Stage
    <3> QED
      BY <3>1, <3>2, <3>3
  <2>2. CASE LoginOver(a)
    BY <2>1, <2>2 DEF LoginOver
  <2>3. CASE CheckDuplicate(a)
    BY <2>1, <2>3 DEF CheckDuplicate
  <2>4. CASE AddIdentity(a)
    BY <2>1, <2>4 DEF AddIdentity, LoggedIn
  <2>5. CASE AddLocate(a)
    BY <2>1, <2>5 DEF AddLocate
  <2> QED
    BY <2>2, <2>3, <2>4, <2>5
<1>5. PICK f \in AddState :
         /\ f.pc \in {"dup", "identity", "undo", "locate", "upsert"} /\ f.id = add[a].id /\ Becomes(a, f)
         /\ f.pc = "locate" => dir[add[a].id].ident # Nil
         /\ f.pc = "upsert" => add[a].pc = "locate"
  BY <1>4
<1> QED
  BY <1>1, <1>2, <1>3, <1>5, QuietAddKeeps

LEMMA AddSetupKeeps ==
    ASSUME IInv, NEW a \in Adder, AddSetup(a) \/ AddSeed(a) PROVE IInv'
<1> USE NameAssumption
<1>1. add[a].pc # "idle" /\ add[a].pc # "undir" /\ UNCHANGED <<rows, item, remove, loose, raced, odd, adds, looses, faults>>
  BY DEF AddSetup, AddSeed
<1>2. PICK i \in Index : i = add[a].id
  BY <1>1, AddAt DEF IInv
<1>3. \E f \in AddState :
         /\ f.pc \in {"seed", "login", "purge"} /\ f.id = i /\ Becomes(a, f)
         /\ f.pc = "purge" => dir[i].ident = Nil
  <2>1. \A pc \in {"seed", "login", "purge"} :
           /\ Stage(a, pc) \in AddState /\ Stage(a, pc).pc = pc /\ Stage(a, pc).id = i
           /\ [Stage(a, pc) EXCEPT !.kept = TRUE] \in AddState
           /\ [Stage(a, pc) EXCEPT !.kept = TRUE].pc = pc
           /\ [Stage(a, pc) EXCEPT !.kept = TRUE].id = i
    <3>1. {"seed", "login", "purge"} \subseteq AddPc /\ TRUE \in BOOLEAN /\ AccountsTypeOK
      BY DEF AddPc, IInv
    <3>2. \A pc \in AddPc : \A k \in BOOLEAN :
             /\ Stage(a, pc) \in AddState /\ Stage(a, pc).pc = pc /\ Stage(a, pc).id = add[a].id
             /\ [Stage(a, pc) EXCEPT !.kept = k] \in AddState
             /\ [Stage(a, pc) EXCEPT !.kept = k].pc = pc
             /\ [Stage(a, pc) EXCEPT !.kept = k].id = add[a].id
      BY <1>1, <3>1, AddStates
    <3> HIDE DEF Stage
    <3> QED
      BY <1>2, <3>1, <3>2
  <2>2. CASE AddSetup(a)
    BY <2>1, <2>2 DEF AddSetup
  <2>3. CASE AddSeed(a)
    BY <1>2, <2>1, <2>3 DEF AddSeed
  <2> QED
    BY <2>2, <2>3
<1>4. PICK f \in AddState :
         /\ f.pc \in {"seed", "login", "purge"} /\ f.id = i /\ Becomes(a, f)
         /\ f.pc = "purge" => dir[i].ident = Nil
  BY <1>3
<1>5. dir' = [dir EXCEPT ![i].there = TRUE]
  BY <1>2 DEF AddSetup, AddSeed
<1>6. /\ DirTypes' /\ dir'[i].ident = dir[i].ident /\ dir'[i].file = dir[i].file
      /\ \A j \in Index \ {i} : dir'[j] = dir[j]
  <2> DEFINE e == [dir[i] EXCEPT !.there = TRUE]
  <2>1. e \in DirState /\ e.there /\ e.ident = dir[i].ident /\ e.file = dir[i].file
    BY DEF IInv, AccountsTypeOK, DirState
  <2>2. dir' = [dir EXCEPT ![i] = e]
    BY <1>5 DEF IInv, AccountsTypeOK
  <2> HIDE DEF e
  <2> QED
    BY <2>1, <2>2 DEF IInv, AccountsTypeOK, DirTypes
<1>7. Credential(i)' = Credential(i)
  BY <1>1, <1>6 DEF Credential
<1>8. StoreTypes'
  BY <1>1 DEF IInv, AccountsTypeOK, StoreTypes
<1>9. i \notin raced =>
          /\ i \notin rows' /\ i \notin loose'
          /\ i \notin odd' /\ dir'[i].ident # Nil => Credential(i)' = dir'[i].ident
  BY <1>1, <1>2, <1>6, <1>7, Alone
<1> HIDE DEF Credential
<1> QED
  BY <1>1, <1>2, <1>4, <1>6, <1>8, <1>9, AddKeeps

LEMMA AddPurgeKeeps ==
    ASSUME IInv, NEW a \in Adder, AddPurge(a) \/ AbandonItem(a) PROVE IInv'
<1> USE NameAssumption
<1>1. /\ add[a].pc \in {"purge", "undo"} /\ faults' \in Nat
      /\ UNCHANGED <<rows, dir, remove, loose, raced, odd, adds, looses>>
  BY DEF AddPurge, AbandonItem, IInv, AccountsTypeOK
<1>2. PICK i \in Index : i = add[a].id
  BY <1>1, AddAt DEF IInv
<1>3. PICK f \in AddState :
         /\ f.pc \in {"login", "undir"} /\ f.id = i /\ Becomes(a, f)
         /\ f.pc = "login" => add[a].pc = "purge"
  <2>1. \A pc \in {"login", "undir"} :
           Stage(a, pc) \in AddState /\ Stage(a, pc).pc = pc /\ Stage(a, pc).id = i
    <3>1. {"login", "undir"} \subseteq AddPc /\ AccountsTypeOK
      BY DEF AddPc, IInv
    <3>2. \A pc \in AddPc : Stage(a, pc) \in AddState /\ Stage(a, pc).pc = pc /\ Stage(a, pc).id = add[a].id
      BY <1>1, <3>1, AddStates
    <3> QED
      BY <1>2, <3>1, <3>2
  <2> QED
    BY <2>1 DEF AddPurge, AbandonItem
<1>4. /\ item' \in [Index -> Cred] /\ \A j \in Index \ {i} : item'[j] = item[j]
  BY <1>2 DEF AddPurge, AbandonItem, IInv, AccountsTypeOK, Cred
<1>5. StoreTypes' /\ DirTypes'
  BY <1>1, <1>4 DEF IInv, AccountsTypeOK, StoreTypes, DirTypes
<1>6. i \notin raced =>
          /\ i \notin rows' /\ i \notin loose'
          /\ f.pc # "undir" => dir'[i].ident = Nil
  BY <1>1, <1>2, <1>3, Alone
<1> QED
  BY <1>1, <1>2, <1>3, <1>4, <1>5, <1>6, AddKeeps

(* What is left of a directory is a directory.                              *)
LEMMA LeavingsOK ==
    ASSUME AccountsTypeOK, NEW i \in Index, NEW left, left = NoDir \/ left \in Leavings(i)
    PROVE  left \in DirState /\ (~left.there => left = NoDir)
<1>1. CASE left = NoDir
  BY <1>1 DEF NoDir, DirState, Cred
<1>2. CASE left \in Leavings(i)
  <2>1. PICK u \in {dir[i].ident, Nil}, c \in {dir[i].file, Nil} :
           left = [there |-> dir[i].there, ident |-> u, file |-> c]
    BY <1>2 DEF Leavings
  <2>2. dir[i] \in DirState /\ (~dir[i].there => dir[i] = NoDir)
    BY DEF AccountsTypeOK
  <2>3. dir[i].there \in BOOLEAN /\ u \in User \cup {Nil} /\ c \in Cred
    BY <2>2 DEF DirState, Cred
  <2>4. ~dir[i].there => u = Nil /\ c = Nil
    BY <2>2 DEF NoDir
  <2> QED
    BY <2>1, <2>3, <2>4 DEF DirState, NoDir
<1> QED
  BY <1>1, <1>2

LEMMA AbandonDirKeeps == ASSUME IInv, NEW a \in Adder, AbandonDir(a) PROVE IInv'
<1> USE NameAssumption
<1>1. /\ add[a].pc = "undir" /\ Becomes(a, AddIdle) /\ faults' \in Nat
      /\ UNCHANGED <<rows, item, remove, loose, raced, adds, looses>>
  BY DEF AbandonDir, IInv, AccountsTypeOK
<1>2. PICK i \in Index : i = add[a].id
  BY <1>1, AddAt DEF IInv
<1>3. AddIdle \in AddState /\ AddIdle.pc = "idle" /\ AddIdle.id = Nil
  BY <1>1, AddStates DEF IInv
<1>4. PICK left :
         /\ left = NoDir \/ left \in Leavings(i)
         /\ dir' = [dir EXCEPT ![i] = left]
         /\ \/ left = NoDir /\ odd' = odd \ {i}
            \/ odd' = IF Parts(left, IF item[i] # Nil THEN item[i] ELSE left.file)
                       THEN odd \cup {i} ELSE odd
  BY <1>2 DEF AbandonDir, RemovedDir
<1>5. /\ DirTypes' /\ odd' \subseteq Index
      /\ \A j \in Index \ {i} : dir'[j] = dir[j] /\ (j \in odd' <=> j \in odd)
  <2>1. left \in DirState /\ (~left.there => left = NoDir)
    BY <1>4, LeavingsOK DEF IInv
  <2>3. DirTypes' /\ \A j \in Index \ {i} : dir'[j] = dir[j]
    BY <1>4, <2>1 DEF IInv, AccountsTypeOK, DirTypes
  <2>4. odd' \subseteq Index /\ \A j \in Index \ {i} : j \in odd' <=> j \in odd
    BY <1>4 DEF IInv, AccountsTypeOK
  <2> QED
    BY <2>3, <2>4
<1>6. i \notin odd' /\ dir'[i].ident # Nil => Credential(i)' = dir'[i].ident
  BY <1>1, <1>4 DEF Credential, Parts, NoDir, IInv, AccountsTypeOK
<1>7. StoreTypes'
  BY <1>1, <1>5 DEF IInv, AccountsTypeOK, StoreTypes
<1>8. i \notin raced => i \notin rows' /\ i \notin loose'
  BY <1>1, <1>2, Alone
<1> HIDE DEF Credential
<1> QED
  BY <1>1, <1>2, <1>3, <1>5, <1>6, <1>7, <1>8, AddKeeps

LEMMA StopKeeps == ASSUME IInv, NEW a \in Adder, Stop(a) PROVE IInv'
<1> USE NameAssumption
<1>1. /\ add[a].pc # "idle" /\ Becomes(a, AddIdle)
      /\ UNCHANGED <<rows, dir, item, remove, raced, adds, faults>>
  BY DEF Stop
<1>2. PICK i \in Index : i = add[a].id
  BY <1>1, AddAt DEF IInv
<1>3. AddIdle \in AddState /\ AddIdle.pc = "idle" /\ AddIdle.id = Nil
  BY <1>1, AddStates DEF IInv
<1>4. /\ odd' = (IF Parted(i) THEN odd \cup {i} ELSE odd)
      /\ loose' \in {loose, loose \cup {i}} /\ looses' \in Nat
  BY <1>2 DEF Stop, IInv, AccountsTypeOK
<1>5. i \notin odd' /\ dir'[i].ident # Nil => Credential(i)' = dir'[i].ident
  BY <1>1, <1>4 DEF Credential, Parted, Parts
<1>6. StoreTypes' /\ DirTypes'
  BY <1>1, <1>4 DEF IInv, AccountsTypeOK, StoreTypes, DirTypes
<1>7. i \notin raced => i \notin rows'
  BY <1>1, <1>2, Alone
<1> HIDE DEF Credential
<1> QED
  BY <1>1, <1>2, <1>3, <1>4, <1>5, <1>6, <1>7, AddKeeps

LEMMA RegisterKeeps == ASSUME IInv, NEW a \in Adder, Register(a) PROVE IInv'
<1> USE NameAssumption
<1>1. /\ add[a].pc = "upsert" /\ Becomes(a, AddIdle)
      /\ UNCHANGED <<dir, item, remove, loose, raced, odd, adds, looses, faults>>
  BY DEF Register
<1>2. PICK i \in Index : i = add[a].id
  BY <1>1, AddAt DEF IInv
<1>3. AddIdle \in AddState /\ AddIdle.pc = "idle" /\ AddIdle.id = Nil
  BY <1>1, AddStates DEF IInv
<1>4. rows' = rows \cup {i}
  BY <1>2 DEF Register
<1>5. Credential(i)' = Credential(i)
  BY <1>1 DEF Credential
<1>6. StoreTypes' /\ DirTypes'
  BY <1>1, <1>4 DEF IInv, AccountsTypeOK, StoreTypes, DirTypes
<1>7. i \notin raced => /\ i \notin loose' /\ dir'[i].ident # Nil
                        /\ i \notin odd' => Credential(i)' = dir'[i].ident
  BY <1>1, <1>2, <1>5, Alone
<1> HIDE DEF Credential
<1> QED
  BY <1>1, <1>2, <1>3, <1>4, <1>6, <1>7, AddKeeps

(* A claude that starts, and one that logs in, at an add or after it.       *)
LEMMA AdoptsOK ==
    ASSUME IInv, NEW i \in Index, NEW backend \in Backend, Adopts(i, backend)
    PROVE  /\ item' \in [Index -> Cred] /\ DirTypes' /\ dir'[i].ident = dir[i].ident
           /\ \A j \in Index \ {i} : dir'[j] = dir[j] /\ item'[j] = item[j]
           /\ dir[i].ident # Nil /\ Credential(i) = dir[i].ident => Credential(i)' = dir'[i].ident
<1> USE NameAssumption
<1>1. CASE UNCHANGED <<item, dir>>
  BY <1>1 DEF IInv, AccountsTypeOK, DirTypes, Credential
<1>2. CASE Credential(i) = Nil /\ Writes(i, Main, dir[i].ident, backend)
  <2>1. Main \in Cred \ {Nil} /\ dir[i].ident \in User \cup {Nil} /\ AccountsTypeOK
    BY DEF Cred, IInv, AccountsTypeOK, DirState
  <2> QED
    BY <1>2, <2>1, WritesTypes
<1> QED
  BY <1>1, <1>2 DEF Adopts

LEMMA LogsInOK ==
    ASSUME IInv, NEW i \in Index, NEW backend \in Backend, LogsIn(i, backend)
    PROVE  /\ item' \in [Index -> Cred] /\ DirTypes' /\ dir'[i].ident # Nil
           /\ \A j \in Index \ {i} : dir'[j] = dir[j] /\ item'[j] = item[j]
           /\ odd' \subseteq Index /\ \A j \in Index \ {i} : j \in odd' <=> j \in odd
           /\ i \notin odd' => Credential(i)' = dir'[i].ident
<1> USE NameAssumption
<1>1. PICK u \in User :
         /\ Writes(i, u, u, backend)
         /\ odd' = IF backend = "file" /\ item[i] \notin {Nil, u} THEN odd \cup {i} ELSE odd \ {i}
  BY DEF LogsIn
<1>2. u \in Cred \ {Nil} /\ u \in User \cup {Nil} /\ AccountsTypeOK
  BY DEF Cred, IInv
<1>3. /\ item' \in [Index -> Cred] /\ DirTypes' /\ dir'[i].ident = u
      /\ \A j \in Index \ {i} : dir'[j] = dir[j] /\ item'[j] = item[j]
      /\ backend = "item" => item'[i] = u
      /\ backend = "file" => dir'[i].file = u /\ item'[i] = item[i]
  BY <1>1, <1>2, WritesTypes
<1>4. odd' \subseteq Index /\ \A j \in Index \ {i} : j \in odd' <=> j \in odd
  BY <1>1 DEF IInv, AccountsTypeOK
<1>5. backend \in {"item", "file"}
  BY BackendAssumption
<1>6. i \notin odd' => Credential(i)' = u
  BY <1>1, <1>2, <1>3, <1>5 DEF Credential
<1> QED
  BY <1>2, <1>3, <1>4, <1>6

LEMMA LoginKeeps ==
    ASSUME IInv, NEW a \in Adder, StartClaude(a) \/ Login(a) PROVE IInv'
<1> USE NameAssumption
<1>1. add[a].pc = "login" /\ UNCHANGED <<rows, remove, loose, raced, adds, looses, faults>>
  BY DEF StartClaude, Login
<1>2. PICK i \in Index : i = add[a].id
  BY <1>1, AddAt DEF IInv
<1>3. \E f \in AddState : f.pc = "login" /\ f.id = i /\ Becomes(a, f)
  <2>1. \A c \in Backend \cup {"off", "in"} :
           /\ [add[a] EXCEPT !.claude = c] \in AddState
           /\ [add[a] EXCEPT !.claude = c].pc = "login"
           /\ [add[a] EXCEPT !.claude = c].id = i
    BY <1>1, <1>2, AddStates DEF IInv
  <2>2. \E c \in Backend \cup {"off", "in"} : Becomes(a, [add[a] EXCEPT !.claude = c])
    BY DEF StartClaude, Login
  <2> QED
    BY <2>1, <2>2
<1>4. PICK f \in AddState : f.pc = "login" /\ f.id = i /\ Becomes(a, f)
  BY <1>3
<1>5. /\ item' \in [Index -> Cred] /\ DirTypes' /\ odd' \subseteq Index
      /\ \A j \in Index \ {i} : /\ dir'[j] = dir[j] /\ item'[j] = item[j]
                                /\ j \in odd' <=> j \in odd
      /\ i \notin raced /\ i \notin odd' /\ dir'[i].ident # Nil => Credential(i)' = dir'[i].ident
  <2>1. CASE StartClaude(a)
    <3>1. (\E backend \in Backend : Adopts(i, backend)) /\ odd' = odd
      BY <1>2, <2>1 DEF StartClaude
    <3>2. i \notin raced /\ i \notin odd /\ dir[i].ident # Nil => Credential(i) = dir[i].ident
      BY <1>1, <1>2, Alone
    <3>3. odd \subseteq Index
      BY DEF IInv, AccountsTypeOK
    <3> HIDE DEF Credential
    <3> QED
      BY <3>1, <3>2, <3>3, AdoptsOK
  <2>2. CASE Login(a)
    <3>1. \E backend \in Backend : LogsIn(i, backend)
      BY <1>2, <2>2 DEF Login
    <3> HIDE DEF Credential
    <3> QED
      BY <3>1, LogsInOK
  <2> QED
    BY <2>1, <2>2
<1>6. StoreTypes'
  BY <1>1, <1>5 DEF IInv, AccountsTypeOK, StoreTypes
<1>7. i \notin raced => i \notin rows' /\ i \notin loose'
  BY <1>1, <1>2, Alone
<1> HIDE DEF Credential
<1> QED
  BY <1>1, <1>2, <1>4, <1>5, <1>6, <1>7, AddKeeps

LEMMA LooseLoginKeeps == ASSUME IInv, NEW i \in Index, LooseLogin(i) PROVE IInv'
<1> USE NameAssumption
<1>1. /\ i \in loose /\ loose' = loose \ {i}
      /\ UNCHANGED <<rows, add, remove, raced, adds, looses, faults>>
  BY DEF LooseLogin
<1>2. i \notin raced =>
          /\ i \notin rows /\ (\A a \in Adder : add[a].id # i) /\ (\A r \in Remover : remove[r].id # i)
          /\ i \notin odd /\ dir[i].ident # Nil => Credential(i) = dir[i].ident
  BY <1>1 DEF IInv, Sole, Whole
<1>3. /\ item' \in [Index -> Cred] /\ DirTypes' /\ odd' \subseteq Index
      /\ \A j \in Index \ {i} : /\ dir'[j] = dir[j] /\ item'[j] = item[j]
                                /\ j \in odd' <=> j \in odd
      /\ i \notin raced /\ i \notin odd' /\ dir'[i].ident # Nil => Credential(i)' = dir'[i].ident
  <2>1. ASSUME NEW backend \in Backend, Adopts(i, backend), UNCHANGED odd PROVE <1>3!:
    BY <1>2, <2>1, AdoptsOK DEF IInv, AccountsTypeOK
  <2>2. ASSUME NEW backend \in Backend, LogsIn(i, backend) PROVE <1>3!:
    BY <2>2, LogsInOK
  <2> QED
    BY <2>1, <2>2 DEF LooseLogin
<1>4. StoreTypes' /\ AddsTypes' /\ RemovesTypes'
  BY <1>1, <1>3 DEF IInv, AccountsTypeOK, StoreTypes, AddsTypes, RemovesTypes
<1>5. ASSUME NEW j \in Index, j # i PROVE Sole(j)' /\ Whole(j)'
  BY <1>1, <1>3, <1>5, Elsewhere DEF IInv
<1>6. Sole(i)' /\ Whole(i)'
  BY <1>1, <1>2, <1>3 DEF Sole, Whole
<1> QED
  BY <1>3, <1>4, <1>5, <1>6, TypesNext DEF IInv

-----------------------------------------------------------------------------
(* The steps of a remove.                                                   *)
LEMMA RemoveSteps ==
    ASSUME AccountsTypeOK, NEW r \in Remover, NEW f \in RemoveState, f.pc = "idle" <=> f.id = Nil, Go(r, f)
    PROVE  RemovesTypes' /\ remove'[r] = f /\ \A s \in Remover \ {r} : remove'[s] = remove[s]
BY DEF AccountsTypeOK, RemovesTypes, Go

LEMMA RemoveGetKeeps == ASSUME IInv, NEW r \in Remover, RemoveGet(r) PROVE IInv'
<1> USE NameAssumption
<1>1. PICK i \in rows :
         /\ Go(r, [pc |-> "dir", id |-> i])
         /\ raced' = IF Added(i) \/ Removed(i) THEN raced \cup {i} ELSE raced
  BY DEF RemoveGet
<1>2. /\ remove[r].pc = "idle" /\ remove[r].id = Nil /\ i \in Index /\ i # Nil
      /\ UNCHANGED <<rows, dir, item, add, loose, odd, adds, looses, faults>>
  BY <1>1 DEF RemoveGet, IInv, AccountsTypeOK
<1> DEFINE f == [pc |-> "dir", id |-> i]
<1>3. f \in RemoveState /\ f.pc = "dir" /\ f.id = i
  BY <1>2 DEF RemoveState
<1> HIDE DEF f
<1>4. RemovesTypes' /\ remove'[r] = f /\ \A s \in Remover \ {r} : remove'[s] = remove[s]
  BY <1>1, <1>2, <1>3, RemoveSteps DEF IInv, f
<1>5. StoreTypes' /\ DirTypes' /\ AddsTypes'
  BY <1>1, <1>2 DEF IInv, AccountsTypeOK, StoreTypes, DirTypes, AddsTypes
<1>6. ASSUME NEW j \in Index, j # i PROVE Sole(j)' /\ Whole(j)'
  <2>1. \A s \in Remover : remove'[s].id = j \/ remove[s].id = j => remove'[s] = remove[s]
    BY <1>2, <1>3, <1>4, <1>6
  <2> QED
    BY <1>1, <1>2, <1>6, <2>1, Elsewhere DEF IInv
<1>7. Sole(i)' /\ Whole(i)'
  <2> SUFFICES ASSUME i \notin raced' PROVE Sole(i)' /\ Whole(i)'
    BY DEF Sole, Whole
  <2>1. /\ i \notin raced /\ i \notin loose /\ (\A b \in Adder : add[b].id # i)
        /\ \A s \in Remover : remove[s].id # i
    BY <1>1 DEF Added, Removed
  <2>2. Sole(i) /\ Whole(i)
    BY <1>2 DEF IInv
  <2>3. Credential(i)' = Credential(i)
    BY <1>2 DEF Credential
  <2>4. \A s \in Remover : remove'[s].id = i => s = r /\ remove'[s] = f
    BY <1>4, <2>1
  <2> QED
    BY <1>1, <1>2, <1>3, <2>1, <2>2, <2>3, <2>4 DEF Sole, Whole
<1> QED
  BY <1>4, <1>5, <1>6, <1>7, TypesNext DEF IInv

LEMMA RemoveKeeps ==
    ASSUME IInv, NEW r \in Remover, remove[r].pc # "idle", NEW i, i = remove[r].id,
           NEW f \in RemoveState, f.pc = "idle" <=> f.id = Nil, f.id \in {Nil, i}, Go(r, f),
           UNCHANGED <<add, loose, raced>>, StoreTypes', DirTypes',
           \A j \in Index \ {i} : /\ dir'[j] = dir[j] /\ item'[j] = item[j]
                                  /\ j \in rows' <=> j \in rows
                                  /\ j \in odd' <=> j \in odd,
           rows' \subseteq rows, f.id = i => rows' = rows,
           \/ i \notin raced => dir'[i] = NoDir
           \/ UNCHANGED <<dir, item, odd>> /\ f.pc = "idle"
           \/ i \in odd' /\ f.pc = "idle"
    PROVE  IInv'
<1> USE NameAssumption
<1>1. i \in Index /\ i # Nil
  BY DEF IInv, AccountsTypeOK, RemoveState
<1>2. RemovesTypes' /\ remove'[r] = f /\ \A s \in Remover \ {r} : remove'[s] = remove[s]
  BY RemoveSteps DEF IInv
<1>3. AddsTypes'
  BY DEF IInv, AccountsTypeOK, AddsTypes
<1>4. ASSUME NEW j \in Index, j # i PROVE Sole(j)' /\ Whole(j)'
  <2>1. \A s \in Remover : remove'[s].id = j \/ remove[s].id = j => remove'[s] = remove[s]
    BY <1>1, <1>2, <1>4
  <2> QED
    BY <1>4, <2>1, Elsewhere DEF IInv
<1>5. Sole(i)' /\ Whole(i)'
  <2> SUFFICES ASSUME i \notin raced PROVE Sole(i)' /\ Whole(i)'
    BY DEF Sole, Whole
  <2>1. Sole(i) /\ Whole(i)
    BY <1>1 DEF IInv
  <2>2. /\ \A s \in Remover : remove[s].id = i => s = r
        /\ i \in rows /\ i \notin loose /\ \A a \in Adder : add[a].id # i
    BY <2>1 DEF Sole
  <2>3. \A s \in Remover : remove'[s].id = i => s = r /\ remove'[s] = f
    BY <1>2, <2>2
  <2>4. Sole(i)'
    BY <2>1, <2>2, <2>3 DEF Sole
  <2>5. CASE i \notin raced => dir'[i] = NoDir
    <3>1. dir'[i].ident = Nil /\ ~dir'[i].there
      BY <2>5 DEF NoDir
    <3> QED
      BY <2>2, <2>3, <2>4, <2>5, <3>1 DEF Whole
  <2>6. CASE UNCHANGED <<dir, item, odd>> /\ f.pc = "idle"
    <3>1. Credential(i)' = Credential(i)
      BY <2>6 DEF Credential
    <3> QED
      BY <2>1, <2>2, <2>3, <2>4, <2>6, <3>1 DEF Whole
  <2>7. CASE i \in odd' /\ f.pc = "idle"
    BY <2>2, <2>3, <2>4, <2>7 DEF Whole
  <2> QED
    BY <2>4, <2>5, <2>6, <2>7
<1> QED
  BY <1>2, <1>3, <1>4, <1>5, TypesNext DEF IInv

LEMMA RemovingKeeps ==
    ASSUME IInv, NEW r \in Remover,
           RemoveDir(r) \/ RemoveItem(r) \/ RemoveRow(r) \/ RemoveHalf(r) \/ RemoveStops(r)
    PROVE  IInv'
<1> USE NameAssumption
<1>1. remove[r].pc # "idle" /\ UNCHANGED <<add, loose, raced, adds, looses, faults>>
  BY DEF RemoveDir, RemoveItem, RemoveRow, RemoveHalf, RemoveStops
<1>2. PICK i \in Index : i = remove[r].id
  BY <1>1 DEF IInv, AccountsTypeOK, RemoveState
<1>3. RemoveIdle \in RemoveState /\ RemoveIdle.pc = "idle" /\ RemoveIdle.id = Nil
  BY DEF RemoveIdle, RemoveState
<1>4. \A pc \in {"item", "row"} :
         /\ [remove[r] EXCEPT !.pc = pc] \in RemoveState
         /\ [remove[r] EXCEPT !.pc = pc].pc = pc /\ [remove[r] EXCEPT !.pc = pc].id = i
  BY <1>2 DEF IInv, AccountsTypeOK, RemoveState
<1>5. CASE RemoveDir(r)
  <2>1. /\ dir' = [dir EXCEPT ![i] = NoDir] /\ odd' = odd \ {i} /\ UNCHANGED <<item, rows>>
        /\ \E pc \in {"item", "row"} : Go(r, [remove[r] EXCEPT !.pc = pc])
    BY <1>2, <1>5 DEF RemoveDir, RemovedDir, Leaving, RowLeaves
  <2>2. NoDir \in DirState
    BY DEF NoDir, DirState, Cred
  <2>3. DirTypes' /\ dir'[i] = NoDir /\ \A j \in Index \ {i} : dir'[j] = dir[j]
    BY <2>1, <2>2 DEF IInv, AccountsTypeOK, DirTypes
  <2>4. StoreTypes'
    BY <1>1, <2>1 DEF IInv, AccountsTypeOK, StoreTypes
  <2>5. PICK f \in RemoveState : f.pc \in {"item", "row"} /\ f.id = i /\ Go(r, f)
    BY <1>4, <2>1
  <2> QED
    BY <1>1, <1>2, <2>1, <2>3, <2>4, <2>5, RemoveKeeps
<1>6. CASE RemoveItem(r)
  <2>1. /\ item' = [item EXCEPT ![i] = Nil] /\ UNCHANGED <<rows, dir, odd>>
        /\ remove[r].pc = "item" /\ Go(r, [remove[r] EXCEPT !.pc = "row"])
    BY <1>2, <1>6 DEF RemoveItem
  <2>2. StoreTypes' /\ DirTypes' /\ \A j \in Index \ {i} : item'[j] = item[j]
    BY <1>1, <2>1 DEF IInv, AccountsTypeOK, StoreTypes, DirTypes, Cred
  <2>3. PICK f \in RemoveState : f.pc = "row" /\ f.id = i /\ Go(r, f)
    BY <1>4, <2>1
  <2>4. i \notin raced => dir'[i] = NoDir
    BY <1>2, <2>1 DEF IInv, Whole
  <2> QED
    BY <1>1, <1>2, <2>1, <2>2, <2>3, <2>4, RemoveKeeps
<1>7. CASE RemoveRow(r)
  <2>1. /\ rows' = rows \ {i} /\ UNCHANGED <<item, dir, odd>> /\ Go(r, RemoveIdle)
    BY <1>2, <1>7 DEF RemoveRow, Leaving, RowLeaves
  <2>2. StoreTypes' /\ DirTypes'
    BY <1>1, <2>1 DEF IInv, AccountsTypeOK, StoreTypes, DirTypes
  <2> QED
    BY <1>1, <1>2, <1>3, <2>1, <2>2, RemoveKeeps
<1>8. CASE RemoveStops(r)
  <2>1. UNCHANGED <<rows, item, dir, odd>> /\ Go(r, RemoveIdle)
    BY <1>8 DEF RemoveStops
  <2>2. StoreTypes' /\ DirTypes'
    BY <1>1, <2>1 DEF IInv, AccountsTypeOK, StoreTypes, DirTypes
  <2> QED
    BY <1>1, <1>2, <1>3, <2>1, <2>2, RemoveKeeps
<1>9. CASE RemoveHalf(r)
  <2>1. PICK left \in Leavings(i) : dir' = [dir EXCEPT ![i] = left] /\ odd' = odd \cup {i}
    BY <1>2, <1>9 DEF RemoveHalf
  <2>2. UNCHANGED <<rows, item>> /\ Go(r, RemoveIdle)
    BY <1>9 DEF RemoveHalf
  <2>3. left \in DirState /\ (~left.there => left = NoDir)
    BY LeavingsOK DEF IInv
  <2>4. DirTypes' /\ \A j \in Index \ {i} : dir'[j] = dir[j]
    BY <2>1, <2>3 DEF IInv, AccountsTypeOK, DirTypes
  <2>5. /\ StoreTypes' /\ i \in odd' /\ rows' = rows
        /\ \A j \in Index \ {i} : item'[j] = item[j] /\ (j \in odd' <=> j \in odd)
    BY <1>1, <2>1, <2>2 DEF IInv, AccountsTypeOK, StoreTypes
  <2> QED
    BY <1>1, <1>2, <1>3, <2>2, <2>4, <2>5, RemoveKeeps
<1> QED
  BY <1>5, <1>6, <1>7, <1>8, <1>9

-----------------------------------------------------------------------------
LEMMA NextKeeps == IInv /\ [AccountsNext]_accountsVars => IInv'
<1> SUFFICES ASSUME IInv, [AccountsNext]_accountsVars PROVE IInv'
  OBVIOUS
<1>1. CASE UNCHANGED accountsVars
  <2>1. (StoreTypes /\ DirTypes /\ AddsTypes /\ RemovesTypes)'
    BY <1>1, TypesOK DEF IInv, accountsVars, StoreTypes, DirTypes, AddsTypes, RemovesTypes
  <2>2. ASSUME NEW j \in Index PROVE Sole(j)' /\ Whole(j)'
    BY <1>1, Elsewhere DEF IInv, accountsVars
  <2> QED
    BY <2>1, <2>2, TypesNext DEF IInv
<1>2. ASSUME NEW a \in Adder, AddStep(a) PROVE IInv'
  BY <1>2, StopKeeps, AddIndexKeeps, AddSetupKeeps, AddPurgeKeeps, LoginKeeps, AskingKeeps,
     RegisterKeeps, AbandonDirKeeps DEF AddStep
<1>3. ASSUME NEW r \in Remover, RemoveStep(r) PROVE IInv'
  BY <1>3, RemoveGetKeeps, RemovingKeeps DEF RemoveStep
<1>4. ASSUME NEW i \in Index, LooseLogin(i) PROVE IInv'
  BY <1>4, LooseLoginKeeps
<1> QED
  BY <1>1, <1>2, <1>3, <1>4 DEF AccountsNext

LEMMA Invariance == AccountsSpec => []IInv
BY InitIInv, NextKeeps, PTL DEF AccountsSpec

(* Every variable of the specification keeps to its type.                   *)
THEOREM TypeCorrect == AccountsSpec => []AccountsTypeOK
<1>1. IInv => AccountsTypeOK
  BY DEF IInv
<1> QED
  BY <1>1, Invariance, PTL

(* However many adds and removes come and go, fail and are killed: an       *)
(* account has the login its directory shows, and never a copy of plain     *)
(* claude's credential (PrepareAdd, seedClaudeJSON, FinalizeAdd); but for   *)
(* indices that two commands had a hand in, and steps that parted the two.  *)
THEOREM LoginsAreOwn == AccountsSpec => []OwnLogin
<1>1. IInv => OwnLogin
  <2> SUFFICES ASSUME IInv, NEW i \in rows \ (raced \cup odd), dir[i].there
               PROVE  dir[i].ident # Nil /\ Credential(i) = dir[i].ident
    BY DEF OwnLogin
  <2>1. Sole(i) /\ Whole(i)
    BY DEF IInv, AccountsTypeOK
  <2>2. \A a \in Adder : add[a].id # i
    BY <2>1 DEF Sole
  <2> QED
    BY <2>1, <2>2 DEF Whole
<1> QED
  BY <1>1, Invariance, PTL

(* No add prepares, purges or rolls back over an account, and nothing but a *)
(* remove of it touches one (NextAccountIndex, AbandonAdd, Remove).         *)
THEOREM AccountsLeftAlone == AccountsSpec => AccountsStay
<1> DEFINE Stays == \A i \in Index \ raced' :
               dir'[i] # dir[i] \/ item'[i] # item[i] => (i \in rows <=> Removed(i))
<1>1. IInv /\ [AccountsNext]_accountsVars => [Stays]_accountsVars
  <2> SUFFICES ASSUME IInv, AccountsNext PROVE Stays
    OBVIOUS
  <2> SUFFICES ASSUME NEW i \in Index \ raced', dir'[i] # dir[i] \/ item'[i] # item[i]
               PROVE  i \in rows <=> Removed(i)
    OBVIOUS
  <2>1. raced \subseteq raced'
    BY DEF AccountsNext, AddStep, RemoveStep, Stop, AddIndex, AddSetup, AddSeed, AddPurge, StartClaude,
       Login, LoginOver, CheckDuplicate, AddIdentity, AddLocate, Register, AbandonItem, AbandonDir,
       RemoveGet, RemoveDir, RemoveItem, RemoveRow, RemoveHalf, RemoveStops, LooseLogin
  <2>2. Sole(i) /\ i \notin raced
    BY <2>1 DEF IInv
  <2>3. ASSUME NEW a \in Adder, AddStep(a) PROVE add[a].id = i
    <3>1. add[a].pc # "idle" /\ \A j \in Index \ {add[a].id} : dir'[j] = dir[j] /\ item'[j] = item[j]
      <4>1. CASE StartClaude(a) \/ Login(a)
        <5>1. add[a].pc = "login"
          BY <4>1 DEF StartClaude, Login
        <5>2. add[a].id \in Index
          BY <5>1, AddAt DEF IInv
        <5> QED
          BY <4>1, <5>1, <5>2, AdoptsOK, LogsInOK DEF StartClaude, Login
      <4>2. CASE AddSetup(a) \/ AddSeed(a) \/ AddPurge(a) \/ AbandonItem(a) \/ AbandonDir(a)
        BY <4>2 DEF AddSetup, AddSeed, AddPurge, AbandonItem, AbandonDir, RemovedDir, IInv, AccountsTypeOK
      <4>3. CASE \/ Stop(a) \/ AddIndex(a) \/ LoginOver(a) \/ CheckDuplicate(a) \/ AddIdentity(a)
                 \/ AddLocate(a) \/ Register(a)
        BY <4>3 DEF Stop, AddIndex, LoginOver, CheckDuplicate, AddIdentity, AddLocate, Register
      <4> QED
        BY <2>3, <4>1, <4>2, <4>3 DEF AddStep
    <3> QED
      BY <3>1
  <2>4. ASSUME NEW r \in Remover, RemoveStep(r) PROVE remove[r].id = i
    BY <2>4 DEF RemoveStep, RemoveGet, RemoveDir, RemoveItem, RemoveRow, RemoveHalf, RemoveStops, RemovedDir,
       IInv, AccountsTypeOK
  <2>5. ASSUME NEW j \in Index, LooseLogin(j) PROVE i \in loose
    BY <2>5, AdoptsOK, LogsInOK DEF LooseLogin
  <2> QED
    BY <2>2, <2>3, <2>4, <2>5 DEF AccountsNext, Sole, Removed
<1> QED
  BY <1>1, Invariance, PTL DEF AccountsSpec, AccountsStay
===============================================================================
