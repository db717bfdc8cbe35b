-------------------------- MODULE HolderCacheProofs --------------------------
(***************************************************************************)
(* Proofs about HolderCache, for any directories, processes, goroutines    *)
(* and failures: the type invariant, that the cache is right about what    *)
(* the daemon could know, and whom a replacement kills, sweeps and mounts. *)
(***************************************************************************)
EXTENDS HolderCache, TLAPS

USE DEF Sweeping

(* The supervisor is in a pass: it has decided upon something.              *)
Pass == sup.pc \notin {"idle", "tick"}

ReplacePc == {"capture", "shutdown", "sweep", "mark", "gone", "kill", "reaped"}

(* Where workers and the supervisor are, and what they have to do there.    *)
Places ==
    /\ \A w \in Worker : work[w].pc = "idle" <=> work[w].dir = None
    /\ sup.pc = "note" <=> sup.dir # None
    /\ sup.pc \notin {"tick", "verified"} => ask[Sup].pc = "idle"
    /\ sup.pc \in {"idle", "tick"} => sup.carry = {} /\ ~sup.replacing
    /\ sup.pc \in ReplacePc => sup.replacing
    /\ sup.replacing => sup.carry = {} /\ \A w \in Worker : work[w].pc = "idle"
    /\ ~cache.healthy => cache.mounts = Unseen /\ cache.ver = ""

(* Processes are not used twice, and the one that was noted before the      *)
(* Shutdown is being told, or has acknowledged it, if it still owns the     *)
(* socket.                                                                  *)
Retired ==
    /\ owner # None => version[owner] # "none"
    /\ sup.pid # None => version[sup.pid] # "none"
    /\ sup.pc = "kill" => sup.reply
    /\ sup.pc = "sweep" /\ owner = sup.pid /\ owner # None => owner \in going \cup acked
    /\ sup.pc \in {"mark", "gone", "kill"} /\ sup.reply /\ owner = sup.pid /\ owner # None
         => owner \in acked

(* What is known of d by those who are not said to be blind: by the cache,  *)
Vouched(d) ==
    Current(d) => /\ Ready(d) => mirror[d] = "live"
                  /\ cache.ver # "" /\ mirror[d] = "live" => Ready(d)

Based(d) ==
    Cache \notin blind[d] /\ Noter(d) = {} /\ d \in cache.bases /\ row[d] = "none" => Up(d)

(* by an answer that nothing has overtaken,                                 *)
Listing(r, d) ==
    /\ ask[r].pc = "install" /\ r \notin raced /\ r \notin blind[d]
    /\ Noter(d) = {}
    => /\ ~Sweeping => (ask[r].list[d] = "live" <=> mirror[d] = "live")
       /\ ask[r].list[d] # "absent" /\ row[d] = "none" => Up(d)

(* by whoever is about to make a note,                                      *)
Noting(w, d) ==
    work[w].dir = d /\ w \notin blind[d] => (work[w].pc = "mounted" <=> mirror[d] = "live")

SupNoting(d) == sup.dir = d /\ Sup \notin blind[d] => mirror[d] = "live"

(* and by the supervisor's decision.                                        *)
Planned(d) ==
    Pass /\ Plan \notin blind[d] =>
        /\ sup.replacing /\ row[d] = "adding" => mirror[d] # "live"
        /\ d \in sup.carry \ sup.known => row[d] # "symlink" /\ (row[d] = "none" => Up(d))
        /\ d \notin sup.known => \A w \in Worker : work[w].dir # d

(* Who carries nothing is not blind.                                        *)
Carried(d) == \A x \in blind[d] : x \in Carrier(d) \/ x = Plan

Knows(d) ==
    /\ Vouched(d) /\ Based(d) /\ SupNoting(d) /\ Planned(d) /\ Carried(d)
    /\ \A r \in Refresher : Listing(r, d)
    /\ \A w \in Worker : Noting(w, d)

IInv == TypeOK /\ Places /\ Retired /\ \A d \in Dir : Knows(d)

-----------------------------------------------------------------------------
LEMMA Names ==
    /\ Sup \in Refresher /\ Sup \notin Worker /\ Sup \notin Reader /\ Sup # Cache /\ Sup # Plan
    /\ Cache # Plan /\ Cache \notin Refresher /\ Cache \notin Worker
    /\ Plan \notin Refresher /\ Plan \notin Worker /\ Refresher \cap Worker = {}
    /\ None \notin Proc /\ None \notin Dir
BY NameAssumption DEF Refresher

LEMMA Types ==
    ASSUME TypeOK
    PROVE  /\ owner \in Proc \cup {None} /\ version \in [Proc -> Version \cup {"none"}]
           /\ going \subseteq Proc /\ acked \subseteq Proc
           /\ mirror \in [Dir -> {"none", "live", "dead", "carcass"}]
           /\ row \in [Dir -> {"none", "adding", "fuse", "symlink"}]
           /\ cache \in CacheState /\ raced \subseteq Refresher
           /\ ask \in [Refresher -> AskState] /\ work \in [Worker -> WorkState]
           /\ sup \in SupState /\ settled \in Version \cup {""}
           /\ blind \in [Dir -> SUBSET Answer] /\ faults \in Nat
BY DEF TypeOK

LEMMA CacheFields ==
    ASSUME NEW c \in CacheState
    PROVE  /\ c.healthy \in BOOLEAN /\ c.ver \in Version \cup {""} /\ c.mounts \in Seen
           /\ c.bases \subseteq Dir /\ c.ever \in BOOLEAN
BY DEF CacheState

LEMMA AskFields ==
    ASSUME NEW a \in AskState
    PROVE  /\ a.pc \in {"idle", "list", "install", "fail"} /\ a.ver \in Version \cup {""}
           /\ a.list \in Seen
BY DEF AskState

LEMMA WorkFields ==
    ASSUME NEW w \in WorkState
    PROVE  w.pc \in {"idle", "mounted", "unmounted"} /\ w.dir \in Dir \cup {None}
BY DEF WorkState

LEMMA SupFields ==
    ASSUME NEW s \in SupState
    PROVE  /\ s.pc \in SupPc /\ s.carry \subseteq Dir /\ s.known \subseteq Dir
           /\ s.replacing \in BOOLEAN /\ s.pid \in Proc \cup {None} /\ s.reply \in BOOLEAN
           /\ s.dir \in Dir \cup {None}
BY DEF SupState

LEMMA Idles ==
    /\ IdleAsk \in AskState /\ IdleAsk.pc = "idle"
    /\ IdleWork \in WorkState /\ IdleWork.pc = "idle" /\ IdleWork.dir = None
    /\ IdleSup \in SupState /\ IdleSup.pc = "idle" /\ IdleSup.carry = {} /\ ~IdleSup.replacing
    /\ IdleSup.pid = None /\ ~IdleSup.reply /\ IdleSup.dir = None
    /\ Unseen \in Seen /\ \A d \in Dir : Unseen[d] = "absent"
BY DEF IdleAsk, AskState, IdleWork, WorkState, IdleSup, SupState, SupPc, Unseen, Seen

LEMMA NoterEmpty ==
    ASSUME NEW d \in Dir
    PROVE  Noter(d) = {} <=> sup.dir # d /\ \A w \in Worker : work[w].dir # d
BY DEF Noter

LEMMA NoterEmptyNext ==
    ASSUME NEW d \in Dir
    PROVE  Noter(d)' = {} <=> sup'.dir # d /\ \A w \in Worker : work'[w].dir # d
BY DEF Noter

LEMMA CarrierIs ==
    ASSUME NEW d \in Dir, NEW x
    PROVE  x \in Carrier(d) <=> \/ x = Cache
                                \/ x \in Refresher /\ ask[x].pc = "install"
                                \/ x \in Worker /\ work[x].dir = d
                                \/ x = Sup /\ sup.dir = d
                                \/ x = Plan /\ Pass
BY DEF Carrier, Noter, Pass

LEMMA CarrierNext ==
    ASSUME NEW d \in Dir, NEW x
    PROVE  x \in Carrier(d)' <=> \/ x = Cache
                                 \/ x \in Refresher /\ ask'[x].pc = "install"
                                 \/ x \in Worker /\ work'[x].dir = d
                                 \/ x = Sup /\ sup'.dir = d
                                 \/ x = Plan /\ Pass'
BY DEF Carrier, Noter, Pass

LEMMA CarrierAnswer ==
    ASSUME NEW d \in Dir
    PROVE  Carrier(d) \subseteq Answer
BY Names DEF Carrier, Noter, Answer

-----------------------------------------------------------------------------
LEMMA InitIInv == Init => IInv
<1> SUFFICES ASSUME Init PROVE IInv
  OBVIOUS
<1>1. /\ owner \in Proc /\ version = [p \in Proc |-> IF p = owner THEN "old" ELSE "none"]
      /\ going = {} /\ acked = {} /\ row \in [Dir -> {"none", "fuse"}]
      /\ mirror = [d \in Dir |-> IF row[d] = "fuse" THEN "live" ELSE "none"]
      /\ cache = [healthy |-> FALSE, ver |-> "", mounts |-> Unseen, bases |-> {}, ever |-> FALSE]
      /\ raced = {} /\ ask = [r \in Refresher |-> IdleAsk] /\ work = [w \in Worker |-> IdleWork]
      /\ sup = IdleSup /\ settled = "" /\ blind = [d \in Dir |-> {}] /\ faults = 0
  BY DEF Init
<1>2. /\ cache \in CacheState /\ ~cache.healthy /\ cache.mounts = Unseen /\ cache.ver = ""
      /\ cache.bases = {}
  BY <1>1, Idles DEF CacheState
<1>3. TypeOK
  BY <1>1, <1>2, Idles DEF TypeOK, Version
<1>4. Places
  BY <1>1, <1>2, Idles, Names DEF Places, ReplacePc
<1>5. Retired
  BY <1>1, Idles DEF Retired
<1>6. ASSUME NEW d \in Dir PROVE Knows(d)
  <2>1. blind[d] = {} /\ ~Ready(d) /\ d \notin cache.bases /\ ~Pass /\ sup.dir # d
    BY <1>1, <1>2, Idles, Names DEF Ready, Pass
  <2>2. \A w \in Worker : work[w].dir # d
    BY <1>1, Idles, Names
  <2>3. \A r \in Refresher : ask[r].pc = "idle"
    BY <1>1, Idles
  <2> QED
    BY <1>2, <2>1, <2>2, <2>3
    DEF Knows, Vouched, Based, SupNoting, Planned, Carried, Listing, Noting
<1> QED
  BY <1>3, <1>4, <1>5, <1>6 DEF IInv

-----------------------------------------------------------------------------
(* A directory that a step leaves alone.                                    *)
Apart(d) ==
    /\ mirror'[d] = mirror[d] /\ (row'[d] = row[d] \/ row'[d] = "fuse")
    /\ \A w \in Worker : /\ work'[w].dir = d <=> work[w].dir = d
                         /\ work[w].dir = d => work'[w].pc = work[w].pc
    /\ sup'.dir = d <=> sup.dir = d

(* The cache does not say more of it than before.                           *)
CacheApart(d) ==
    /\ Current(d)' => Current(d) \/ (~Ready(d)' /\ cache'.ver = "")
    /\ Ready(d)' => Ready(d)
    /\ cache'.ver # "" => cache.ver # "" /\ (Ready(d) => Ready(d)')
    /\ d \in cache'.bases => d \in cache.bases

(* No answer does.                                                          *)
AsksApart(d) == \A r \in Refresher :
    ask'[r].pc = "install" /\ r \notin raced' =>
        /\ ask[r].pc = "install" /\ r \notin raced /\ ask'[r].list[d] = ask[r].list[d]
        /\ ~Sweeping' => ~Sweeping

(* No decision does.                                                        *)
PlanApart(d) ==
    /\ Pass' => Pass /\ sup'.known = sup.known /\ (d \in sup'.carry => d \in sup.carry)
    /\ sup'.replacing => sup.replacing

LEMMA Elsewhere ==
    ASSUME NEW d \in Dir, Knows(d), Apart(d), CacheApart(d), AsksApart(d), PlanApart(d),
           blind'[d] = blind[d],
           \A x \in blind[d] : x \in Carrier(d) => x \in Carrier(d)' \/ x = Plan
    PROVE  Knows(d)'
<1>1. Noter(d)' = {} <=> Noter(d) = {}
  BY NoterEmpty, NoterEmptyNext DEF Apart
<1>2. Vouched(d)'
  BY DEF Knows, Vouched, Apart, CacheApart
<1>3. Based(d)'
  BY <1>1 DEF Knows, Based, Apart, CacheApart, Up
<1>4. SupNoting(d)'
  BY DEF Knows, SupNoting, Apart
<1>5. Planned(d)'
  BY DEF Knows, Planned, Apart, PlanApart, Up
<1>6. Carried(d)'
  BY DEF Knows, Carried
<1>7. ASSUME NEW r \in Refresher PROVE Listing(r, d)'
  BY <1>1 DEF Knows, Listing, Apart, AsksApart, Up
<1>8. ASSUME NEW w \in Worker PROVE Noting(w, d)'
  BY DEF Knows, Noting, Apart
<1> QED
  BY <1>2, <1>3, <1>4, <1>5, <1>6, <1>7, <1>8 DEF Knows

(* A directory whose change is news to everybody.                           *)
LEMMA Blinded ==
    ASSUME NEW d \in Dir, blind'[d] = Carrier(d)'
    PROVE  Knows(d)'
<1>1. Cache \in blind'[d]
  BY CarrierNext
<1>2. Vouched(d)' /\ Based(d)' /\ Carried(d)'
  BY <1>1 DEF Vouched, Based, Carried, Current
<1>3. SupNoting(d)'
  BY CarrierNext DEF SupNoting
<1>4. Planned(d)'
  BY CarrierNext DEF Planned
<1>5. ASSUME NEW r \in Refresher PROVE Listing(r, d)'
  BY CarrierNext DEF Listing
<1>6. ASSUME NEW w \in Worker PROVE Noting(w, d)'
  BY CarrierNext DEF Noting
<1> QED
  BY <1>2, <1>3, <1>4, <1>5, <1>6 DEF Knows

-----------------------------------------------------------------------------
(* Refreshes.                                                               *)

LEMMA SupStepFields ==
    ASSUME sup \in SupState, NEW pc \in SupPc, SupStep(pc)
    PROVE  /\ sup' \in SupState /\ sup'.pc = pc /\ sup'.carry = sup.carry /\ sup'.known = sup.known
           /\ sup'.replacing = sup.replacing /\ sup'.pid = sup.pid /\ sup'.reply = sup.reply
           /\ sup'.dir = sup.dir
BY DEF SupStep, SupState

LEMMA FaultOK ==
    ASSUME TypeOK, Flawless \/ Fault
    PROVE  faults' \in Nat
<1>1. faults \in Nat
  BY DEF TypeOK
<1> QED
  BY <1>1, SMT DEF Flawless, Fault

(* A step of one refresh after which it carries nothing.                    *)
LEMMA AskFree ==
    ASSUME NEW d \in Dir, NEW r \in Refresher, ask'[r].pc # "install",
           \A q \in Refresher \ {r} : ask'[q] = ask[q], \A q \in raced : q \in raced' \/ q = r,
           ~Sweeping' => ~Sweeping
    PROVE  AsksApart(d)
BY DEF AsksApart

LEMMA AskHealthOK ==
    ASSUME IInv, NEW r \in Refresher, AskHealth(r)
    PROVE  /\ ask' \in [Refresher -> AskState] /\ ask'[r].pc \in {"list", "fail"}
           /\ \A q \in Refresher \ {r} : ask'[q] = ask[q]
           /\ raced' = raced \ {r} /\ faults' \in Nat /\ ask[r].pc = "idle"
<1>1. TypeOK /\ Retired
  BY DEF IInv
<1>2. Serving => version[owner] \in Version
  BY <1>1, Types DEF Retired, Serving
<1> DEFINE health == [IdleAsk EXCEPT !.pc = "list", !.ver = version[owner]]
           fail == [IdleAsk EXCEPT !.pc = "fail"]
<1>3. Serving => health \in AskState /\ health.pc = "list"
  BY <1>2, Idles DEF AskState, IdleAsk
<1>4. fail \in AskState /\ fail.pc = "fail"
  BY Idles DEF AskState, IdleAsk
<1>5. /\ raced' = raced \ {r} /\ faults' \in Nat /\ ask[r].pc = "idle"
      /\ (Serving /\ Step(r, health)) \/ Step(r, fail)
  BY <1>1, FaultOK DEF AskHealth
<1> HIDE DEF health, fail
<1>6. PICK a \in AskState : a.pc \in {"list", "fail"} /\ ask' = [ask EXCEPT ![r] = a]
  BY <1>3, <1>4, <1>5 DEF Step
<1> QED
  BY <1>1, <1>5, <1>6, Types

(* A step that touches only refreshes and the supervisor's place.           *)
LEMMA QuietKeeps ==
    ASSUME IInv, TypeOK', Places', Retired',
           UNCHANGED <<mirror, row, cache, work, blind>>, sup'.dir = sup.dir,
           ~Sweeping' => ~Sweeping,
           \A d \in Dir : AsksApart(d) /\ PlanApart(d),
           \A r \in Refresher : ask[r].pc = "install" => ask'[r].pc = "install"
    PROVE  IInv'
<1> SUFFICES ASSUME NEW d \in Dir PROVE Knows(d)'
  BY DEF IInv
<1>1. Knows(d) /\ Apart(d)
  BY DEF IInv, Apart
<1>2. CacheApart(d)
  BY NoterEmpty, NoterEmptyNext DEF CacheApart, Current, Ready
<1>3. \A x \in blind[d] : x \in Carrier(d) => x \in Carrier(d)' \/ x = Plan
  BY CarrierIs, CarrierNext
<1> QED
  BY <1>1, <1>2, <1>3, Elsewhere

LEMMA RefreshHealthKeeps ==
    ASSUME IInv, NEW r \in Refresher, r # Sup, RefreshHealth(r)
    PROVE  IInv'
<1>1. /\ ask' \in [Refresher -> AskState] /\ ask'[r].pc \in {"list", "fail"}
      /\ \A q \in Refresher \ {r} : ask'[q] = ask[q]
      /\ raced' = raced \ {r} /\ faults' \in Nat /\ ask[r].pc = "idle"
  BY AskHealthOK DEF RefreshHealth
<1>2. UNCHANGED <<holderVars, mirror, row, cache, work, sup, settled, blind>>
  BY DEF RefreshHealth
<1>3. TypeOK'
  BY <1>1, <1>2, Types DEF IInv, TypeOK, holderVars
<1>4. Places' /\ Retired'
  BY <1>1, <1>2, Names DEF IInv, Places, Retired, holderVars
<1>5. \A d \in Dir : AsksApart(d) /\ PlanApart(d)
  <2> TAKE d \in Dir
  <2>1. AsksApart(d)
    BY <1>1, <1>2, AskFree
  <2> QED
    BY <1>2, <2>1 DEF PlanApart, Pass
<1> QED
  BY <1>1, <1>2, <1>3, <1>4, <1>5, QuietKeeps

LEMMA SupAskKeeps ==
    ASSUME IInv, SupTick \/ SupVerify
    PROVE  IInv'
<1>1. /\ AskHealth(Sup) /\ UNCHANGED <<holderVars, mirror, row, cache, work, settled, blind>>
      /\ \/ sup.pc = "idle" /\ SupStep("tick")
         \/ sup.pc = "verify" /\ SupStep("verified")
  BY DEF SupTick, SupVerify
<1>2. /\ ask' \in [Refresher -> AskState] /\ ask'[Sup].pc \in {"list", "fail"}
      /\ \A q \in Refresher \ {Sup} : ask'[q] = ask[q]
      /\ raced' = raced \ {Sup} /\ faults' \in Nat /\ ask[Sup].pc = "idle"
  BY <1>1, AskHealthOK, Names
<1>3. sup \in SupState /\ {"tick", "verified"} \subseteq SupPc
  BY Types DEF IInv, SupPc
<1>4. /\ sup' \in SupState /\ sup'.carry = sup.carry /\ sup'.known = sup.known
      /\ sup'.replacing = sup.replacing /\ sup'.pid = sup.pid /\ sup'.reply = sup.reply
      /\ sup'.dir = sup.dir
      /\ (sup.pc = "idle" /\ sup'.pc = "tick") \/ (sup.pc = "verify" /\ sup'.pc = "verified")
  BY <1>1, <1>3, SupStepFields
<1>5. TypeOK'
  BY <1>1, <1>2, <1>4, Types DEF IInv, TypeOK, holderVars
<1>6. Places' /\ Retired'
  BY <1>1, <1>2, <1>4, Names DEF IInv, Places, Retired, holderVars, ReplacePc
<1>7. \A d \in Dir : AsksApart(d) /\ PlanApart(d)
  <2> TAKE d \in Dir
  <2>1. AsksApart(d)
    BY <1>2, <1>4, AskFree, Names
  <2> QED
    BY <1>4, <2>1 DEF PlanApart, Pass
<1> QED
  BY <1>1, <1>2, <1>4, <1>5, <1>6, <1>7, QuietKeeps, Names

LEMMA RefreshListKeeps ==
    ASSUME IInv, NEW r \in Refresher, RefreshList(r)
    PROVE  IInv'
<1>1. /\ ask[r].pc = "list" /\ TypeOK /\ Places /\ Retired
      /\ UNCHANGED <<holderVars, mirror, row, cacheVars, work, sup, settled>>
  BY DEF RefreshList, IInv
<1>2. CASE Step(r, [IdleAsk EXCEPT !.pc = "fail"]) /\ UNCHANGED blind /\ (Flawless \/ Fault)
  <2> DEFINE fail == [IdleAsk EXCEPT !.pc = "fail"]
  <2>1. fail \in AskState /\ fail.pc = "fail"
    BY Idles DEF AskState, IdleAsk
  <2>2. ask' = [ask EXCEPT ![r] = fail] /\ blind' = blind
    BY <1>2 DEF Step
  <2> HIDE DEF fail
  <2>3. /\ ask' \in [Refresher -> AskState] /\ ask'[r].pc = "fail"
        /\ \A q \in Refresher \ {r} : ask'[q] = ask[q]
    BY <1>1, <2>1, <2>2, Types
  <2>4. TypeOK'
    <3>1. faults' \in Nat
      BY <1>1, <1>2, FaultOK
    <3> QED
      BY <1>1, <2>2, <2>3, <3>1 DEF TypeOK, holderVars, cacheVars
  <2>5. Places' /\ Retired'
    BY <1>1, <2>3, Names DEF Places, Retired, holderVars, cacheVars
  <2>6. \A d \in Dir : AsksApart(d) /\ PlanApart(d)
    <3> TAKE d \in Dir
    <3>1. AsksApart(d)
      BY <1>1, <2>3, AskFree DEF cacheVars
    <3> QED
      BY <1>1, <3>1 DEF PlanApart, Pass
  <2> QED
    BY <1>1, <2>2, <2>3, <2>4, <2>5, <2>6, QuietKeeps DEF cacheVars
<1>3. ASSUME NEW slow \in SUBSET {d \in Dir : mirror[d] = "live"}, faults' \in Nat,
             Step(r, [ask[r] EXCEPT !.pc = "install", !.list = Listed(slow)]),
             blind' = [d \in Dir |-> IF d \in slow THEN blind[d] \cup {r} ELSE blind[d]]
      PROVE  IInv'
  <2> DEFINE a == [ask[r] EXCEPT !.pc = "install", !.list = Listed(slow)]
  <2>1. Listed(slow) \in Seen
    BY DEF Listed, Seen
  <2>2. a \in AskState /\ a.pc = "install" /\ a.list = Listed(slow)
    BY <1>1, <2>1, Types DEF AskState
  <2>3. Step(r, a)
    BY <1>3
  <2> HIDE DEF a
  <2>4. /\ ask' \in [Refresher -> AskState] /\ ask'[r] = a
        /\ \A q \in Refresher \ {r} : ask'[q] = ask[q]
    BY <1>1, <2>2, <2>3, Types DEF Step
  <2>5. blind' \in [Dir -> SUBSET Answer]
    BY <1>1, <1>3, Types DEF Answer
  <2>6. TypeOK'
    BY <1>1, <1>3, <2>4, <2>5 DEF TypeOK, holderVars, cacheVars
  <2>7. Places' /\ Retired'
    BY <1>1, <2>2, <2>4, Names DEF Places, Retired, holderVars, cacheVars
  <2>8. ASSUME NEW d \in Dir PROVE Knows(d)'
    <3>1. Knows(d) /\ (blind'[d] = blind[d] \/ (blind'[d] = blind[d] \cup {r} /\ d \in slow))
          /\ (d \in slow => r \in blind'[d])
      BY <1>3 DEF IInv
    <3>2. r # Cache /\ r # Plan /\ r \notin Worker
      BY Names
    <3>3. Vouched(d)' /\ Based(d)' /\ Planned(d)'
      BY <1>1, <3>1, <3>2
      DEF Knows, Vouched, Based, Planned, Current, Ready, Noter, Pass, Up, cacheVars
    <3>4. SupNoting(d)'
      BY <1>1, <3>1 DEF Knows, SupNoting
    <3>5. Carried(d)'
      BY <1>1, <2>2, <2>4, <3>1, CarrierIs, CarrierNext DEF Knows, Carried, Pass
    <3>6. ASSUME NEW q \in Refresher, q # r PROVE Listing(q, d)'
      BY <1>1, <2>4, <3>1, <3>6 DEF Knows, Listing, Noter, Up, cacheVars
    <3>7. Listing(r, d)'
      <4> SUFFICES ASSUME d \notin slow
                   PROVE  /\ Listed(slow)[d] = "live" <=> mirror[d] = "live"
                          /\ Listed(slow)[d] # "absent" => Up(d)
        BY <1>1, <2>2, <2>4, <3>1 DEF Listing, Up
      <4> QED
        BY <1>1, Types DEF Listed, Up
    <3>8. ASSUME NEW w \in Worker PROVE Noting(w, d)'
      BY <1>1, <3>1, <3>2 DEF Knows, Noting
    <3> QED
      BY <3>3, <3>4, <3>5, <3>6, <3>7, <3>8 DEF Knows
  <2> QED
    BY <2>6, <2>7, <2>8 DEF IInv
<1>4. Flawless \/ Fault => faults' \in Nat
  BY <1>1, FaultOK
<1> QED
  BY <1>2, <1>3, <1>4 DEF RefreshList

(* An amendment overtakes every other refresh.                              *)
LEMMA AskBumped ==
    ASSUME NEW d \in Dir, NEW r,
           \A q \in Refresher \ {r} : ask'[q].pc # "idle" => q \in raced',
           r \in Refresher => ask'[r].pc # "install"
    PROVE  AsksApart(d)
BY DEF AsksApart

LEMMA RefreshFailKeeps ==
    ASSUME IInv, NEW r \in Refresher, RefreshFail(r)
    PROVE  IInv'
<1>1. /\ ask[r].pc = "fail" /\ TypeOK /\ Places /\ Retired
      /\ UNCHANGED <<holderVars, mirror, row, work, sup, settled, blind, faults>>
      /\ ask' = [ask EXCEPT ![r] = IdleAsk]
      /\ raced' = {s \in Refresher : ask[s].pc # "idle"} \ {r}
  BY DEF RefreshFail, IInv, Step
<1>2. /\ ask' \in [Refresher -> AskState] /\ ask'[r].pc = "idle"
      /\ \A q \in Refresher \ {r} : ask'[q] = ask[q]
  BY <1>1, Idles, Types
<1>3. /\ cache' \in CacheState /\ ~cache'.healthy /\ cache'.ver = "" /\ cache'.mounts = Unseen
      /\ cache'.bases = cache.bases
  BY <1>1, Types, Idles DEF RefreshFail, CacheState
<1>4. TypeOK'
  BY <1>1, <1>2, <1>3 DEF TypeOK, holderVars
<1>5. Places' /\ Retired'
  BY <1>1, <1>2, <1>3, Names DEF Places, Retired, holderVars
<1>6. ASSUME NEW d \in Dir PROVE Knows(d)'
  <2>1. Knows(d) /\ Apart(d) /\ PlanApart(d)
    BY <1>1 DEF IInv, Apart, PlanApart, Pass
  <2>2. CacheApart(d)
    BY <1>3 DEF CacheApart, Ready
  <2>3. AsksApart(d)
    BY <1>1, <1>2, AskBumped
  <2>4. \A x \in blind[d] : x \in Carrier(d) => x \in Carrier(d)' \/ x = Plan
    BY <1>1, <1>2, CarrierIs, CarrierNext
  <2> QED
    BY <1>1, <2>1, <2>2, <2>3, <2>4, Elsewhere
<1> QED
  BY <1>4, <1>5, <1>6 DEF IInv

LEMMA RefreshInstallKeeps ==
    ASSUME IInv, NEW r \in Refresher, RefreshInstall(r)
    PROVE  IInv'
<1>1. /\ ask[r].pc = "install" /\ TypeOK /\ Places /\ Retired
      /\ UNCHANGED <<holderVars, mirror, row, work, sup, settled, faults>>
      /\ ask' = [ask EXCEPT ![r] = IdleAsk] /\ raced' = raced \ {r}
  BY DEF RefreshInstall, IInv, Step
<1>2. /\ ask' \in [Refresher -> AskState] /\ ask'[r].pc = "idle"
      /\ \A q \in Refresher \ {r} : ask'[q] = ask[q]
  BY <1>1, Idles, Types
<1>3. ask[r] \in AskState /\ ask[r].list \in Seen /\ ask[r].ver \in Version \cup {""}
  BY <1>1, Types, AskFields
<1>4. r # Cache /\ r # Plan /\ r \notin Worker
  BY Names
<1>5. r = Sup => sup.dir = None
  BY <1>1 DEF Places
<1>6. /\ cache' \in CacheState /\ blind' \in [Dir -> SUBSET Answer]
      /\ ~cache'.healthy => cache'.mounts = Unseen /\ cache'.ver = ""
      /\ \A d \in Dir :
            /\ blind'[d] \subseteq (blind[d] \ {r}) \cup {Cache} /\ blind[d] \subseteq blind'[d] \cup {r, Cache}
            /\ \/ r \in raced /\ cache' = cache /\ (Cache \in blind[d] => Cache \in blind'[d])
               \/ /\ r \notin raced /\ (r \in blind[d] => Cache \in blind'[d])
                  /\ Ready(d)' <=> ask[r].list[d] = "live"
                  /\ d \in cache'.bases => ask[r].list[d] # "absent"
  <2>1. CASE r \in raced
    <3>1. cache' = cache /\ blind' = Forget(r)
      BY <2>1 DEF RefreshInstall
    <3> QED
      BY <1>1, <1>4, <2>1, <3>1, Types DEF Forget, Places
  <2>2. CASE r \notin raced
    <3> DEFINE c == [healthy |-> TRUE, ver |-> ask[r].ver, mounts |-> ask[r].list,
                     bases |-> ListedBases(ask[r].list),
                     ever |-> cache.ever \/ ask[r].list # Unseen]
    <3>1. cache' = c
      BY <2>2 DEF RefreshInstall
    <3>2. blind' = [d \in Dir |-> (IF r \in blind[d] THEN {Cache} ELSE {})
                                           \cup (blind[d] \ {r, Cache})]
      BY <2>2 DEF RefreshInstall
    <3>3. c \in CacheState /\ c.healthy /\ c.mounts = ask[r].list
          /\ c.bases = ListedBases(ask[r].list)
      <4>1. ListedBases(ask[r].list) \in SUBSET Dir /\ (cache.ever \/ ask[r].list # Unseen) \in BOOLEAN
        BY DEF ListedBases
      <4> QED
        BY <1>3, <4>1 DEF CacheState
    <3> HIDE DEF c
    <3>4. blind' \in [Dir -> SUBSET Answer]
      BY <1>1, <3>2, Types DEF Answer
    <3>5. \A d \in Dir : /\ Ready(d)' <=> ask[r].list[d] = "live"
                         /\ d \in cache'.bases => ask[r].list[d] # "absent"
      BY <3>1, <3>3 DEF Ready, ListedBases
    <3> QED
      BY <2>2, <3>1, <3>2, <3>3, <3>4, <3>5
  <2> QED
    BY <2>1, <2>2
<1>7. TypeOK'
  BY <1>1, <1>2, <1>6 DEF TypeOK, holderVars
<1>8. Places' /\ Retired'
  BY <1>1, <1>2, <1>6, Names DEF Places, Retired, holderVars
<1>9. ASSUME NEW d \in Dir PROVE Knows(d)'
  <2>1. Knows(d) /\ (Noter(d)' = {} <=> Noter(d) = {})
    BY <1>1, NoterEmpty, NoterEmptyNext DEF IInv
  <2>2. \A x \in Worker \cup Refresher \cup {Plan} : x # r => (x \in blind'[d] <=> x \in blind[d])
    BY <1>4, <1>6, Names
  <2>3. Vouched(d)' /\ Based(d)'
    <3>1. CASE r \in raced
      <4>1. cache' = cache /\ (Cache \in blind[d] => Cache \in blind'[d])
        BY <1>6, <3>1
      <4> QED
        BY <1>1, <2>1, <4>1 DEF Knows, Vouched, Based, Current, Ready, Up
    <3>2. CASE r \notin raced
      <4>1. /\ r \in blind[d] => Cache \in blind'[d]
            /\ Ready(d)' <=> ask[r].list[d] = "live"
            /\ d \in cache'.bases => ask[r].list[d] # "absent"
        BY <1>6, <3>2
      <4>2. Listing(r, d)
        BY <2>1 DEF Knows
      <4>3. Vouched(d)'
        BY <1>1, <2>1, <3>2, <4>1, <4>2 DEF Vouched, Listing, Current
      <4>4. Based(d)'
        BY <1>1, <2>1, <3>2, <4>1, <4>2 DEF Based, Listing, Up
      <4> QED
        BY <4>3, <4>4
    <3> QED
      BY <3>1, <3>2
  <2>4. SupNoting(d)'
    BY <1>1, <1>5, <2>1, <2>2, Names DEF Knows, SupNoting
  <2>5. Planned(d)'
    BY <1>1, <1>4, <2>1, <2>2 DEF Knows, Planned, Pass, Up
  <2>6. Carried(d)'
    <3>1. \A x \in blind'[d] : x = Cache \/ (x \in blind[d] /\ x # r)
      BY <1>6
    <3> QED
      BY <1>1, <1>2, <2>1, <3>1, CarrierIs, CarrierNext DEF Knows, Carried, Pass
  <2>7. ASSUME NEW q \in Refresher PROVE Listing(q, d)'
    BY <1>1, <1>2, <2>1, <2>2, <2>7 DEF Knows, Listing, Up
  <2>8. ASSUME NEW w \in Worker PROVE Noting(w, d)'
    BY <1>1, <1>4, <2>1, <2>2 DEF Knows, Noting
  <2> QED
    BY <2>3, <2>4, <2>5, <2>6, <2>7, <2>8 DEF Knows
<1> QED
  BY <1>7, <1>8, <1>9 DEF IInv

-----------------------------------------------------------------------------
(* The holder, its mirrors and the command line.                            *)

LEMMA UntoldType ==
    ASSUME TypeOK, NEW dirs, Untold(dirs)
    PROVE  /\ blind' \in [Dir -> SUBSET Answer]
           /\ \A d \in Dir : blind'[d] = IF d \in dirs THEN Carrier(d) ELSE blind[d]
BY CarrierAnswer, Types DEF Untold

(* Changes to mirrors of which nobody is told; the supervisor may move on.  *)
LEMMA UntoldMoves ==
    ASSUME IInv, TypeOK', Places', Retired', NEW dirs, Untold(dirs),
           UNCHANGED <<cacheVars, ask, work>>, sup'.dir = sup.dir, Pass' <=> Pass,
           Sweeping' <=> Sweeping, \A d \in Dir : PlanApart(d),
           \A d \in Dir : d \notin dirs =>
              mirror'[d] = mirror[d] /\ (row'[d] = row[d] \/ row'[d] = "fuse")
    PROVE  IInv'
<1> SUFFICES ASSUME NEW d \in Dir PROVE Knows(d)'
  BY DEF IInv
<1>1. blind'[d] = IF d \in dirs THEN Carrier(d) ELSE blind[d]
  BY UntoldType DEF IInv
<1>2. \A x : x \in Carrier(d)' <=> x \in Carrier(d)
  BY CarrierIs, CarrierNext
<1>3. CASE d \in dirs
  <2>1. blind'[d] = Carrier(d)'
    BY <1>1, <1>2, <1>3
  <2> QED
    BY <2>1, Blinded
<1>4. CASE d \notin dirs
  <2>1. Knows(d) /\ Apart(d)
    BY <1>4 DEF IInv, Apart
  <2>2. CacheApart(d)
    <3>1. Noter(d)' = {} <=> Noter(d) = {}
      BY NoterEmpty, NoterEmptyNext
    <3>2. blind'[d] = blind[d] /\ cache' = cache
      BY <1>1, <1>4 DEF cacheVars
    <3> QED
      BY <3>1, <3>2 DEF CacheApart, Current, Ready
  <2>3. AsksApart(d)
    BY DEF AsksApart, cacheVars
  <2> QED
    BY <1>1, <1>2, <1>4, <2>1, <2>2, <2>3, Elsewhere
<1> QED
  BY <1>3, <1>4

LEMMA UntoldKeeps ==
    ASSUME IInv, TypeOK', Places', Retired', NEW dirs, Untold(dirs),
           UNCHANGED <<cacheVars, ask, work, sup>>,
           \A d \in Dir : d \notin dirs =>
              mirror'[d] = mirror[d] /\ (row'[d] = row[d] \/ row'[d] = "fuse")
    PROVE  IInv'
<1>1. (Pass' <=> Pass) /\ \A d \in Dir : PlanApart(d)
  BY DEF PlanApart, Pass
<1> QED
  BY <1>1, UntoldMoves

LEMMA MirrorsKeep ==
    ASSUME IInv, HolderDies \/ \E d \in Dir : MirrorDies(d)
    PROVE  IInv'
<1>1. TypeOK /\ Places /\ Retired
  BY DEF IInv
<1>2. CASE HolderDies
  <2>1. /\ owner' = None /\ going' \subseteq going /\ acked' \subseteq acked
        /\ Untold({d \in Dir : Up(d)})
        /\ mirror' = [d \in Dir |-> IF mirror[d] = "none" THEN "none" ELSE "carcass"]
        /\ UNCHANGED <<version, row, cacheVars, ask, work, sup, settled>>
        /\ faults' \in Nat
    BY <1>1, <1>2, FaultOK DEF HolderDies, Ends, Orphan
  <2>2. TypeOK'
    BY <1>1, <2>1, UntoldType DEF TypeOK, cacheVars
  <2>3. Places' /\ Retired'
    BY <1>1, <2>1 DEF Places, Retired, cacheVars
  <2>4. \A d \in Dir : ~Up(d) => mirror'[d] = mirror[d] /\ row'[d] = row[d]
    BY <1>1, <2>1, Types DEF Up
  <2> QED
    BY <2>1, <2>2, <2>3, <2>4, UntoldKeeps
<1>3. ASSUME NEW e \in Dir, MirrorDies(e) PROVE IInv'
  <2>1. /\ Untold({e}) /\ mirror' = [mirror EXCEPT ![e] = "dead"] /\ faults' \in Nat
        /\ UNCHANGED <<holderVars, row, cacheVars, ask, work, sup, settled>>
    BY <1>1, <1>3, FaultOK DEF MirrorDies
  <2>2. TypeOK'
    BY <1>1, <2>1, UntoldType DEF TypeOK, cacheVars, holderVars
  <2>3. Places' /\ Retired'
    BY <1>1, <2>1 DEF Places, Retired, cacheVars, holderVars
  <2>4. \A d \in Dir : d \notin {e} => mirror'[d] = mirror[d] /\ row'[d] = row[d]
    BY <1>1, <2>1, Types
  <2> QED
    BY <2>1, <2>2, <2>3, <2>4, UntoldKeeps
<1> QED
  BY <1>2, <1>3

(* A process that is started has not run before.                            *)
LEMMA SpawnOK ==
    ASSUME IInv, Spawn
    PROVE  /\ owner' \in Proc \cup {None} /\ version' \in [Proc -> Version \cup {"none"}]
           /\ owner' # None => version'[owner'] # "none"
           /\ sup.pid # None => version'[sup.pid] # "none"
           /\ owner' = owner \/ owner' # sup.pid
<1>1. TypeOK /\ Retired
  BY DEF IInv
<1>2. CASE owner # None
  BY <1>1, <1>2, Types DEF Spawn, Retired
<1>3. CASE owner = None
  <2>1. PICK p \in Proc, v \in {"ours", "new"} :
           /\ version[p] = "none" /\ owner' = p /\ version' = [version EXCEPT ![p] = v]
    BY <1>3 DEF Spawn
  <2>2. sup.pid \in Proc \cup {None}
    BY <1>1, Types, SupFields
  <2> QED
    BY <1>1, <2>1, <2>2, Names, Types DEF Retired, Version
<1> QED
  BY <1>2, <1>3

LEMMA ProviderSpawnKeeps ==
    ASSUME IInv, ProviderSpawn
    PROVE  IInv'
<1>1. TypeOK /\ Places /\ Retired
  BY DEF IInv
<1>2. /\ UNCHANGED <<going, acked, mirror, row, cacheVars, ask, work, sup, settled, blind, faults>>
      /\ owner' \in Proc \cup {None} /\ version' \in [Proc -> Version \cup {"none"}]
      /\ owner' # None => version'[owner'] # "none"
      /\ sup.pid # None => version'[sup.pid] # "none"
      /\ owner' = owner \/ owner' # sup.pid
  BY SpawnOK DEF ProviderSpawn
<1>3. TypeOK' /\ Places' /\ Retired'
  BY <1>1, <1>2 DEF TypeOK, Places, Retired, cacheVars
<1>4. \A d \in Dir : AsksApart(d) /\ PlanApart(d)
  BY <1>2 DEF AsksApart, PlanApart, Pass, cacheVars
<1> QED
  BY <1>2, <1>3, <1>4, QuietKeeps DEF cacheVars

LEMMA CliKeeps ==
    ASSUME IInv, Cli
    PROVE  IInv'
<1>1. TypeOK /\ Places /\ Retired
  BY DEF IInv
<1>2. ASSUME NEW e \in Dir, AddMount(e) \/ CliRemove(e) PROVE IInv'
  <2>1. /\ Untold({e}) /\ UNCHANGED <<holderVars, cacheVars, ask, work, sup, settled, faults>>
        /\ \E m \in {"live", "none"} : mirror' = [mirror EXCEPT ![e] = m]
        /\ \E k \in {"adding", "none"} : row' = [row EXCEPT ![e] = k]
    BY <1>2 DEF AddMount, CliRemove
  <2>2. /\ mirror' \in [Dir -> {"none", "live", "dead", "carcass"}]
        /\ row' \in [Dir -> {"none", "adding", "fuse", "symlink"}]
        /\ \A d \in Dir : d \notin {e} => mirror'[d] = mirror[d] /\ row'[d] = row[d]
    <3>1. PICK m \in {"live", "none"} : mirror' = [mirror EXCEPT ![e] = m]
      BY <2>1
    <3>2. PICK k \in {"adding", "none"} : row' = [row EXCEPT ![e] = k]
      BY <2>1
    <3>3. /\ mirror \in [Dir -> {"none", "live", "dead", "carcass"}]
          /\ row \in [Dir -> {"none", "adding", "fuse", "symlink"}]
      BY <1>1 DEF TypeOK
    <3> QED
      BY <3>1, <3>2, <3>3
  <2>3. TypeOK'
    <3>1. blind' \in [Dir -> SUBSET Answer]
      BY <1>1, <2>1, UntoldType
    <3>2. UNCHANGED <<holderVars, cacheVars, ask, work, sup, settled, faults>>
      BY <2>1
    <3> QED
      BY <1>1, <2>2, <3>1, <3>2 DEF TypeOK, cacheVars, holderVars
  <2>4. Places' /\ Retired'
    BY <1>1, <2>1 DEF Places, Retired, cacheVars, holderVars
  <2> QED
    BY <2>1, <2>2, <2>3, <2>4, UntoldKeeps
<1>3. ASSUME NEW e \in Dir, AddFinalize(e) PROVE IInv'
  <2>1. /\ UNCHANGED <<holderVars, mirror, cacheVars, ask, work, sup, settled, blind, faults>>
        /\ row' = [row EXCEPT ![e] = "fuse"]
    BY <1>3 DEF AddFinalize
  <2>2. Untold({})
    BY <1>1, <2>1, Types DEF Untold
  <2>3. TypeOK'
    BY <1>1, <2>1 DEF TypeOK, cacheVars, holderVars
  <2>4. Places' /\ Retired'
    BY <1>1, <2>1 DEF Places, Retired, cacheVars, holderVars
  <2>5. \A d \in Dir : mirror'[d] = mirror[d] /\ (row'[d] = row[d] \/ row'[d] = "fuse")
    BY <1>1, <2>1, Types
  <2> QED
    BY <2>1, <2>2, <2>3, <2>4, <2>5, UntoldKeeps
<1> QED
  BY <1>2, <1>3 DEF Cli

-----------------------------------------------------------------------------
(* Workers.                                                                 *)

LEMMA WorkActs ==
    ASSUME IInv, NEW w \in Worker, NEW d \in Dir, NEW pc \in {"mounted", "unmounted"},
           NEW m \in {"live", "none"}, pc = "mounted" <=> m = "live",
           work[w].pc = "idle", ~sup.replacing, mirror' = [mirror EXCEPT ![d] = m],
           Work(w, pc, d), Told(d, w),
           UNCHANGED <<holderVars, row, cacheVars, ask, sup, settled, faults>>
    PROVE  IInv'
<1>1. TypeOK /\ Places /\ Retired
  BY DEF IInv
<1>2. /\ mirror' \in [Dir -> {"none", "live", "dead", "carcass"}] /\ mirror'[d] = m
      /\ \A e \in Dir \ {d} : mirror'[e] = mirror[e]
  BY <1>1, Types
<1>3. /\ work' \in [Worker -> WorkState] /\ work'[w].pc = pc /\ work'[w].dir = d
      /\ \A q \in Worker \ {w} : work'[q] = work[q]
  <2> DEFINE f == [pc |-> pc, dir |-> d]
  <2>1. f \in WorkState /\ f.pc = pc /\ f.dir = d
    BY DEF WorkState
  <2>2. work' = [work EXCEPT ![w] = f]
    BY DEF Work
  <2> HIDE DEF f
  <2> QED
    BY <1>1, <2>1, <2>2, Types
<1>4. work[w].dir = None /\ w # Plan /\ w # Sup /\ w # Cache /\ w \notin Refresher
  BY <1>1, Names DEF Places
<1>5. /\ blind' \in [Dir -> SUBSET Answer] /\ \A e \in Dir \ {d} : blind'[e] = blind[e]
      /\ blind'[d] = (blind[d] \cup ({Plan} \cap Carrier(d)) \cup Noter(d)) \ {w}
  BY <1>1, Types, CarrierAnswer DEF Told, Carrier
<1>6. TypeOK'
  BY <1>1, <1>2, <1>3, <1>5 DEF TypeOK, holderVars, cacheVars
<1>7. Places' /\ Retired'
  <2>1. Retired'
    BY <1>1 DEF Retired, holderVars
  <2>2. \A q \in Worker : work'[q].pc = "idle" <=> work'[q].dir = None
    BY <1>1, <1>3, Names DEF Places
  <2>3. cache' = cache /\ sup' = sup /\ ask' = ask
    BY DEF cacheVars
  <2> QED
    BY <1>1, <2>1, <2>2, <2>3 DEF Places
<1>8. ASSUME NEW e \in Dir, e # d PROVE Knows(e)'
  <2>1. Knows(e) /\ Apart(e)
    BY <1>2, <1>3, <1>4, <1>8, Names DEF IInv, Apart
  <2>2. CacheApart(e)
    BY <1>5, <1>8, <2>1, NoterEmpty, NoterEmptyNext DEF CacheApart, Current, Ready, Apart, cacheVars
  <2>3. AsksApart(e) /\ PlanApart(e)
    BY DEF AsksApart, PlanApart, Pass, cacheVars
  <2>4. \A x \in blind[e] : x \in Carrier(e) => x \in Carrier(e)' \/ x = Plan
    BY <2>1, CarrierIs, CarrierNext DEF Apart
  <2> QED
    BY <1>5, <1>8, <2>1, <2>2, <2>3, <2>4, Elsewhere
<1>9. Knows(d)'
  <2>1. Knows(d) /\ Noter(d)' # {}
    BY <1>3, NoterEmptyNext DEF IInv
  <2>2. Vouched(d)' /\ Based(d)' /\ \A r \in Refresher : Listing(r, d)'
    BY <2>1 DEF Vouched, Based, Listing, Current
  <2>3. SupNoting(d)'
    BY <1>4, <1>5 DEF SupNoting, Noter
  <2>4. Planned(d)'
    BY <1>4, <1>5, CarrierIs DEF Planned, Pass
  <2>5. Carried(d)'
    <3>1. \A x \in blind'[d] : x \in Carrier(d) \/ x = Plan
      BY <1>5, <2>1 DEF Knows, Carried, Carrier
    <3> QED
      BY <1>3, <1>4, <3>1, CarrierIs, CarrierNext DEF Carried, Pass
  <2>6. ASSUME NEW q \in Worker PROVE Noting(q, d)'
    BY <1>2, <1>3, <1>5, <2>6 DEF Noting, Noter
  <2> QED
    BY <2>2, <2>3, <2>4, <2>5, <2>6 DEF Knows
<1> QED
  BY <1>6, <1>7, <1>8, <1>9 DEF IInv

(* A note says of its own directory what it says, and of no other anything. *)
LEMMA NoteOK ==
    ASSUME TypeOK, Places, NEW d \in Dir, NEW mounted \in BOOLEAN,
           IF mounted THEN NoteMounted(d) ELSE NoteUnmounted(d)
    PROVE  /\ cache' \in CacheState /\ cache'.ver = cache.ver
           /\ ~cache'.healthy => cache'.mounts = Unseen /\ cache'.ver = ""
           /\ Ready(d)' <=> mounted
           /\ d \in cache'.bases => mounted /\ d \in cache.bases
           /\ \A e \in Dir \ {d} : (Ready(e)' <=> Ready(e)) /\ (e \in cache'.bases => e \in cache.bases)
           /\ raced' = {r \in Refresher : ask[r].pc # "idle"}
<1>1. /\ cache \in CacheState /\ cache.mounts \in [Dir -> {"absent", "dead", "live"}]
      /\ ~cache.healthy => cache.mounts = Unseen /\ cache.ver = ""
  BY Types, CacheFields DEF Places, Seen
<1>2. raced' = {r \in Refresher : ask[r].pc # "idle"}
  BY DEF NoteMounted, NoteUnmounted, Bump
<1>3. CASE mounted
  <2>1. cache' = [cache EXCEPT !.healthy = TRUE, !.mounts[d] = "live", !.ever = TRUE]
    BY <1>3 DEF NoteMounted
  <2>2. /\ cache' \in CacheState /\ cache'.healthy /\ cache'.ver = cache.ver
        /\ cache'.bases = cache.bases /\ cache'.mounts = [cache.mounts EXCEPT ![d] = "live"]
    BY <1>1, <2>1 DEF CacheState, Seen
  <2>3. \A e \in Dir \ {d} : Ready(e)' <=> Ready(e)
    BY <1>1, <2>2, Idles DEF Ready
  <2>4. Ready(d)'
    BY <1>1, <2>2 DEF Ready
  <2> QED
    BY <1>2, <1>3, <2>2, <2>3, <2>4
<1>4. CASE ~mounted
  <2>1. cache' = [cache EXCEPT !.mounts[d] = "absent", !.bases = @ \ {d}]
    BY <1>4 DEF NoteUnmounted
  <2>2. /\ cache' \in CacheState /\ cache'.healthy = cache.healthy /\ cache'.ver = cache.ver
        /\ cache'.bases = cache.bases \ {d}
        /\ cache'.mounts = [cache.mounts EXCEPT ![d] = "absent"]
    BY <1>1, <2>1 DEF CacheState, Seen
  <2>3. \A e \in Dir \ {d} : Ready(e)' <=> Ready(e)
    BY <1>1, <2>2 DEF Ready
  <2>4. ~Ready(d)'
    BY <1>1, <2>2 DEF Ready
  <2>5. ~cache'.healthy => cache'.mounts = Unseen
    BY <1>1, <2>2 DEF Unseen
  <2> QED
    BY <1>1, <1>2, <1>4, <2>2, <2>3, <2>4, <2>5
<1> QED
  BY <1>3, <1>4

LEMMA WorkNoteKeeps ==
    ASSUME IInv, NEW w \in Worker, WorkNote(w), NEW d \in Dir, work[w].dir = d,
           NEW mounted \in BOOLEAN, mounted <=> work[w].pc = "mounted"
    PROVE  IInv'
<1>1. /\ TypeOK /\ Places /\ Retired /\ work[w].pc # "idle"
      /\ UNCHANGED <<holderVars, mirror, ask, sup, settled, faults>>
      /\ row' = [row EXCEPT ![d] = IF @ = "none" THEN @ ELSE IF mounted THEN "fuse" ELSE "symlink"]
      /\ Inform(d, w) /\ Work(w, "idle", None)
      /\ IF mounted THEN NoteMounted(d) ELSE NoteUnmounted(d)
  BY DEF IInv, WorkNote
<1>2. d \in Dir
  OBVIOUS
<1>3. /\ work' \in [Worker -> WorkState] /\ work'[w].pc = "idle" /\ work'[w].dir = None
      /\ \A q \in Worker \ {w} : work'[q] = work[q]
  <2> DEFINE f == [pc |-> "idle", dir |-> None]
  <2>1. f \in WorkState /\ f.pc = "idle" /\ f.dir = None
    BY DEF WorkState
  <2>2. work' = [work EXCEPT ![w] = f]
    BY <1>1 DEF Work
  <2> HIDE DEF f
  <2> QED
    BY <1>1, <2>1, <2>2, Types
<1>4. w # Plan /\ w # Sup /\ w # Cache /\ w \notin Refresher
  BY Names
<1>5. /\ row' \in [Dir -> {"none", "adding", "fuse", "symlink"}]
      /\ \A e \in Dir \ {d} : row'[e] = row[e]
      /\ row'[d] \in {row[d], "fuse", "symlink"} /\ (row'[d] = "none" <=> row[d] = "none")
      /\ row'[d] # "adding"
  BY <1>1, <1>2, Types
<1>6. /\ blind' \in [Dir -> SUBSET Answer] /\ \A e \in Dir \ {d} : blind'[e] = blind[e]
      /\ blind'[d] = IF w \in blind[d] THEN (blind[d] \cup {Cache}) \ {w} ELSE blind[d] \ {Cache}
  BY <1>1, <1>2, Types DEF Inform, Answer
<1>7. /\ cache' \in CacheState /\ cache'.ver = cache.ver
      /\ ~cache'.healthy => cache'.mounts = Unseen /\ cache'.ver = ""
      /\ Ready(d)' <=> mounted
      /\ d \in cache'.bases => mounted /\ d \in cache.bases
      /\ \A e \in Dir \ {d} : (Ready(e)' <=> Ready(e)) /\ (e \in cache'.bases => e \in cache.bases)
      /\ raced' = {r \in Refresher : ask[r].pc # "idle"}
  BY <1>1, <1>2, NoteOK
<1>8. TypeOK'
  <2>1. raced' \subseteq Refresher
    BY <1>7
  <2> QED
    BY <1>1, <1>3, <1>5, <1>6, <1>7, <2>1 DEF TypeOK, holderVars
<1>9. Places' /\ Retired'
  BY <1>1, <1>3, <1>7 DEF Places, Retired, holderVars
<1>10. ASSUME NEW e \in Dir PROVE AsksApart(e)
  BY <1>1, <1>7, Names, AskBumped
<1>11. ASSUME NEW e \in Dir, e # d PROVE Knows(e)'
  <2>1. Knows(e) /\ Apart(e) /\ PlanApart(e)
    <3>1. mirror'[e] = mirror[e] /\ row'[e] = row[e] /\ sup' = sup
      BY <1>1, <1>5, <1>11
    <3>2. \A q \in Worker : /\ work'[q].dir = e <=> work[q].dir = e
                            /\ work[q].dir = e => work'[q].pc = work[q].pc
      BY <1>3, <1>11, Names
    <3> QED
      BY <3>1, <3>2 DEF IInv, Apart, PlanApart, Pass
  <2>2. CacheApart(e)
    <3>1. Noter(e)' = {} <=> Noter(e) = {}
      BY <2>1, NoterEmpty, NoterEmptyNext DEF Apart
    <3>2. /\ blind'[e] = blind[e] /\ cache'.ver = cache.ver /\ sup' = sup
          /\ Ready(e)' <=> Ready(e)
          /\ e \in cache'.bases => e \in cache.bases
      BY <1>1, <1>6, <1>7, <1>11
    <3> QED
      BY <3>1, <3>2 DEF CacheApart, Current
  <2>3. \A x \in blind[e] : x \in Carrier(e) => x \in Carrier(e)' \/ x = Plan
    BY <1>1, <2>1, CarrierIs, CarrierNext DEF Apart
  <2> QED
    BY <1>6, <1>10, <1>11, <2>1, <2>2, <2>3, Elsewhere
<1>12. Knows(d)'
  <2>1. Knows(d) /\ Noting(w, d)
    BY <1>2 DEF IInv, Knows
  <2>2. Cache \notin blind'[d] => (mounted <=> mirror[d] = "live")
    BY <1>4, <1>6, <2>1 DEF Noting
  <2>3. Vouched(d)' /\ Based(d)'
    BY <1>1, <1>5, <1>7, <2>2 DEF Vouched, Based, Current, Up
  <2>4. SupNoting(d)'
    BY <1>1, <1>4, <1>6, <2>1, Names DEF Knows, SupNoting
  <2>5. Planned(d)'
    BY <1>1, <1>2, <1>3, <1>4, <1>5, <1>6, <2>1, Names DEF Knows, Planned, Pass
  <2>6. Carried(d)'
    <3>1. \A x \in blind'[d] : x = Cache \/ (x \in blind[d] /\ x # w)
      BY <1>6, <2>1 DEF Knows, Carried, Carrier
    <3> QED
      BY <1>1, <1>2, <1>3, <2>1, <3>1, CarrierIs, CarrierNext DEF Knows, Carried, Pass
  <2>7. ASSUME NEW r \in Refresher PROVE Listing(r, d)'
    BY <1>1, <1>7 DEF Listing
  <2>8. ASSUME NEW q \in Worker PROVE Noting(q, d)'
    BY <1>1, <1>2, <1>3, <1>6, <2>1, Names DEF Knows, Noting
  <2> QED
    BY <2>3, <2>4, <2>5, <2>6, <2>7, <2>8 DEF Knows
<1> QED
  BY <1>8, <1>9, <1>11, <1>12 DEF IInv

LEMMA WorkFailKeeps ==
    ASSUME IInv, NEW w \in Worker, WorkFail(w), NEW d \in Dir, work[w].dir = d
    PROVE  IInv'
<1>1. /\ TypeOK /\ Places /\ Retired /\ work[w].pc # "idle" /\ faults' \in Nat
      /\ UNCHANGED <<holderVars, row, cacheVars, ask, sup, settled>>
      /\ mirror' = [mirror EXCEPT ![d] = "none"] /\ Work(w, "idle", None)
      /\ blind' = [blind EXCEPT ![d] = Carrier(d) \ {w}]
  BY FaultOK DEF IInv, WorkFail
<1>2. d \in Dir
  OBVIOUS
<1>3. /\ work' \in [Worker -> WorkState] /\ work'[w].pc = "idle" /\ work'[w].dir = None
      /\ \A q \in Worker \ {w} : work'[q] = work[q]
  <2> DEFINE f == [pc |-> "idle", dir |-> None]
  <2>1. f \in WorkState /\ f.pc = "idle" /\ f.dir = None
    BY DEF WorkState
  <2>2. work' = [work EXCEPT ![w] = f]
    BY <1>1 DEF Work
  <2> HIDE DEF f
  <2> QED
    BY <1>1, <2>1, <2>2, Types
<1>4. w # Plan /\ w # Sup /\ w # Cache /\ w \notin Refresher
  BY Names
<1>5. /\ blind' \in [Dir -> SUBSET Answer] /\ \A e \in Dir \ {d} : blind'[e] = blind[e]
      /\ blind'[d] = Carrier(d) \ {w}
  BY <1>1, <1>2, CarrierAnswer, Types
<1>6. /\ mirror' \in [Dir -> {"none", "live", "dead", "carcass"}]
      /\ \A e \in Dir \ {d} : mirror'[e] = mirror[e]
  BY <1>1, <1>2, Types
<1>7. TypeOK'
  BY <1>1, <1>3, <1>5, <1>6 DEF TypeOK, holderVars, cacheVars
<1>8. Places' /\ Retired'
  BY <1>1, <1>3 DEF Places, Retired, holderVars, cacheVars
<1>9. ASSUME NEW e \in Dir, e # d PROVE Knows(e)'
  <2>1. Knows(e) /\ Apart(e) /\ PlanApart(e) /\ AsksApart(e)
    <3>1. /\ mirror'[e] = mirror[e] /\ row' = row /\ sup' = sup /\ ask' = ask
          /\ raced' = raced
      BY <1>1, <1>6, <1>9 DEF cacheVars
    <3>2. \A q \in Worker : /\ work'[q].dir = e <=> work[q].dir = e
                            /\ work[q].dir = e => work'[q].pc = work[q].pc
      BY <1>3, <1>9, Names
    <3> QED
      BY <3>1, <3>2 DEF IInv, Apart, PlanApart, AsksApart, Pass
  <2>2. CacheApart(e)
    <3>1. Noter(e)' = {} <=> Noter(e) = {}
      BY <2>1, NoterEmpty, NoterEmptyNext DEF Apart
    <3>2. blind'[e] = blind[e] /\ cache' = cache /\ sup' = sup
      BY <1>1, <1>5, <1>9 DEF cacheVars
    <3> QED
      BY <3>1, <3>2 DEF CacheApart, Current, Ready
  <2>3. \A x \in blind[e] : x \in Carrier(e) => x \in Carrier(e)' \/ x = Plan
    BY <1>1, <2>1, CarrierIs, CarrierNext DEF Apart
  <2> QED
    BY <1>5, <1>9, <2>1, <2>2, <2>3, Elsewhere
<1>10. Knows(d)'
  <2>1. \A x : x \in Carrier(d)' <=> x \in Carrier(d) /\ x # w
    BY <1>1, <1>2, <1>3, <1>4, CarrierIs, CarrierNext, Names DEF Pass
  <2>2. blind'[d] = Carrier(d)'
    BY <1>5, <2>1
  <2> QED
    BY <1>2, <2>2, Blinded
<1> QED
  BY <1>7, <1>8, <1>9, <1>10 DEF IInv

LEMMA WorkerKeeps ==
    ASSUME IInv, NEW w \in Worker, WorkerStep(w)
    PROVE  IInv'
<1>1. ASSUME NEW d \in Dir, WorkMount(w, d) PROVE IInv'
  BY <1>1, WorkActs DEF WorkMount, Free
<1>2. ASSUME NEW d \in Dir, WorkUnmount(w, d) PROVE IInv'
  BY <1>2, WorkActs DEF WorkUnmount, Free
<1>3. ASSUME WorkNote(w) \/ WorkFail(w) PROVE IInv'
  <2>1. work[w].dir \in Dir
    BY <1>3, Types, WorkFields DEF IInv, Places, WorkNote, WorkFail
  <2>2. PICK d \in Dir : work[w].dir = d
    BY <2>1
  <2>3. PICK mounted \in BOOLEAN : mounted <=> work[w].pc = "mounted"
    OBVIOUS
  <2> QED
    BY <1>3, <2>2, <2>3, WorkNoteKeeps, WorkFailKeeps
<1> QED
  BY <1>1, <1>2, <1>3 DEF WorkerStep

-----------------------------------------------------------------------------
(* The supervisor.                                                          *)

(* It moves on within its pass, or ends it, and looks at nothing.           *)
LEMMA SupMoves ==
    ASSUME IInv, TypeOK', Places', Retired',
           UNCHANGED <<mirror, row, cacheVars, ask, work, blind>>, sup'.dir = sup.dir,
           Pass, ~Sweeping' => ~Sweeping,
           Pass' => sup'.known = sup.known /\ sup'.carry = sup.carry,
           sup'.replacing => sup.replacing
    PROVE  IInv'
<1>1. \A d \in Dir : AsksApart(d) /\ PlanApart(d)
  BY DEF AsksApart, PlanApart, cacheVars
<1> QED
  BY <1>1, QuietKeeps DEF cacheVars

LEMMA SupMovesKeep ==
    ASSUME IInv, \/ SupSpawn \/ SupVerified \/ SupDone
                 \/ ReplaceCapture \/ ReplaceGone \/ ReplaceReaped
    PROVE  IInv'
<1>1. TypeOK /\ Places /\ Retired /\ sup \in SupState
  BY Types DEF IInv
<1>2. UNCHANGED <<going, acked, mirror, row, cacheVars, ask, work, blind>>
  BY DEF SupSpawn, SupVerified, SupDone, ReplaceCapture, ReplaceGone, ReplaceReaped, holderVars
<1>3. {"verify", "remount", "shutdown", "spawn", "kill"} \subseteq SupPc
  BY DEF SupPc
<1>4. /\ sup' \in SupState /\ sup'.dir = None /\ sup.dir = None
      /\ Pass /\ ~Sweeping /\ ~Sweeping' /\ sup'.pc # "note"
      /\ ask[Sup].pc = "idle" \/ sup'.pc = "verified"
      /\ \/ sup'.pc = "idle" /\ sup'.carry = {} /\ ~sup'.replacing /\ sup'.pid = None
         \/ /\ sup'.known = sup.known /\ sup'.carry = sup.carry /\ sup'.replacing = sup.replacing
            /\ sup'.pc # "idle" /\ sup'.pc # "tick" /\ sup'.reply = sup.reply
            /\ \/ sup'.pid = sup.pid /\ sup'.pc \in {"verify", "remount", "spawn"}
               \/ sup'.pid = sup.pid /\ sup'.pc = "kill" /\ sup.pc = "gone" /\ sup.reply
               \/ sup'.pid = owner /\ sup'.pc = "shutdown" /\ sup.pc = "capture"
  <2>1. CASE SupEnds /\ Pass /\ sup.dir = None /\ ask[Sup].pc = "idle" /\ ~Sweeping
    BY <2>1, Idles DEF SupEnds
  <2>2. ASSUME Pass, sup.dir = None, ask[Sup].pc = "idle", ~Sweeping,
               NEW pc \in {"verify", "remount", "spawn"}, SupStep(pc)
        PROVE  <1>4!:
    BY <1>1, <1>3, <2>2, SupStepFields
  <2>3. CASE SupSpawn
    BY <1>1, <2>1, <2>2, <2>3 DEF SupSpawn, Pass, Places
  <2>4. CASE SupVerified
    BY <1>1, <2>1, <2>2, <2>4 DEF SupVerified, Pass, Places
  <2>5. CASE SupDone
    BY <1>1, <2>1, <2>5 DEF SupDone, Pass, Places
  <2>6. CASE ReplaceCapture
    <3>1. /\ sup' = [sup EXCEPT !.pc = "shutdown", !.pid = owner] /\ sup.pc = "capture"
          /\ owner \in Proc \cup {None}
      BY <1>1, <2>6, Types DEF ReplaceCapture
    <3>2. /\ sup' \in SupState /\ sup'.pc = "shutdown" /\ sup'.pid = owner
          /\ sup'.known = sup.known /\ sup'.carry = sup.carry /\ sup'.replacing = sup.replacing
          /\ sup'.reply = sup.reply /\ sup'.dir = sup.dir
      BY <1>1, <1>3, <3>1 DEF SupState
    <3> QED
      BY <1>1, <3>1, <3>2 DEF Pass, Places
  <2>7. CASE ReplaceGone
    <3>1. Pass /\ sup.pc = "gone" /\ sup.dir = None /\ ask[Sup].pc = "idle"
      BY <1>1, <2>7 DEF ReplaceGone, Pass, Places
    <3>2. ASSUME SupStep("kill"), sup.reply PROVE <1>4!:
      BY <1>1, <1>3, <3>1, <3>2, SupStepFields
    <3> QED
      BY <2>1, <2>2, <2>7, <3>1, <3>2 DEF ReplaceGone
  <2>8. CASE ReplaceReaped
    BY <1>1, <2>1, <2>2, <2>8 DEF ReplaceReaped, Pass, Places
  <2> QED
    BY <2>3, <2>4, <2>5, <2>6, <2>7, <2>8
<1>5. /\ owner' \in Proc \cup {None} /\ version' \in [Proc -> Version \cup {"none"}]
      /\ owner' # None => version'[owner'] # "none"
      /\ sup.pid # None => version'[sup.pid] # "none"
      /\ ~SupSpawn => UNCHANGED <<owner, version>>
      /\ settled' \in Version \cup {""} /\ faults' \in Nat
  <2>1. CASE SupSpawn
    <3>1. Spawn \/ UNCHANGED <<owner, version>>
      BY <2>1 DEF SupSpawn
    <3>2. settled' = settled /\ faults' \in Nat
      BY <1>1, <2>1, FaultOK DEF SupSpawn
    <3> QED
      BY <1>1, <2>1, <3>1, <3>2, SpawnOK, Types DEF Retired
  <2>2. CASE ~SupSpawn
    <3>1. UNCHANGED <<owner, version, faults>>
      BY <2>2 DEF SupVerified, SupDone, ReplaceCapture, ReplaceGone, ReplaceReaped, holderVars
    <3>2. settled' \in {settled, "", cache.ver}
      BY <2>2 DEF SupVerified, SupDone, ReplaceCapture, ReplaceGone, ReplaceReaped
    <3> QED
      BY <1>1, <2>2, <3>1, <3>2, Types, CacheFields DEF Retired
  <2> QED
    BY <2>1, <2>2
<1>6. TypeOK'
  BY <1>1, <1>2, <1>4, <1>5 DEF TypeOK, cacheVars
<1>7. Places'
  <2>1. sup.replacing => sup.carry = {} /\ \A w \in Worker : work[w].pc = "idle"
    BY <1>1 DEF Places
  <2>2. sup'.pc \in ReplacePc => sup.pc \in ReplacePc /\ sup'.replacing
    BY <1>1, <1>4 DEF Places, ReplacePc
  <2>3. sup'.pc # "verified" => ask'[Sup].pc = "idle"
    BY <1>2, <1>4
  <2> QED
    BY <1>1, <1>2, <1>4, <2>1, <2>2, <2>3 DEF Places, cacheVars
<1>8. Retired'
  <2>1. /\ sup'.pid # None => version'[sup'.pid] # "none"
        /\ sup'.pc = "kill" => sup'.reply
    <3>1. CASE sup'.pid = owner /\ sup'.pc = "shutdown" /\ sup.pc = "capture"
      <4>1. ~SupSpawn
        BY <3>1 DEF SupSpawn
      <4> QED
        BY <1>1, <1>5, <3>1, <4>1 DEF Retired
    <3>2. CASE sup'.pid \in {sup.pid, None}
      BY <1>4, <1>5, <3>2
    <3> QED
      BY <1>4, <3>1, <3>2
  <2>2. ASSUME sup'.pc = "kill", owner' = sup'.pid, owner' # None PROVE owner' \in acked'
    <3>1. sup'.pid = sup.pid /\ sup.pc = "gone" /\ sup.reply
      BY <1>4, <2>2
    <3>2. ~SupSpawn
      BY <3>1 DEF SupSpawn
    <3> QED
      BY <1>1, <1>2, <1>5, <2>2, <3>1, <3>2 DEF Retired
  <2>3. sup'.pc # "gone"
    BY <1>4
  <2> QED
    BY <1>1, <1>2, <1>4, <1>5, <2>1, <2>2, <2>3 DEF Retired
<1> QED
  BY <1>2, <1>4, <1>6, <1>7, <1>8, SupMoves DEF Pass

(* What it decides upon it knows of from the cache.                         *)
LEMMA SupDecideKeeps ==
    ASSUME IInv, SupDecide
    PROVE  IInv'
<1>1. /\ TypeOK /\ Places /\ Retired /\ sup \in SupState /\ cache \in CacheState
      /\ sup.pc = "tick" /\ ask[Sup].pc = "idle"
      /\ UNCHANGED <<holderVars, mirror, row, cacheVars, ask, work, settled, faults>>
  BY Types DEF IInv, SupDecide
<1>2. sup.carry = {} /\ ~sup.replacing /\ sup.dir = None /\ ~Pass
  BY <1>1 DEF Places, Pass
<1>3. CASE SupEnds /\ UNCHANGED blind
  <2>1. sup' = IdleSup
    BY <1>3 DEF SupEnds
  <2>2. TypeOK' /\ Places' /\ Retired'
    <3>1. TypeOK'
      BY <1>1, <1>3, <2>1, Idles DEF TypeOK, holderVars, cacheVars
    <3>2. Places' /\ Retired'
      BY <1>1, <2>1, Idles DEF Places, Retired, ReplacePc, holderVars, cacheVars
    <3> QED
      BY <3>1, <3>2
  <2>3. \A d \in Dir : AsksApart(d) /\ PlanApart(d)
    BY <1>1, <2>1, Idles DEF AsksApart, PlanApart, Pass, cacheVars
  <2> QED
    BY <1>1, <1>2, <1>3, <2>1, <2>2, <2>3, Idles, QuietKeeps DEF cacheVars
<1>4. CASE ~(SupEnds /\ UNCHANGED blind)
  <2>1. /\ blind' = [d \in Dir |-> IF Current(d) THEN blind[d] \ {Plan} ELSE blind[d] \cup {Plan}]
        /\ \/ sup' = [sup EXCEPT !.pc = "spawn", !.carry = cache.bases, !.known = Rows]
           \/ cache.ver # "" /\ sup' = [sup EXCEPT !.pc = "remount", !.known = Rows]
           \/ /\ cache.ver # "" /\ GateOpen
              /\ sup' = [sup EXCEPT !.pc = "capture", !.known = Rows, !.replacing = TRUE]
    BY <1>4 DEF SupDecide, Replaces
  <2>2. /\ sup' \in SupState /\ sup'.known = Rows /\ sup'.dir = sup.dir /\ sup'.pid = sup.pid
        /\ \/ sup'.pc = "spawn" /\ sup'.carry = cache.bases /\ ~sup'.replacing
           \/ sup'.pc = "remount" /\ sup'.carry = {} /\ ~sup'.replacing
           \/ /\ sup'.pc = "capture" /\ sup'.carry = {} /\ sup'.replacing
              /\ cache.ver # "" /\ GateOpen
    <3>1. Rows \subseteq Dir /\ cache.bases \subseteq Dir
      BY <1>1, CacheFields DEF Rows
    <3>2. {"spawn", "remount", "capture"} \subseteq SupPc
      BY DEF SupPc
    <3> QED
      BY <1>1, <1>2, <2>1, <3>1, <3>2 DEF SupState
  <2>3. ASSUME NEW d \in Dir
        PROVE  /\ blind'[d] = IF Current(d) THEN blind[d] \ {Plan} ELSE blind[d] \cup {Plan}
               /\ \A x : x # Plan => (x \in blind'[d] <=> x \in blind[d])
               /\ blind'[d] \subseteq Answer
    <3>1. blind[d] \subseteq Answer /\ Plan \in Answer
      BY <1>1, Types DEF Answer
    <3> QED
      BY <2>1, <3>1
  <2>4. TypeOK'
    <3>1. blind' \in [Dir -> SUBSET Answer]
      BY <2>1, <2>3
    <3> QED
      BY <1>1, <2>2, <3>1 DEF TypeOK, holderVars, cacheVars
  <2>5. Places' /\ Retired'
    <3>1. Places'
      BY <1>1, <1>2, <2>2 DEF Places, ReplacePc, GateOpen, cacheVars
    <3>2. Retired'
      BY <1>1, <2>2 DEF Retired, holderVars
    <3> QED
      BY <3>1, <3>2
  <2>6. ASSUME NEW d \in Dir PROVE Knows(d)'
    <3>1. Knows(d)
      BY DEF IInv
    <3>2. /\ UNCHANGED <<mirror, row, cache, raced, ask, work>> /\ sup'.dir = sup.dir
          /\ ~Sweeping
      BY <1>1, <2>2 DEF cacheVars
    <3>3. Noter(d)' = {} <=> Noter(d) = {}
      BY <3>2, NoterEmpty, NoterEmptyNext
    <3>4. Cache \in blind'[d] <=> Cache \in blind[d]
      BY <2>3, Names
    <3>5. Vouched(d)'
      BY <3>1, <3>2, <3>3, <3>4 DEF Knows, Vouched, Current, Ready
    <3>6. Based(d)'
      BY <3>1, <3>2, <3>3, <3>4 DEF Knows, Based, Up
    <3>7. SupNoting(d)'
      BY <1>2, <3>2, Names DEF SupNoting
    <3>8. Planned(d)'
      <4> SUFFICES ASSUME Plan \notin blind'[d] PROVE Planned(d)'
        BY DEF Planned
      <4>1. Current(d)
        BY <2>3
      <4>2. \A w \in Worker : work'[w].dir # d
        BY <3>2, <4>1, NoterEmpty DEF Current
      <4>3. sup'.replacing /\ row'[d] = "adding" => mirror'[d] # "live"
        <5> SUFFICES ASSUME sup'.pc = "capture", row[d] = "adding", mirror[d] = "live" PROVE FALSE
          BY <2>2, <3>2
        <5>1. Ready(d) /\ GateOpen
          BY <2>2, <3>1, <4>1 DEF Knows, Vouched
        <5> QED
          BY <5>1 DEF Ready, GateOpen, MountDirs, Rows
      <4>4. d \in sup'.carry \ sup'.known => row'[d] # "symlink" /\ (row'[d] = "none" => Up(d)')
        BY <2>2, <3>1, <3>2, <4>1 DEF Knows, Based, Current, Rows, Up
      <4> QED
        BY <4>2, <4>3, <4>4 DEF Planned
    <3>9. Carried(d)'
      <4>1. ASSUME NEW x, x \in blind'[d], x # Plan PROVE x \in Carrier(d)
        BY <2>3, <3>1, <4>1 DEF Knows, Carried
      <4>2. ASSUME NEW x, x \in Carrier(d), x # Plan PROVE x \in Carrier(d)'
        BY <3>2, <4>2, CarrierIs, CarrierNext
      <4> QED
        BY <4>1, <4>2 DEF Carried
    <3>10. ASSUME NEW r \in Refresher PROVE Listing(r, d)'
      <4>1. r \in blind'[d] <=> r \in blind[d]
        BY <2>3, Names
      <4> QED
        BY <3>1, <3>2, <3>3, <4>1 DEF Knows, Listing, Up
    <3>11. ASSUME NEW w \in Worker PROVE Noting(w, d)'
      <4>1. w \in blind'[d] <=> w \in blind[d]
        BY <2>3, Names
      <4> QED
        BY <3>1, <3>2, <4>1 DEF Knows, Noting
    <3> QED
      BY <3>5, <3>6, <3>7, <3>8, <3>9, <3>10, <3>11 DEF Knows
  <2> QED
    BY <2>4, <2>5, <2>6 DEF IInv
<1> QED
  BY <1>3, <1>4

(* It mounts: it will amend the cache, though its own decision is blind now.*)
LEMMA SupRemountKeeps ==
    ASSUME IInv, NEW d \in Dir, SupRemount(d)
    PROVE  IInv'
<1>1. /\ TypeOK /\ Places /\ Retired /\ sup \in SupState /\ sup.pc = "remount"
      /\ mirror' = [mirror EXCEPT ![d] = "live"]
      /\ sup' = [sup EXCEPT !.pc = "note", !.dir = d] /\ Told(d, Sup)
      /\ UNCHANGED <<holderVars, row, cacheVars, ask, work, settled, faults>>
  BY Types DEF IInv, SupRemount
<1>2. /\ mirror' \in [Dir -> {"none", "live", "dead", "carcass"}] /\ mirror'[d] = "live"
      /\ \A e \in Dir \ {d} : mirror'[e] = mirror[e]
  BY <1>1, Types
<1>3. /\ sup' \in SupState /\ sup'.pc = "note" /\ sup'.dir = d /\ sup'.known = sup.known
      /\ sup'.carry = sup.carry /\ sup'.replacing = sup.replacing /\ sup'.pid = sup.pid
      /\ sup'.reply = sup.reply
  BY <1>1 DEF SupState, SupPc
<1>4. sup.dir = None /\ ask[Sup].pc = "idle" /\ Pass /\ Pass'
  BY <1>1, <1>3 DEF Places, Pass, ReplacePc
<1>5. /\ blind' \in [Dir -> SUBSET Answer] /\ \A e \in Dir \ {d} : blind'[e] = blind[e]
      /\ blind'[d] = (blind[d] \cup ({Plan} \cap Carrier(d)) \cup Noter(d)) \ {Sup}
  BY <1>1, Types, CarrierAnswer DEF Told, Carrier
<1>6. TypeOK'
  BY <1>1, <1>2, <1>3, <1>5 DEF TypeOK, holderVars, cacheVars
<1>7. Places' /\ Retired'
  <2>1. Retired'
    BY <1>1, <1>3 DEF Retired, holderVars
  <2>2. cache' = cache /\ work' = work /\ ask' = ask
    BY <1>1 DEF cacheVars
  <2> QED
    BY <1>1, <1>3, <1>4, <2>1, <2>2, Names DEF Places, ReplacePc
<1>8. ASSUME NEW e \in Dir, e # d PROVE Knows(e)'
  <2>1. Knows(e) /\ Apart(e)
    <3>1. mirror'[e] = mirror[e] /\ row' = row /\ work' = work /\ sup'.dir # e /\ sup.dir # e
      BY <1>1, <1>2, <1>3, <1>4, <1>8, Names
    <3> QED
      BY <3>1 DEF IInv, Apart
  <2>2. CacheApart(e)
    <3>1. Noter(e)' = {} <=> Noter(e) = {}
      BY <2>1, NoterEmpty, NoterEmptyNext DEF Apart
    <3>2. /\ blind'[e] = blind[e] /\ cache' = cache /\ ~Sweeping
      BY <1>1, <1>5, <1>8 DEF cacheVars
    <3> QED
      BY <3>1, <3>2 DEF CacheApart, Current, Ready
  <2>3. AsksApart(e) /\ PlanApart(e)
    BY <1>1, <1>3, <1>4 DEF AsksApart, PlanApart, cacheVars
  <2>4. \A x \in blind[e] : x \in Carrier(e) => x \in Carrier(e)' \/ x = Plan
    BY <1>1, <2>1, CarrierIs, CarrierNext DEF Apart
  <2> QED
    BY <1>5, <1>8, <2>1, <2>2, <2>3, <2>4, Elsewhere
<1>9. Knows(d)'
  <2>1. Knows(d) /\ Noter(d)' # {}
    BY <1>3, NoterEmptyNext DEF IInv
  <2>2. Vouched(d)' /\ Based(d)' /\ \A r \in Refresher : Listing(r, d)'
    BY <2>1 DEF Vouched, Based, Listing, Current
  <2>3. SupNoting(d)'
    BY <1>2 DEF SupNoting
  <2>4. Plan \in blind'[d]
    BY <1>4, <1>5, CarrierIs, Names
  <2>5. Planned(d)'
    BY <2>4 DEF Planned
  <2>6. Carried(d)'
    <3>1. ASSUME NEW x, x \in blind'[d], x # Plan PROVE x \in Carrier(d) /\ x # Sup
      BY <1>5, <2>1, <3>1 DEF Knows, Carried, Carrier
    <3>2. ASSUME NEW x, x \in Carrier(d), x # Sup, x # Plan PROVE x \in Carrier(d)'
      BY <1>1, <3>2, CarrierIs, CarrierNext
    <3> QED
      BY <3>1, <3>2 DEF Carried
  <2>7. ASSUME NEW w \in Worker PROVE Noting(w, d)'
    BY <1>1, <1>5, <2>7, Names DEF Noting, Noter
  <2> QED
    BY <2>2, <2>3, <2>5, <2>6, <2>7 DEF Knows
<1> QED
  BY <1>6, <1>7, <1>8, <1>9 DEF IInv

LEMMA SupNoteKeeps ==
    ASSUME IInv, SupNote, NEW d \in Dir, sup.dir = d
    PROVE  IInv'
<1>1. /\ TypeOK /\ Places /\ Retired /\ sup \in SupState /\ sup.pc = "note"
      /\ NoteMounted(d) /\ Inform(d, Sup)
      /\ sup' = [sup EXCEPT !.pc = "remount", !.dir = None, !.carry = @ \ {d}]
      /\ UNCHANGED <<holderVars, mirror, row, ask, work, settled, faults>>
  BY Types DEF IInv, SupNote
<1>2. d \in Dir /\ d # None
  BY Names
<1>3. /\ sup' \in SupState /\ sup'.pc = "remount" /\ sup'.dir = None /\ sup'.known = sup.known
      /\ sup'.carry = sup.carry \ {d} /\ sup'.replacing = sup.replacing /\ sup'.pid = sup.pid
      /\ sup'.reply = sup.reply
  BY <1>1 DEF SupState, SupPc
<1>4. ask[Sup].pc = "idle" /\ Pass /\ Pass'
  BY <1>1, <1>3 DEF Places, Pass
<1>5. /\ blind' \in [Dir -> SUBSET Answer] /\ \A e \in Dir \ {d} : blind'[e] = blind[e]
      /\ blind'[d] = IF Sup \in blind[d] THEN (blind[d] \cup {Cache}) \ {Sup}
                                         ELSE blind[d] \ {Cache}
  BY <1>1, <1>2, Types DEF Inform, Answer
<1>6. /\ cache' \in CacheState /\ cache'.ver = cache.ver
      /\ ~cache'.healthy => cache'.mounts = Unseen /\ cache'.ver = ""
      /\ Ready(d)' /\ (d \in cache'.bases => d \in cache.bases)
      /\ \A e \in Dir \ {d} : (Ready(e)' <=> Ready(e)) /\ (e \in cache'.bases => e \in cache.bases)
      /\ raced' = {r \in Refresher : ask[r].pc # "idle"}
  <2>1. IF TRUE THEN NoteMounted(d) ELSE NoteUnmounted(d)
    BY <1>1
  <2> QED
    BY <1>1, <1>2, <2>1, NoteOK
<1>7. TypeOK'
  <2>1. raced' \subseteq Refresher
    BY <1>6
  <2> QED
    BY <1>1, <1>3, <1>5, <1>6, <2>1 DEF TypeOK, holderVars
<1>8. Places' /\ Retired'
  <2>1. Places'
    BY <1>1, <1>3, <1>4, <1>6 DEF Places, ReplacePc
  <2>2. Retired'
    BY <1>1, <1>3 DEF Retired, holderVars
  <2> QED
    BY <2>1, <2>2
<1>9. ASSUME NEW e \in Dir PROVE AsksApart(e)
  BY <1>1, <1>4, <1>6, Names, AskBumped
<1>10. ASSUME NEW e \in Dir, e # d PROVE Knows(e)'
  <2>1. Knows(e) /\ Apart(e)
    <3>1. UNCHANGED <<mirror, row, work>> /\ sup'.dir # e /\ sup.dir # e
      BY <1>1, <1>3, <1>10, Names
    <3> QED
      BY <3>1 DEF IInv, Apart
  <2>2. PlanApart(e)
    BY <1>3, <1>4 DEF PlanApart
  <2>3. CacheApart(e)
    <3>1. Noter(e)' = {} <=> Noter(e) = {}
      BY <2>1, NoterEmpty, NoterEmptyNext DEF Apart
    <3>2. /\ blind'[e] = blind[e] /\ cache'.ver = cache.ver /\ ~Sweeping
          /\ Ready(e)' <=> Ready(e)
          /\ e \in cache'.bases => e \in cache.bases
      BY <1>1, <1>5, <1>6, <1>10
    <3> QED
      BY <3>1, <3>2 DEF CacheApart, Current
  <2>4. \A x \in blind[e] : x \in Carrier(e) => x \in Carrier(e)' \/ x = Plan
    BY <1>1, <2>1, CarrierIs, CarrierNext DEF Apart
  <2> QED
    BY <1>5, <1>9, <1>10, <2>1, <2>2, <2>3, <2>4, Elsewhere
<1>11. Knows(d)'
  <2>1. Knows(d) /\ SupNoting(d)
    BY <1>2 DEF IInv, Knows
  <2>2. Cache \notin blind'[d] => mirror[d] = "live"
    BY <1>5, <2>1, Names DEF SupNoting
  <2>3. Vouched(d)' /\ Based(d)'
    BY <1>1, <1>6, <2>2 DEF Vouched, Based, Current, Up
  <2>4. SupNoting(d)'
    BY <1>2, <1>3 DEF SupNoting
  <2>5. Planned(d)'
    <3>1. Plan \in blind'[d] <=> Plan \in blind[d]
      BY <1>5, Names
    <3> QED
      BY <1>1, <1>3, <1>4, <2>1, <3>1 DEF Knows, Planned
  <2>6. Carried(d)'
    <3>1. ASSUME NEW x, x \in blind'[d], x # Plan, x # Cache PROVE x \in Carrier(d) /\ x # Sup
      BY <1>5, <2>1, <3>1, Names DEF Knows, Carried
    <3>2. ASSUME NEW x, x \in Carrier(d), x # Sup, x # Plan PROVE x \in Carrier(d)'
      BY <1>1, <3>2, CarrierIs, CarrierNext
    <3>3. Cache \in Carrier(d)'
      BY CarrierNext
    <3> QED
      BY <3>1, <3>2, <3>3 DEF Carried
  <2>7. ASSUME NEW r \in Refresher PROVE Listing(r, d)'
    BY <1>1, <1>6 DEF Listing
  <2>8. ASSUME NEW w \in Worker PROVE Noting(w, d)'
    <3>1. w \in blind'[d] <=> w \in blind[d]
      BY <1>5, Names
    <3> QED
      BY <1>1, <2>1, <3>1 DEF Knows, Noting
  <2> QED
    BY <2>3, <2>4, <2>5, <2>6, <2>7, <2>8 DEF Knows
<1> QED
  BY <1>7, <1>8, <1>10, <1>11 DEF IInv

-----------------------------------------------------------------------------
(* A replacement.                                                           *)

LEMMA ShutdownKeeps ==
    ASSUME IInv, ReplaceShutdown \/ ReplaceReply
    PROVE  IInv'
<1>1. /\ TypeOK /\ Places /\ Retired /\ sup \in SupState /\ sup.pc \in {"shutdown", "sweep"}
      /\ UNCHANGED <<owner, version, acked, mirror, row, cacheVars, ask, work, settled, blind>>
      /\ {"sweep", "mark"} \subseteq SupPc
  BY Types DEF IInv, ReplaceShutdown, ReplaceReply, holderVars, SupPc
<1>2. /\ sup.replacing /\ sup.carry = {} /\ sup.dir = None /\ ask[Sup].pc = "idle" /\ Pass
      /\ \A w \in Worker : work[w].pc = "idle"
  BY <1>1 DEF Places, Pass, ReplacePc
<1>3. /\ sup' \in SupState /\ sup'.pc \in {"sweep", "mark"} /\ sup'.known = sup.known
      /\ sup'.carry = sup.carry /\ sup'.replacing = sup.replacing /\ sup'.pid = sup.pid
      /\ sup'.dir = sup.dir
  <2>1. CASE SupStep("sweep")
    BY <1>1, <2>1, SupStepFields
  <2>2. CASE \E reply \in BOOLEAN : sup' = [sup EXCEPT !.pc = "mark", !.reply = reply]
    BY <1>1, <2>2 DEF SupState
  <2> QED
    BY <2>1, <2>2 DEF ReplaceShutdown, ReplaceReply
<1>4. Places'
  BY <1>1, <1>2, <1>3 DEF Places, ReplacePc, cacheVars
<1>5. TypeOK'
  <2>1. Flawless \/ Fault
    BY DEF ReplaceShutdown, ReplaceReply
  <2>2. going' = going \/ (Serving /\ going' = going \cup {owner})
    BY DEF ReplaceShutdown, ReplaceReply, holderVars
  <2>3. going' \subseteq Proc
    <3>1. going \subseteq Proc /\ (Serving => owner \in Proc)
      BY <1>1, Types DEF Serving
    <3> QED
      BY <2>2, <3>1
  <2> QED
    BY <1>1, <1>3, <2>1, <2>3, FaultOK DEF TypeOK, cacheVars
<1>6. Retired'
  <2>1. CASE ReplaceShutdown
    <3>1. CASE SupStep("sweep") /\ going' = going \cup {owner}
      <4>1. sup'.pc = "sweep"
        BY <1>1, <3>1, SupStepFields
      <4> QED
        BY <1>1, <1>3, <3>1, <4>1 DEF Retired
    <3>2. CASE sup' = [sup EXCEPT !.pc = "mark", !.reply = FALSE]
      <4>1. sup'.pc = "mark" /\ ~sup'.reply
        BY <1>1, <3>2 DEF SupState
      <4> QED
        BY <1>1, <1>3, <4>1 DEF Retired
    <3> QED
      BY <2>1, <3>1, <3>2 DEF ReplaceShutdown
  <2>2. CASE ReplaceReply
    <3>1. PICK reply \in BOOLEAN :
             /\ reply => owner \notin going
             /\ sup' = [sup EXCEPT !.pc = "mark", !.reply = reply]
      BY <2>2 DEF ReplaceReply
    <3>2. sup'.pc = "mark" /\ sup'.reply = reply /\ sup.pc = "sweep"
      BY <1>1, <2>2, <3>1 DEF SupState, ReplaceReply
    <3> QED
      BY <1>1, <1>3, <3>1, <3>2 DEF Retired
  <2> QED
    BY <2>1, <2>2
<1> QED
  BY <1>1, <1>2, <1>3, <1>4, <1>5, <1>6, SupMoves

(* The sweep takes what the holder has: rows, of which the mark will tell   *)
(* if the supervisor still waits, and what has no row, of which nobody is   *)
(* told.                                                                    *)
LEMMA SweepKeeps ==
    ASSUME IInv, HolderSweeps
    PROVE  IInv'
<1>1. /\ TypeOK /\ Places /\ Retired /\ sup \in SupState
      /\ owner \in going /\ going' = going \ {owner} /\ acked' = acked \cup {owner}
      /\ UNCHANGED <<owner, version, row, cacheVars, ask, work, sup, settled>>
  BY Types DEF IInv, HolderSweeps
<1>2. mirror' \in [Dir -> {"none", "live", "dead", "carcass"}]
  BY DEF HolderSweeps
<1>3. Untold(Dir \ Rows) \/ Untold(Dir)
  BY DEF HolderSweeps
<1>4. TypeOK'
  <2>1. blind' \in [Dir -> SUBSET Answer]
    BY <1>1, <1>3, UntoldType
  <2>2. faults' \in Nat
    BY <1>1, FaultOK DEF HolderSweeps
  <2>3. going' \subseteq Proc /\ acked' \subseteq Proc
    BY <1>1, Types
  <2> QED
    BY <1>1, <1>2, <2>1, <2>2, <2>3 DEF TypeOK, cacheVars
<1>5. Places' /\ Retired'
  BY <1>1 DEF Places, Retired, cacheVars
<1>6. CASE ~Sweeping
  <2>1. Untold(Dir)
    BY <1>6 DEF HolderSweeps
  <2> HIDE DEF Sweeping
  <2> QED
    BY <1>1, <1>4, <1>5, <2>1, UntoldKeeps
<1>7. CASE Sweeping
  <2>1. /\ sup.replacing /\ sup.carry = {} /\ sup.dir = None /\ Pass
        /\ \A w \in Worker : work[w].dir = None
    BY <1>1, <1>7 DEF Places, Pass, ReplacePc
  <2>2. Untold(Dir \ Rows) /\ Pass'
    BY <1>1, <1>7, <2>1 DEF HolderSweeps, Pass
  <2>3. ASSUME NEW d \in Dir, NEW x PROVE x \in Carrier(d)' <=> x \in Carrier(d)
    BY <1>1, CarrierIs, CarrierNext DEF Pass
  <2>4. ASSUME NEW d \in Dir, d \notin Rows PROVE Knows(d)'
    <3>1. blind'[d] = Carrier(d)'
      BY <2>2, <2>3, <2>4 DEF Untold
    <3> QED
      BY <3>1, Blinded
  <2>5. ASSUME NEW d \in Dir, d \in Rows PROVE Knows(d)'
    <3>1. /\ Knows(d) /\ blind'[d] = blind[d] /\ row'[d] # "none" /\ row'[d] # "adding"
          /\ work' = work /\ ask' = ask /\ sup' = sup /\ Sweeping' /\ d # None
      BY <1>1, <1>7, <2>2, <2>5, Names DEF IInv, Untold, Rows
    <3>2. Vouched(d)' /\ Based(d)' /\ SupNoting(d)'
      BY <2>1, <3>1 DEF Vouched, Based, SupNoting, Current
    <3>3. Planned(d)'
      BY <2>1, <3>1 DEF Planned
    <3>4. Carried(d)'
      BY <2>3, <3>1 DEF Knows, Carried
    <3>5. ASSUME NEW r \in Refresher PROVE Listing(r, d)'
      BY <3>1 DEF Listing
    <3>6. ASSUME NEW w \in Worker PROVE Noting(w, d)'
      BY <2>1, <3>1 DEF Noting
    <3> QED
      BY <3>2, <3>3, <3>4, <3>5, <3>6 DEF Knows
  <2> QED
    BY <1>4, <1>5, <2>4, <2>5 DEF IInv
<1> QED
  BY <1>6, <1>7

LEMMA MarkKeeps ==
    ASSUME IInv, ReplaceMark
    PROVE  IInv'
<1>1. /\ TypeOK /\ Places /\ Retired /\ sup \in SupState /\ cache \in CacheState
      /\ sup.pc = "mark" /\ MarkUnhealthy /\ SupStep("gone")
      /\ UNCHANGED <<holderVars, mirror, row, ask, work, settled, blind, faults>>
  BY Types DEF IInv, ReplaceMark
<1>2. /\ sup' \in SupState /\ sup'.pc = "gone" /\ sup'.carry = sup.carry /\ sup'.known = sup.known
      /\ sup'.replacing = sup.replacing /\ sup'.pid = sup.pid /\ sup'.reply = sup.reply
      /\ sup'.dir = sup.dir
  BY <1>1, SupStepFields DEF SupPc
<1>3. /\ cache' \in CacheState /\ ~cache'.healthy /\ cache'.ver = "" /\ cache'.mounts = Unseen
      /\ cache'.bases = cache.bases
      /\ raced' = {r \in Refresher : ask[r].pc # "idle"}
  BY <1>1, Idles DEF MarkUnhealthy, Bump, CacheState
<1>4. TypeOK'
  <2>1. raced' \subseteq Refresher
    BY <1>3
  <2> QED
    BY <1>1, <1>2, <1>3, <2>1 DEF TypeOK, holderVars
<1>5. Places' /\ Retired'
  <2>1. Places'
    BY <1>1, <1>2, <1>3 DEF Places, ReplacePc
  <2>2. Retired'
    BY <1>1, <1>2 DEF Retired, holderVars
  <2> QED
    BY <2>1, <2>2
<1>6. ASSUME NEW d \in Dir PROVE Knows(d)'
  <2>1. Knows(d) /\ Apart(d) /\ PlanApart(d)
    BY <1>1, <1>2 DEF IInv, Apart, PlanApart, Pass
  <2>2. CacheApart(d)
    BY <1>3 DEF CacheApart, Ready
  <2>3. AsksApart(d)
    BY <1>1, <1>3, Names, AskBumped
  <2>4. \A x \in blind[d] : x \in Carrier(d) => x \in Carrier(d)' \/ x = Plan
    BY <1>1, <1>2, CarrierIs, CarrierNext
  <2> QED
    BY <1>1, <2>1, <2>2, <2>3, <2>4, Elsewhere
<1> QED
  BY <1>4, <1>5, <1>6 DEF IInv

LEMMA KillKeeps ==
    ASSUME IInv, ReplaceKill
    PROVE  IInv'
<1>1. /\ TypeOK /\ Places /\ Retired /\ sup \in SupState /\ sup.pc = "kill"
      /\ UNCHANGED <<version, row, cacheVars, ask, work, settled, faults>>
  BY Types DEF IInv, ReplaceKill
<1>2. /\ sup.replacing /\ sup.dir = None /\ ask[Sup].pc = "idle" /\ Pass /\ sup.reply
      /\ {"reaped", "spawn"} \subseteq SupPc
  BY <1>1 DEF Places, Retired, Pass, ReplacePc, SupPc
<1>3. CASE KillTarget # None
  <2>1. /\ owner' = None /\ going' \subseteq going /\ acked' \subseteq acked /\ SupStep("reaped")
        /\ Untold({d \in Dir : Up(d)})
        /\ mirror' = [d \in Dir |-> IF mirror[d] = "none" THEN "none" ELSE "carcass"]
    BY <1>3 DEF ReplaceKill, Ends, Orphan
  <2>2. /\ sup' \in SupState /\ sup'.pc = "reaped" /\ sup'.carry = sup.carry
        /\ sup'.known = sup.known /\ sup'.replacing = sup.replacing /\ sup'.pid = sup.pid
        /\ sup'.reply = sup.reply /\ sup'.dir = sup.dir
    BY <1>1, <1>2, <2>1, SupStepFields
  <2>3. TypeOK'
    <3>1. blind' \in [Dir -> SUBSET Answer]
      BY <1>1, <2>1, UntoldType
    <3>2. mirror' \in [Dir -> {"none", "live", "dead", "carcass"}]
      BY <2>1
    <3> QED
      BY <1>1, <2>1, <2>2, <3>1, <3>2 DEF TypeOK, cacheVars
  <2>4. Places' /\ Retired'
    <3>1. Places'
      BY <1>1, <1>2, <2>2 DEF Places, ReplacePc, cacheVars
    <3>2. Retired'
      BY <1>1, <2>1, <2>2 DEF Retired
    <3> QED
      BY <3>1, <3>2
  <2>5. \A d \in Dir : d \notin {e \in Dir : Up(e)} => mirror'[d] = mirror[d] /\ row'[d] = row[d]
    BY <1>1, <2>1, Types DEF Up
  <2>6. /\ Pass' <=> Pass
        /\ Sweeping' <=> Sweeping
        /\ \A d \in Dir : PlanApart(d)
    BY <1>1, <1>2, <2>2 DEF Pass, PlanApart
  <2> QED
    BY <1>1, <2>1, <2>2, <2>3, <2>4, <2>5, <2>6, UntoldMoves
<1>4. CASE KillTarget = None
  <2>1. UNCHANGED <<owner, going, acked, mirror, blind>> /\ (SupStep("spawn") \/ SupEnds)
    BY <1>4 DEF ReplaceKill
  <2>2. /\ sup' \in SupState /\ sup'.dir = sup.dir /\ sup'.pc \in {"spawn", "idle"}
        /\ \/ sup'.pc = "idle" /\ sup'.carry = {} /\ ~sup'.replacing /\ sup'.pid = None
           \/ /\ sup'.pc = "spawn" /\ sup'.known = sup.known /\ sup'.carry = sup.carry
              /\ sup'.replacing = sup.replacing /\ sup'.pid = sup.pid
    <3>1. CASE SupStep("spawn")
      BY <1>1, <1>2, <3>1, SupStepFields
    <3>2. CASE SupEnds
      BY <1>2, <3>2, Idles DEF SupEnds
    <3> QED
      BY <2>1, <3>1, <3>2
  <2>3. TypeOK' /\ Places' /\ Retired'
    <3>1. TypeOK'
      BY <1>1, <2>1, <2>2 DEF TypeOK, cacheVars
    <3>2. Places'
      BY <1>1, <1>2, <2>2 DEF Places, ReplacePc, cacheVars
    <3>3. Retired'
      BY <1>1, <2>1, <2>2 DEF Retired
    <3> QED
      BY <3>1, <3>2, <3>3
  <2> QED
    BY <1>1, <1>2, <2>1, <2>2, <2>3, SupMoves DEF Pass
<1> QED
  BY <1>3, <1>4

-----------------------------------------------------------------------------
LEMMA NextKeeps ==
    ASSUME IInv, [Next]_vars
    PROVE  IInv'
<1>1. ASSUME NEW r \in Refresher, Refresh(r) PROVE IInv'
  BY <1>1, RefreshHealthKeeps, RefreshListKeeps, RefreshFailKeeps, RefreshInstallKeeps DEF Refresh
<1>2. ASSUME Supervise PROVE IInv'
  <2>1. CASE SupTick \/ SupVerify
    BY <2>1, SupAskKeeps
  <2>2. CASE SupDecide
    BY <2>2, SupDecideKeeps
  <2>3. ASSUME NEW d \in Dir, SupRemount(d) PROVE IInv'
    BY <2>3, SupRemountKeeps
  <2>4. CASE SupNote
    <3>1. sup.dir \in Dir
      BY <2>4, Types, SupFields DEF IInv, Places, SupNote
    <3>2. PICK d \in Dir : sup.dir = d
      BY <3>1
    <3> QED
      BY <2>4, <3>2, SupNoteKeeps
  <2>5. CASE SupSpawn \/ SupVerified \/ SupDone
    BY <2>5, SupMovesKeep
  <2> QED
    BY <1>2, <2>1, <2>2, <2>3, <2>4, <2>5 DEF Supervise
<1>3. ASSUME Replace PROVE IInv'
  BY <1>3, SupMovesKeep, ShutdownKeeps, MarkKeeps, KillKeeps DEF Replace
<1>4. CASE UNCHANGED vars
  <2>1. UNCHANGED <<mirror, row, cacheVars, ask, work, sup, blind>> /\ TypeOK' /\ Places' /\ Retired'
    BY <1>4 DEF IInv, TypeOK, Places, Retired, vars, holderVars, cacheVars
  <2>2. \A d \in Dir : AsksApart(d) /\ PlanApart(d)
    BY <2>1 DEF AsksApart, PlanApart, Pass, cacheVars
  <2> QED
    BY <2>1, <2>2, QuietKeeps DEF cacheVars
<1> QED
  BY <1>1, <1>2, <1>3, <1>4, WorkerKeeps, CliKeeps, MirrorsKeep, ProviderSpawnKeeps, SweepKeeps
  DEF Next, Holder, Environment

(* The invariant that the theorems rest on.                                 *)
LEMMA Invariance == Spec => []IInv
<1>1. Init => IInv
  BY InitIInv
<1>2. IInv /\ [Next]_vars => IInv'
  BY NextKeeps
<1> QED
  BY <1>1, <1>2, PTL DEF Spec

(* The cache, the answers, the workers and the supervisor keep their types. *)
THEOREM TypeCorrect == Spec => []TypeOK
<1>1. IInv => TypeOK
  BY DEF IInv
<1> QED
  BY <1>1, Invariance, PTL

(* No answer brings back into the cache a mirror that the daemon has taken  *)
(* down: holderState.gen.                                                   *)
THEOREM VouchesTruly == Spec => []NoFalseVouch
<1>1. IInv => NoFalseVouch
  BY DEF IInv, Knows, Vouched, NoFalseVouch
<1> QED
  BY <1>1, Invariance, PTL

(* No answer takes away the note of a mount: holderState.gen, noteMounted.  *)
THEOREM MissesNothing == Spec => []NoLostMount
<1>1. IInv => NoLostMount
  BY DEF IInv, Knows, Vouched, NoLostMount
<1> QED
  BY <1>1, Invariance, PTL

(* A replacement kills none but the process it has told to shut down:       *)
(* reapWedgedHolder, KillPid.                                               *)
THEOREM KillsTheTold == Spec => KillsOnlyRetired
<1>1. ASSUME IInv, ReplaceKill, owner' # owner PROVE owner \in acked
  BY <1>1, Names DEF IInv, Retired, Places, ReplaceKill, KillTarget
<1>2. IInv /\ [Next]_vars => [ReplaceKill /\ owner' # owner => owner \in acked]_vars
  BY <1>1
<1> QED
  BY <1>2, Invariance, PTL DEF Spec, KillsOnlyRetired

(* While it is replaced a holder takes down the mirror of an add only where *)
(* skewReplaceGate could not know of it.                                    *)
THEOREM AddsAreSpared == Spec => SparesAdds
<1>1. ASSUME IInv, HolderSweeps, sup.replacing, NEW d \in Dir, row[d] = "adding",
             mirror[d] = "live"
      PROVE  Plan \in blind[d]
  BY <1>1 DEF IInv, Knows, Places, Planned, Pass
<1>2. IInv /\ [Next]_vars =>
        [HolderSweeps /\ sup.replacing =>
           \A d \in Dir : row[d] = "adding" /\ mirror[d] = "live" /\ mirror'[d] = "none"
             => Plan \in blind[d]]_vars
  BY <1>1
<1> QED
  BY <1>2, Invariance, PTL DEF Spec, SparesAdds

(* A revive brings back no directory whose end the daemon could know of:    *)
(* bases, noteUnmounted, remountCarriedDirs.                                *)
THEOREM NothingResurrected == Spec => NoResurrection
<1>1. ASSUME IInv, NEW d \in Dir, SupRemount(d)
      PROVE  row[d] \in {"adding", "fuse"} \/ Up(d) \/ Plan \in blind[d]
  <2>1. CASE d \in sup.known \cap FuseRows
    BY <2>1 DEF FuseRows
  <2>2. CASE d \in sup.carry \ sup.known
    <3>1. Planned(d) /\ Pass /\ row[d] \in {"none", "adding", "fuse", "symlink"}
      BY <1>1, Types DEF IInv, Knows, Pass, SupRemount
    <3> QED
      BY <2>2, <3>1 DEF Planned
  <2> QED
    BY <1>1, <2>1, <2>2 DEF SupRemount
<1>2. IInv /\ [Next]_vars =>
        [\A d \in Dir : SupRemount(d) =>
            row[d] \in {"adding", "fuse"} \/ Up(d) \/ Plan \in blind[d]]_vars
  BY <1>1
<1> QED
  BY <1>2, Invariance, PTL DEF Spec, NoResurrection
==============================================================================
