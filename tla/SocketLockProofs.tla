--------------------------- MODULE SocketLockProofs ---------------------------
(***************************************************************************)
(* Proofs about SocketLock, for any number of daemons, versions, command   *)
(* lines and failures: the type invariant, that the lock lets one daemon   *)
(* at a time be at work, and that the one that serves is in sight.         *)
(***************************************************************************)
EXTENDS SocketLock, TLAPS

(* A start that has the lock when it goes on to the socket keeps it until   *)
(* the process exits.                                                       *)
LockPc == {"probe", "remove", "bind", "serve", "drain"}

LockHeld == \A d \in Daemon : d \notin Lockless /\ pc[d] \in LockPc => lock = d

(* Nobody starts a daemon of before the lock, and none of them has it.      *)
OldOnes == \A d \in Lockless : pc[d] \in {"off", "serve", "drain"} /\ lock # d

(* The name leads to nothing or to a daemon that listens.                   *)
NameLives == path \in Daemon => pc[path] = "serve"

(* Where no late answer was missed, whoever serves has the name, and who is *)
(* about to remove a stale one does not remove a live one.                  *)
InSight == ~overlooked => \A d \in Daemon : pc[d] = "serve" => path = d

Cleared == ~overlooked => \A d \in Daemon : pc[d] \in {"remove", "bind"} => path \notin Daemon

IInv == TypeOK /\ LockHeld /\ OldOnes /\ NameLives /\ InSight /\ Cleared

-----------------------------------------------------------------------------
LEMMA InitIInv == Init => IInv
<1> SUFFICES ASSUME Init PROVE IInv
  OBVIOUS
<1> USE NameAssumption, VersionAssumption, KeeperAssumption
<1>1. TypeOK
  <2>1. /\ lock \in Daemon \cup {None} /\ path \in Daemon \cup {"stale", None}
        /\ pc \in [Daemon -> StartPc \cup {"off", "serve", "drain"}]
    BY DEF Init, Lockless
  <2>2. stuck = {} /\ stepping = {} /\ cli = [c \in Cli |-> "idle"]
    BY ZenonT(20) DEF Init
  <2>3. loaded \in BOOLEAN /\ overlooked \in BOOLEAN
    <3>1. loaded \in BOOLEAN /\ overlooked = FALSE
      BY ZenonT(20) DEF Init
    <3> QED
      BY <3>1
  <2>4. starts \in Nat /\ faults \in Nat
    BY DEF Init
  <2> QED
    BY <2>1, <2>2, <2>3, <2>4 DEF TypeOK, CliPc
<1>2. LockHeld /\ OldOnes /\ NameLives /\ InSight /\ Cleared
  BY DEF Init, LockHeld, LockPc, OldOnes, NameLives, InSight, Cleared, Lockless
<1> QED
  BY <1>1, <1>2 DEF IInv

-----------------------------------------------------------------------------
(* A daemon whose step leaves the lock, the name and the others alone, and  *)
(* which does not come to need more than it has.                            *)
LEMMA OnwardKeeps ==
    ASSUME IInv, NEW d \in Daemon, NEW to \in StartPc, d \notin Lockless,
           pc[d] \in StartPc, Go(d, to), UNCHANGED <<path, stuck, stepping>>,
           lock' = lock \/ (lock = None /\ lock' = d),
           to \in LockPc => lock' = d,
           overlooked' \in BOOLEAN, overlooked => overlooked',
           to \in {"remove", "bind"} => path \notin Daemon \/ overlooked',
           cli' \in [Cli -> CliPc], loaded' \in BOOLEAN, starts' \in Nat, faults' \in Nat
    PROVE  IInv'
<1> USE NameAssumption
<1>1. pc' = [pc EXCEPT ![d] = to] /\ pc \in [Daemon -> StartPc \cup {"off", "serve", "drain"}]
  BY DEF IInv, TypeOK, Go
<1>2. TypeOK'
  BY <1>1 DEF IInv, TypeOK, StartPc
<1>3. LockHeld'
  BY <1>1 DEF IInv, LockHeld, Lockless, TypeOK, LockPc
<1>4. OldOnes'
  BY <1>1 DEF IInv, OldOnes, Lockless
<1>5. NameLives' /\ InSight'
  BY <1>1 DEF IInv, NameLives, InSight, StartPc
<1>6. Cleared'
  BY <1>1 DEF IInv, Cleared
<1> QED
  BY <1>2, <1>3, <1>4, <1>5, <1>6 DEF IInv

(* A daemon that ends takes the lock and the name with it, if it had them.  *)
LEMMA GoneKeeps ==
    ASSUME IInv, NEW d \in Daemon, Gone(d),
           path' = path \/ path' \in {"stale", None}, path = d => path' \notin Daemon,
           path' # path => pc[d] = "serve",
           path' # path => path = d \/ overlooked,
           cli' \in [Cli -> CliPc], UNCHANGED overlooked, loaded' \in BOOLEAN, starts' \in Nat, faults' \in Nat
    PROVE  IInv'
<1> USE NameAssumption
<1>1. /\ pc' = [pc EXCEPT ![d] = "off"]
      /\ pc \in [Daemon -> StartPc \cup {"off", "serve", "drain"}]
      /\ lock' = IF lock = d THEN None ELSE lock
      /\ stepping' = stepping \ {d} /\ stuck' = stuck \ {d}
  BY DEF IInv, TypeOK, Gone, Go, FreedBy
<1>2. TypeOK'
  BY <1>1 DEF IInv, TypeOK
<1>3. LockHeld' /\ OldOnes'
  BY <1>1 DEF IInv, LockHeld, OldOnes, Lockless, LockPc, TypeOK
<1>4. NameLives' /\ InSight' /\ Cleared'
  BY <1>1 DEF IInv, NameLives, InSight, Cleared, TypeOK
<1> QED
  BY <1>2, <1>3, <1>4 DEF IInv

LEMMA RefusedKeeps ==
    ASSUME IInv, NEW d \in Daemon, pc[d] \in StartPc, Refused(d),
           cli' \in [Cli -> CliPc], UNCHANGED overlooked, loaded' \in BOOLEAN, starts' \in Nat, faults' \in Nat
    PROVE  IInv'
<1>1. path # d
  BY DEF IInv, NameLives, StartPc
<1> QED
  BY <1>1, GoneKeeps DEF Refused

LEMMA KilledKeeps ==
    ASSUME IInv, NEW d \in Daemon, Killed(d),
           cli' \in [Cli -> CliPc], UNCHANGED overlooked, loaded' \in BOOLEAN, starts' \in Nat, faults' \in Nat
    PROVE  IInv'
<1> USE NameAssumption
<1>1. path = d => pc[d] = "serve"
  BY DEF IInv, NameLives
<1> QED
  BY <1>1, GoneKeeps DEF Killed

(* Nothing but bookkeeping.                                                 *)
LEMMA AsideKeeps ==
    ASSUME IInv, UNCHANGED <<lock, path, pc, overlooked>>,
           stuck' \subseteq stepping', stepping' \subseteq stepping \cup {path},
           path \in Daemon \/ stepping' \subseteq stepping \cup {d \in Daemon : pc[d] = "serve"},
           cli' \in [Cli -> CliPc], loaded' \in BOOLEAN, starts' \in Nat, faults' \in Nat
    PROVE  IInv'
<1>1. TypeOK'
  BY DEF IInv, TypeOK, NameLives
<1> QED
  BY <1>1 DEF IInv, LockHeld, OldOnes, NameLives, InSight, Cleared, Lockless

-----------------------------------------------------------------------------
LEMMA StartKeeps == ASSUME IInv, NEW d \in Daemon, Start(d) PROVE IInv'
<1> USE NameAssumption
<1>1. /\ pc' = [pc EXCEPT ![d] = "flock"] /\ pc[d] = "off" /\ d \notin Lockless
      /\ UNCHANGED <<socketVars, stepping, stuck, cliVars, overlooked, faults>>
  BY DEF Start, Go
<1>2. starts' \in Nat
  BY DEF Start, IInv, TypeOK
<1>3. TypeOK'
  BY <1>1, <1>2 DEF IInv, TypeOK, StartPc, socketVars, cliVars
<1>4. LockHeld' /\ OldOnes'
  BY <1>1 DEF IInv, LockHeld, OldOnes, Lockless, LockPc, TypeOK, socketVars
<1>5. NameLives' /\ InSight' /\ Cleared'
  BY <1>1 DEF IInv, NameLives, InSight, Cleared, TypeOK, socketVars
<1> QED
  BY <1>3, <1>4, <1>5 DEF IInv

(* Who starts is not of before the lock.                                    *)
LEMMA StartsKnow ==
    ASSUME IInv, NEW d \in Daemon, pc[d] \in StartPc
    PROVE  d \notin Lockless
BY DEF IInv, OldOnes, StartPc

(* The steps of a start, up to the removal of a stale name.                 *)
LEMMA AskingKeeps ==
    ASSUME IInv, NEW d \in Daemon, Flock(d) \/ Ask(d) \/ Probe(d)
    PROVE  IInv'
<1>1. pc[d] \in StartPc /\ d \notin Lockless
  BY StartsKnow DEF Flock, Ask, Probe, StartPc
<1>2. /\ UNCHANGED <<cli, loaded, starts>> /\ cli \in [Cli -> CliPc] /\ loaded \in BOOLEAN /\ starts \in Nat
      /\ faults \in Nat /\ overlooked \in BOOLEAN
  BY DEF Flock, Ask, Probe, cliVars, IInv, TypeOK
<1>3. CASE Refused(d)
  <2>1. UNCHANGED overlooked /\ faults' \in Nat
    BY <1>2, <1>3, <1>1 DEF Flock, Ask, Probe, Refused, Gone, Go, Onward, IInv, TypeOK, StartPc
  <2> QED
    BY <1>1, <1>2, <1>3, <2>1, RefusedKeeps
<1>4. CASE Flock(d) /\ ~Refused(d)
  BY <1>1, <1>2, <1>4, OnwardKeeps DEF Flock, LockFree, StartPc, LockPc, cliVars
<1>5. CASE Ask(d) /\ ~Refused(d)
  BY <1>1, <1>2, <1>5, OnwardKeeps DEF Ask, Onward, StartPc, LockPc, cliVars, socketVars
<1>6. CASE Probe(d) /\ ~Refused(d)
  <2>1. lock = d
    BY <1>1, <1>6 DEF Probe, IInv, LockHeld, LockPc
  <2>2. /\ pc[d] = "probe"
        /\ \/ Onward(d, "remove") /\ path \notin Daemon /\ UNCHANGED <<overlooked, faults>>
           \/ Onward(d, "tell") /\ UNCHANGED <<overlooked, faults>>
           \/ Onward(d, "remove") /\ overlooked' = TRUE /\ faults' = faults + 1
    BY <1>6 DEF Probe, Dialable
  <2>3. CASE Onward(d, "remove") /\ path \notin Daemon /\ UNCHANGED <<overlooked, faults>>
    BY <1>1, <1>2, <2>1, <2>3, OnwardKeeps DEF Onward, StartPc, LockPc, socketVars
  <2>4. CASE Onward(d, "tell") /\ UNCHANGED <<overlooked, faults>>
    BY <1>1, <1>2, <2>1, <2>4, OnwardKeeps DEF Onward, StartPc, LockPc, socketVars
  <2>5. CASE Onward(d, "remove") /\ overlooked' = TRUE /\ faults' = faults + 1
    <3>1. overlooked' /\ overlooked' \in BOOLEAN /\ faults' \in Nat
      BY <1>2, <2>5
    <3> QED
      BY <1>1, <1>2, <2>1, <2>5, <3>1, OnwardKeeps DEF Onward, StartPc, LockPc, socketVars
  <2> QED
    BY <2>2, <2>3, <2>4, <2>5
<1> QED
  BY <1>3, <1>4, <1>5, <1>6

LEMMA EvictingKeeps ==
    ASSUME IInv, NEW d \in Daemon,
           TellPeer(d) \/ WaitPeer(d) \/ WaitPeerAgain(d) \/ PollLock(d)
    PROVE  IInv'
<1> USE NameAssumption
<1>1. pc[d] \in StartPc /\ d \notin Lockless
  BY StartsKnow DEF TellPeer, WaitPeer, WaitPeerAgain, PollLock, StartPc
<1>2. /\ UNCHANGED <<cli, loaded, starts, overlooked>> /\ cli \in [Cli -> CliPc] /\ loaded \in BOOLEAN /\ starts \in Nat
      /\ faults \in Nat /\ overlooked \in BOOLEAN
  BY DEF TellPeer, WaitPeer, WaitPeerAgain, PollLock, cliVars, IInv, TypeOK
<1>3. CASE Refused(d) /\ faults' \in Nat
  BY <1>1, <1>2, <1>3, RefusedKeeps
<1>4. CASE TellPeer(d) /\ path \in Daemon
  <2>1. /\ stepping' = stepping \cup {path} /\ stuck' \in {stuck, stuck \cup {path}}
        /\ faults' \in Nat /\ UNCHANGED <<lock, path>> /\ pc' = [pc EXCEPT ![d] = "wait"]
    BY <1>2, <1>4 DEF TellPeer, Dialable, Tell, Go, socketVars
  <2>2. pc[path] = "serve" /\ path # d
    BY <1>1, <1>4 DEF IInv, NameLives, StartPc
  <2>3. TypeOK'
    <3>1. pc' \in [Daemon -> StartPc \cup {"off", "serve", "drain"}]
      BY <2>1 DEF IInv, TypeOK, StartPc
    <3>2. \A e \in stepping' : e \in Daemon /\ pc'[e] = "serve"
      BY <1>1, <1>4, <2>1, <2>2 DEF IInv, TypeOK, StartPc
    <3>3. stuck' \subseteq stepping'
      BY <2>1 DEF IInv, TypeOK
    <3> QED
      BY <1>2, <2>1, <3>1, <3>2, <3>3 DEF IInv, TypeOK
  <2> QED
    BY <1>1, <1>2, <2>1, <2>2, <2>3
    DEF IInv, TypeOK, LockHeld, LockPc, OldOnes, Lockless, NameLives, InSight, Cleared
<1>5. CASE Evicted(d) /\ path \notin Daemon /\ UNCHANGED faults
  BY <1>1, <1>2, <1>5, OnwardKeeps DEF Evicted, Onward, StartPc, LockPc, socketVars
<1>6. CASE WaitPeer(d) /\ Onward(d, "kill")
  BY <1>1, <1>2, <1>6, OnwardKeeps DEF WaitPeer, Onward, StartPc, LockPc, socketVars
<1>7. CASE PollLock(d) /\ ~Refused(d)
  BY <1>1, <1>2, <1>7, OnwardKeeps DEF PollLock, LockFree, StartPc, LockPc
<1> QED
  BY <1>2, <1>3, <1>4, <1>5, <1>6, <1>7
  DEF TellPeer, WaitPeer, WaitPeerAgain, PollLock, Dialable

LEMMA KillPeerKeeps == ASSUME IInv, NEW d \in Daemon, KillPeer(d) PROVE IInv'
<1> USE NameAssumption
<1>1. pc[d] \in StartPc /\ d \notin Lockless
  BY StartsKnow DEF KillPeer, StartPc
<1>2. /\ UNCHANGED <<cli, loaded, starts, faults, overlooked>> /\ cli \in [Cli -> CliPc] /\ loaded \in BOOLEAN
      /\ starts \in Nat /\ faults \in Nat /\ overlooked \in BOOLEAN
  BY DEF KillPeer, cliVars, IInv, TypeOK
<1>3. CASE path \in Daemon
  <2>1. /\ path' = "stale" /\ lock' = (IF lock = path THEN None ELSE lock)
        /\ pc' = [pc EXCEPT ![path] = "off", ![d] = "wait2"]
        /\ stepping' = stepping \ {path} /\ stuck' = stuck \ {path}
    BY <1>3 DEF KillPeer, Dialable, FreedBy
  <2>2. pc[path] = "serve" /\ path # d
    BY <1>1, <1>3 DEF IInv, NameLives, StartPc
  <2>3. TypeOK'
    <3>1. pc' \in [Daemon -> StartPc \cup {"off", "serve", "drain"}]
      BY <2>1 DEF IInv, TypeOK, StartPc
    <3>2. \A e \in stepping' : e \in Daemon /\ pc'[e] = "serve"
      BY <1>1, <1>3, <2>1, <2>2 DEF IInv, TypeOK, StartPc
    <3>3. stuck' \subseteq stepping'
      BY <2>1 DEF IInv, TypeOK
    <3> QED
      BY <1>2, <2>1, <3>1, <3>2, <3>3 DEF IInv, TypeOK
  <2>4. LockHeld' /\ OldOnes'
    BY <1>1, <1>3, <2>1, <2>2 DEF IInv, TypeOK, LockHeld, LockPc, OldOnes, Lockless
  <2>5. NameLives' /\ InSight' /\ Cleared'
    BY <1>2, <1>3, <2>1, <2>2 DEF IInv, TypeOK, NameLives, InSight, Cleared
  <2> QED
    BY <2>3, <2>4, <2>5 DEF IInv
<1>4. CASE path \notin Daemon
  BY <1>1, <1>2, <1>4, OnwardKeeps DEF KillPeer, Dialable, Onward, StartPc, LockPc, socketVars
<1> QED
  BY <1>3, <1>4

(* The name is removed, and taken, by the one that has the lock.            *)
LEMMA NamingKeeps ==
    ASSUME IInv, NEW d \in Daemon, RemoveStale(d) \/ Bind(d) PROVE IInv'
<1> USE NameAssumption
<1>1. pc[d] \in StartPc /\ d \notin Lockless /\ lock = d
  BY StartsKnow DEF RemoveStale, Bind, StartPc, IInv, LockHeld, LockPc
<1>2. /\ UNCHANGED <<cli, loaded, starts, faults, overlooked>> /\ cli \in [Cli -> CliPc] /\ loaded \in BOOLEAN
      /\ starts \in Nat /\ faults \in Nat /\ overlooked \in BOOLEAN
  BY DEF RemoveStale, Bind, cliVars, IInv, TypeOK
<1>3. CASE Refused(d)
  BY <1>1, <1>2, <1>3, RefusedKeeps
<1>4. CASE RemoveStale(d)
  <2>1. /\ path' = None /\ pc[d] = "remove" /\ pc' = [pc EXCEPT ![d] = "bind"]
        /\ UNCHANGED <<lock, stepping, stuck>>
    BY <1>4 DEF RemoveStale, Go
  <2>2. ~overlooked => \A e \in Daemon : pc[e] # "serve"
    BY <2>1 DEF IInv, InSight, Cleared
  <2>3. TypeOK'
    BY <1>2, <2>1 DEF IInv, TypeOK, StartPc
  <2> QED
    BY <1>1, <1>2, <2>1, <2>2, <2>3
    DEF IInv, TypeOK, LockHeld, LockPc, OldOnes, Lockless, NameLives, InSight, Cleared
<1>5. CASE Bind(d) /\ ~Refused(d)
  <2>1. /\ path = None /\ path' = d /\ pc[d] = "bind" /\ pc' = [pc EXCEPT ![d] = "serve"]
        /\ UNCHANGED <<lock, stepping, stuck>>
    BY <1>5 DEF Bind, Go
  <2>2. TypeOK'
    BY <1>2, <2>1 DEF IInv, TypeOK, StartPc
  <2>3. \A e \in Daemon : pc[e] \in {"remove", "bind"} => e = d
    BY <1>1 DEF IInv, LockHeld, LockPc, OldOnes
  <2>4. LockHeld' /\ OldOnes'
    BY <1>1, <2>1 DEF IInv, TypeOK, LockHeld, LockPc, OldOnes, Lockless
  <2>5. NameLives' /\ InSight' /\ Cleared'
    BY <1>2, <2>1, <2>3 DEF IInv, TypeOK, NameLives, InSight, Cleared
  <2> QED
    BY <2>2, <2>4, <2>5 DEF IInv
<1> QED
  BY <1>3, <1>4, <1>5

(* A daemon that serves, and one that ends.                                 *)
LEMMA EndingKeeps ==
    ASSUME IInv, NEW d \in Daemon, Term(d) \/ Close(d) \/ Exit(d) \/ Crash(d)
    PROVE  IInv'
<1> USE NameAssumption
<1>2. /\ UNCHANGED <<cli, loaded, starts, overlooked>> /\ cli \in [Cli -> CliPc] /\ loaded \in BOOLEAN
      /\ starts \in Nat /\ faults \in Nat /\ faults' \in Nat /\ overlooked \in BOOLEAN
  BY DEF Term, Close, Exit, Crash, cliVars, IInv, TypeOK
<1>3. CASE Term(d)
  BY <1>2, <1>3 DEF Term, IInv, TypeOK, LockHeld, OldOnes, Lockless, NameLives, InSight, Cleared,
     socketVars
<1>4. CASE Close(d)
  <2>1. /\ path' = None /\ pc[d] = "serve" /\ pc' = [pc EXCEPT ![d] = "drain"]
        /\ lock' = lock /\ stepping' = stepping \ {d} /\ stuck' = stuck /\ d \notin stuck
    BY <1>4 DEF Close, Go, FreedBy
  <2>2. TypeOK'
    BY <1>2, <2>1 DEF IInv, TypeOK
  <2>3. LockHeld' /\ OldOnes'
    BY <2>1 DEF IInv, TypeOK, LockHeld, LockPc, OldOnes, Lockless
  <2>4. NameLives' /\ InSight' /\ Cleared'
    BY <1>2, <2>1 DEF IInv, TypeOK, NameLives, InSight, Cleared
  <2> QED
    BY <2>2, <2>3, <2>4 DEF IInv
<1>5. CASE Exit(d)
  <2>1. path # d
    BY <1>5 DEF Exit, IInv, NameLives
  <2> QED
    BY <1>2, <1>5, <2>1, GoneKeeps DEF Exit, NameAtExit
<1>6. CASE Crash(d)
  BY <1>2, <1>6, KilledKeeps DEF Crash
<1> QED
  BY <1>3, <1>4, <1>5, <1>6

LEMMA CliKeeps == ASSUME IInv, NEW c \in Cli, CliStep(c) PROVE IInv'
<1> USE NameAssumption
<1>1. UNCHANGED <<starts, overlooked>> /\ starts \in Nat /\ faults \in Nat /\ faults' \in Nat
  BY DEF CliStep, CliBootout, CliAskUnanswered, CliWait, CliTell, Tell, CliKill, CliInstall, IInv,
     TypeOK
<1>2. cli' \in [Cli -> CliPc] /\ loaded' \in BOOLEAN
  <2>1. \E to \in CliPc : GoCli(c, to)
    BY DEF CliStep, CliBootout, CliAskUnanswered, CliWait, CliTell, CliKill, CliInstall, CliPc
  <2>2. loaded' = loaded \/ loaded' \in BOOLEAN
    BY DEF CliStep, CliBootout, CliAskUnanswered, CliWait, CliTell, CliKill, CliInstall
  <2> QED
    BY <2>1, <2>2 DEF GoCli, IInv, TypeOK
<1>3. stuck \subseteq stepping
  BY DEF IInv, TypeOK
<1>4. CASE CliBootout(c) \/ CliAskUnanswered(c) \/ CliWait(c) \/ CliInstall(c)
  <2>1. /\ UNCHANGED <<lock, path, pc, stuck>>
        /\ stepping' = stepping \/ (path \in Daemon /\ stepping' = stepping \cup {path})
    BY <1>4 DEF CliBootout, CliAskUnanswered, CliWait, CliInstall, socketVars, Dialable
  <2> QED
    BY <1>1, <1>2, <1>3, <2>1, AsideKeeps
<1>5. CASE CliTell(c)
  <2>1. /\ UNCHANGED <<lock, path, pc>>
        /\ \/ UNCHANGED <<stepping, stuck>>
           \/ /\ path \in Daemon /\ stepping' = stepping \cup {path}
              /\ stuck' \in {stuck, stuck \cup {path}}
    BY <1>5 DEF CliTell, Tell, Dialable, socketVars
  <2> QED
    BY <1>1, <1>2, <1>3, <2>1, AsideKeeps
<1>6. CASE CliKill(c) /\ path \in Daemon
  <2>1. Killed(path)
    BY <1>6 DEF CliKill, Dialable
  <2> QED
    BY <1>1, <1>2, <1>6, <2>1, KilledKeeps
<1>7. CASE CliKill(c) /\ path \notin Daemon
  BY <1>1, <1>2, <1>3, <1>7, AsideKeeps DEF CliKill, Dialable, socketVars
<1> QED
  BY <1>4, <1>5, <1>6, <1>7 DEF CliStep

-----------------------------------------------------------------------------
LEMMA NextKeeps == IInv /\ [Next]_vars => IInv'
<1> SUFFICES ASSUME IInv, [Next]_vars PROVE IInv'
  OBVIOUS
<1>1. CASE UNCHANGED vars
  BY <1>1 DEF vars, IInv, TypeOK, LockHeld, OldOnes, Lockless, NameLives, InSight, Cleared
<1>2. ASSUME NEW d \in Daemon, Start(d) PROVE IInv'
  BY <1>2, StartKeeps
<1>3. ASSUME NEW d \in Daemon, DaemonStep(d) \/ Term(d) \/ Crash(d) PROVE IInv'
  BY <1>3, AskingKeeps, EvictingKeeps, KillPeerKeeps, NamingKeeps, EndingKeeps
  DEF DaemonStep, StartStep
<1>4. ASSUME NEW c \in Cli, CliStep(c) PROVE IInv'
  BY <1>4, CliKeeps
<1> QED
  BY <1>1, <1>2, <1>3, <1>4 DEF Next

THEOREM Invariance == Spec => []IInv
BY InitIInv, NextKeeps, PTL DEF Spec

(* Every variable of the specification keeps to its type.                   *)
THEOREM TypeCorrect == Spec => []TypeOK
<1>1. IInv => TypeOK
  BY DEF IInv
<1> QED
  BY <1>1, Invariance, PTL

(* Whatever starts, is told, killed or crashes, in whatever order: of the   *)
(* daemons that know of the lock one at a time is at work, from before it   *)
(* binds the socket until its last handler has gone (flockSocket, serve).   *)
THEOREM OneDaemon == Spec => []OneAtWork
<1>1. IInv => OneAtWork
  BY DEF IInv, LockHeld, LockPc, OneAtWork, AtWork
<1> QED
  BY <1>1, Invariance, PTL

(* The daemon that serves has the name, and so every client that asks       *)
(* reaches it; unless a start missed the late answer of a daemon of before  *)
(* the lock (listen, closeOnce).                                            *)
THEOREM InReach == Spec => []ServesInSight
<1>1. IInv => ServesInSight
  BY DEF IInv, InSight, ServesInSight
<1> QED
  BY <1>1, Invariance, PTL
===============================================================================
