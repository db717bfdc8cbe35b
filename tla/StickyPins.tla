------------------------------ MODULE StickyPins ------------------------------
(***************************************************************************)
(* Which account a directory stays with (internal/pool/sticky.go,          *)
(* internal/pool/select.go, the pins and sessions of internal/store,       *)
(* handleSelect and pollOnce of the daemon, TogglePin).                    *)
(*                                                                         *)
(* Selects of the daemon and of command lines, the daemon's poll and the   *)
(* user's own pins work on one database, each with statements of its own   *)
(* and on what it has read before.  A pin lives for a while after the last *)
(* select or the end of the last session it stands for; sessions are rows  *)
(* with a process id that are closed when a scan of the processes does not *)
(* find it.  Indices of accounts are used again.                           *)
(*                                                                         *)
(* Time is counted in ticks.  Rankings are whatever they are: which of the *)
(* accounts are fit, and which one wins, is chosen.                        *)
(***************************************************************************)
EXTENDS Naturals, FiniteSets

CONSTANTS
    Dir,         \* working directories
    Id,          \* indices of accounts
    Proc,        \* processes that run ccp, then claude
    None,        \* no pin, no row, nobody
    StickyTTL,   \* how long a pin outlives its last activity
    Grace,       \* SessionReapGrace
    MaxTime,     \* bound: the clock
    Removable,   \* bound: indices whose accounts are removed
    MaxRemoves,  \* bound: accounts removed
    MaxSelects,  \* bound: selects begun
    MaxBusy      \* bound: operations under way at once

ASSUME IdAssumption == Id \subseteq Nat /\ Removable \subseteq Id
ASSUME TimeAssumption == StickyTTL \in Nat /\ {Grace, MaxTime} \subseteq Nat \ {0}
ASSUME BoundAssumption == {MaxRemoves, MaxSelects, MaxBusy} \subseteq Nat

VARIABLES
    now,       \* the clock
    accounts,  \* indices with an account
    life,      \* history: how many accounts each index has had
    pin,       \* each directory's row of sticky
    row,       \* each process's open row of sessions
    ended,     \* the latest end of a session, by directory and account
    endOf,     \* history: which of an index's accounts that session was of
    proc,      \* the processes
    poll,      \* the daemon's poll
    user,      \* the user at the status screen
    lapsed,    \* history: directories whose manual pin has been dead or was written late
    removes,   \* accounts removed so far (bound)
    selects    \* selects begun so far (bound)

vars == <<now, accounts, life, pin, row, ended, endOf, proc, poll, user, lapsed, removes, selects>>
storeVars == <<accounts, life, pin, row, ended, endOf>>

Time == 0..MaxTime
Never == 0   \* the clock starts at 1

(* "of" is the account meant, of those the index has had; 0 is one that had *)
(* gone when the row was written; "left" is since when the process of a row *)
(* is gone, or the last time that a scan which had found it took.           *)
Pin == [acct : Id, at : Time, manual : BOOLEAN, of : Nat]
Row == [acct : Id, dir : Dir, started : Time, seen : Time, of : Nat, left : Time]

ASSUME NoneAssumption == None \notin Pin /\ None \notin Row

(* "known" are the accounts as they were listed, "alive" the processes that *)
(* were found, "at" the time taken for now, "read" the pin that was read,   *)
(* "acct" the account chosen, "keep" the account of a pin that is held.  A  *)
(* claude is "slow" if it started after the grace, or while the time was    *)
(* still to be taken for a scan that had come too early to find it.         *)
Path == {"client", "daemon"}
SelectPc == {"force", "scan", "sample", "reap", "pin", "classify", "delete", "forget", "record", "open"}
ProcState == [pc : SelectPc \cup {"gone", "ccp", "claude"},
              path : Path, dir : Dir \cup {None},
              known : [Id -> Nat], alive : SUBSET Proc, at : Time, read : Pin \cup {None},
              acct : Id \cup {None}, keep : Id \cup {None}, slow : BOOLEAN]

Gone == [pc |-> "gone", path |-> "client", dir |-> None,
         known |-> [i \in Id |-> 0], alive |-> {}, at |-> Never, read |-> None,
         acct |-> None, keep |-> None, slow |-> FALSE]

PollState == [pc : {"idle", "sample", "reap", "prune"}, alive : SUBSET Proc, at : Time]
PollIdle == [pc |-> "idle", alive |-> {}, at |-> Never]

UserState == [pc : {"idle", "look", "unpin", "check", "pin"}, dir : Dir \cup {None},
              acct : Id \cup {None}, read : Pin \cup {None}, of : Nat]
UserIdle == [pc |-> "idle", dir |-> None, acct |-> None, read |-> None, of |-> 0]

TypeOK ==
    /\ now \in Time
    /\ accounts \subseteq Id /\ life \in [Id -> Nat]
    /\ pin \in [Dir -> Pin \cup {None}]
    /\ row \in [Proc -> Row \cup {None}]
    /\ ended \in [Dir -> [Id -> Time]] /\ endOf \in [Dir -> [Id -> Nat]]
    /\ proc \in [Proc -> ProcState]
    /\ poll \in PollState /\ user \in UserState
    /\ lapsed \subseteq Dir
    /\ removes \in Nat /\ selects \in Nat

Init ==
    /\ now = 1
    /\ accounts = Id /\ life = [i \in Id |-> 1]
    /\ pin = [d \in Dir |-> None]
    /\ row = [p \in Proc |-> None]
    /\ ended = [d \in Dir |-> [i \in Id |-> Never]] /\ endOf = [d \in Dir |-> [i \in Id |-> 0]]
    /\ proc = [p \in Proc |-> Gone]
    /\ poll = PollIdle /\ user = UserIdle
    /\ lapsed = {} /\ removes = 0 /\ selects = 0

-----------------------------------------------------------------------------
(* Bound: not everybody is at it at once; running claudes do not count.     *)
Busy == {p \in Proc : proc[p].pc \notin {"gone", "claude"}}
NotCrowded ==
    Cardinality(Busy) + (IF poll.pc = "idle" THEN 0 ELSE 1) + (IF user.pc = "idle" THEN 0 ELSE 1) < MaxBusy

-----------------------------------------------------------------------------
(* What a pin's activity says (classify, pinState).                         *)

Later(s, t) == IF s < t THEN t ELSE s

(* GetCwdActivity: sessions of the pinned account in the pinned directory.  *)
Live(d, i) == \E p \in Proc : row[p] # None /\ row[p].dir = d /\ row[p].acct = i

LastActivity(d, st) == Later(st.at, ended[d][st.acct])
Warm(d, st, t) == ended[d][st.acct] # Never /\ t <= ended[d][st.acct] + StickyTTL
AliveAt(d, st, t) == Live(d, st.acct) \/ t <= LastActivity(d, st) + StickyTTL

(* All that is known of a pin whose activity cannot be read.                *)
Fresh(st, t) == t <= st.at + StickyTTL

Binding(d, st, t) ==
    /\ AliveAt(d, st, t)
    /\ st.manual \/ Warm(d, st, t) \/ ~Live(d, st.acct)

Manual(d) == pin[d] # None /\ pin[d].manual
Dead(d) == ~AliveAt(d, pin[d], now)

-----------------------------------------------------------------------------
(* The store's statements; each is one transaction.                         *)

(* UpsertSticky.                                                            *)
UpsertSticky(d, st) ==
    LET old == pin[d] IN
    pin' = IF old = None \/ ~old.manual THEN [pin EXCEPT ![d] = st]
           ELSE IF old.acct = st.acct THEN [pin EXCEPT ![d] = [st EXCEPT !.manual = TRUE]]
           ELSE pin

\* Mutant: whatever pin there is by now is deleted.
SameVersionAlways(d, st) == pin[d] # None

(* DeleteStickyVersion compares the time and the kind.                      *)
SameVersion(d, st) == pin[d] # None /\ pin[d].at = st.at /\ pin[d].manual = st.manual

(* A row for the account that was listed.                                   *)
Meant(known, i) == IF i \in accounts /\ known = life[i] THEN known ELSE 0

\* Mutant: a session ends when it is found to have ended.
EndOfObserved(r, at) == at

(* A session is taken to have ended when it was last seen.                  *)
EndOf(r, at) == Later(r.started, r.seen)

TooYoung(r, at) == at < r.started + Grace

(* CloseDeadSessions.                                                       *)
Reapable(p, alive, at) == row[p] # None /\ p \notin alive /\ ~TooYoung(row[p], at)

Latest(times) == CHOOSE t \in times : \A u \in times : u <= t

Closers(d, i, alive, at) == {p \in Proc : Reapable(p, alive, at) /\ row[p].dir = d /\ row[p].acct = i}

(* The rows are listed, then stamped or closed one by one; nobody else      *)
(* stamps a row, and one that is closed twice is closed alike.              *)
CloseDeadSessions(alive, at) ==
    /\ row' = [p \in Proc |-> IF Reapable(p, alive, at) THEN None
                              ELSE IF row[p] # None /\ p \in alive
                              THEN [row[p] EXCEPT !.seen = at] ELSE row[p]]
    /\ ended' = [d \in Dir |-> [i \in Id |->
          Latest({ended[d][i]} \cup {EndOf(row[p], at) : p \in Closers(d, i, alive, at)})]]
    /\ endOf' = [d \in Dir |-> [i \in Id |->
          IF ended'[d][i] = ended[d][i] THEN endOf[d][i]
          ELSE row[CHOOSE p \in Closers(d, i, alive, at) : EndOf(row[p], at) = ended'[d][i]].of]]

Prunable(d) == ~Live(d, pin[d].acct) /\ now > LastActivity(d, pin[d]) + StickyTTL

-----------------------------------------------------------------------------
(* A select (Manager.Select in a ccp, handleSelect for it in the daemon).   *)

Step(p, fields) == proc' = [proc EXCEPT ![p] = fields]
At(p, pc) == [proc[p] EXCEPT !.pc = pc]

(* What is written first of the two.                                        *)
First(path) == IF path = "daemon" THEN "open" ELSE "record"

(* The account is chosen: of what was read, only what is still used stays. *)
Decided(w, path, i) ==
    [w EXCEPT !.pc = First(path), !.path = path, !.acct = i, !.read = None,
        !.known = [j \in Id |-> IF j = i THEN @[j] ELSE 0],
        !.at = IF path = "daemon" THEN Never ELSE @]

(* Pick or PickFallback of what was listed; or none, and it is over.        *)
Choose(p, w) ==
    \/ Step(p, Gone)
    \/ \E i \in Id : w.known[i] # 0 /\ Step(p, Decided(w, w.path, i))

(* The processes a scan finds.                                              *)
Claudes == {p \in Proc : proc[p].pc = "claude"}

(* Between a scan and the time that goes with it.                           *)
Waiting == poll.pc = "sample" \/ \E p \in Proc : proc[p].pc = "sample"

(* Who was found and has gone by now will be taken to be there now.         *)
FoundAt(alive) ==
    row' = [p \in Proc |-> IF p \in alive /\ proc[p].pc = "gone" /\ row[p] # None
                           THEN [row[p] EXCEPT !.left = now] ELSE row[p]]

(* Accounts are listed first.  A pid is not used again while a row has it.  *)
SelectList(p) ==
    /\ proc[p].pc = "gone" /\ row[p] = None /\ accounts # {}
    /\ NotCrowded /\ selects < MaxSelects
    /\ \E d \in Dir, pc \in {"scan", "force"} :
         Step(p, [Gone EXCEPT !.dir = d, !.pc = pc,
                     !.known = [i \in Id |-> IF i \in accounts THEN life[i] ELSE 0]])
    /\ selects' = selects + 1
    /\ UNCHANGED <<now, storeVars, poll, user, removes>>

(* A scan that fails reaps nothing.                                         *)
SelectScan(p) ==
    /\ proc[p].pc = "scan"
    /\ \/ Step(p, [At(p, "sample") EXCEPT !.alive = Claudes])
       \/ Step(p, [At(p, "pin") EXCEPT !.at = now])
    /\ UNCHANGED <<now, storeVars, poll, user, removes, selects>>

(* A ccp samples the accounts over the network before it takes the time.    *)
SelectTime(p) ==
    /\ proc[p].pc = "sample"
    /\ Step(p, [At(p, "reap") EXCEPT !.at = now])
    /\ FoundAt(proc[p].alive)
    /\ UNCHANGED <<now, accounts, life, pin, ended, endOf, poll, user, removes, selects>>

SelectReap(p) ==
    /\ proc[p].pc = "reap"
    /\ CloseDeadSessions(proc[p].alive, proc[p].at)
    /\ Step(p, [At(p, "pin") EXCEPT !.alive = {}])
    /\ UNCHANGED <<now, accounts, life, pin, poll, user, removes, selects>>

(* StickyPick: the pin is read, then its activity; a pin that cannot be     *)
(* read is none.  Who selects, the daemon or the ccp itself, makes a        *)
(* difference from here on.                                                 *)
StickyRead(p) ==
    /\ proc[p].pc = "pin"
    /\ \E path \in Path, st \in {pin[proc[p].dir], None} :
         LET w == [At(p, "classify") EXCEPT !.path = path, !.read = st,
                                            !.at = IF path = "daemon" THEN now ELSE @]
         IN IF st = None THEN Choose(p, w) ELSE Step(p, w)
    /\ UNCHANGED <<now, storeVars, poll, user, removes, selects>>

(* A pin that is alive: one that cannot be used is kept if the user made    *)
(* it, or else is no pin; one that binds decides; any other is held.        *)
Outcome(p, binds) ==
    LET st == proc[p].read IN
    IF proc[p].known[st.acct] = 0 THEN Choose(p, proc[p])
    ELSE \/ Choose(p, [proc[p] EXCEPT !.keep = IF st.manual THEN st.acct ELSE None])
         \/ binds /\ Step(p, Decided(proc[p], proc[p].path, st.acct))
         \/ ~binds /\ Choose(p, [proc[p] EXCEPT !.keep = st.acct])

(* An expired pin is deleted.  Where the activity cannot be read the pin    *)
(* goes by its own time: it binds, or is taken for expired ("forget").      *)
Classify(p) ==
    LET st == proc[p].read
        d  == proc[p].dir
        at == proc[p].at IN
    /\ proc[p].pc = "classify"
    /\ \/ AliveAt(d, st, at) /\ Outcome(p, Binding(d, st, at))
       \/ ~AliveAt(d, st, at) /\ Step(p, At(p, "delete"))
       \/ Fresh(st, at) /\ Outcome(p, TRUE)
       \/ AliveAt(d, st, at) /\ ~Fresh(st, at) /\ Step(p, At(p, "forget"))
    /\ UNCHANGED <<now, storeVars, poll, user, removes, selects>>

DeleteExpired(p) ==
    LET d == proc[p].dir IN
    /\ proc[p].pc \in {"delete", "forget"}
    /\ pin' = IF SameVersion(d, proc[p].read) THEN [pin EXCEPT ![d] = None] ELSE pin
    /\ Choose(p, proc[p])
    /\ UNCHANGED <<now, accounts, life, row, ended, endOf, poll, user, removes, selects>>

(* The account asked for.                                                   *)
Forced(p) ==
    /\ proc[p].pc = "force"
    /\ \E path \in Path, i \in Id :
         /\ proc[p].known[i] # 0
         /\ Step(p, [Decided(proc[p], path, i) EXCEPT !.at = IF path = "daemon" THEN Never ELSE now])
    /\ UNCHANGED <<now, storeVars, poll, user, removes, selects>>

(* The daemon takes the time again for each statement.                      *)
Stamp(p) == IF proc[p].path = "daemon" THEN now ELSE proc[p].at
Of(p) == Meant(proc[p].known[proc[p].acct], proc[p].acct)

(* A held pin is left alone, unless its account won anyhow.                 *)
Held(p) == proc[p].keep \notin {None, proc[p].acct}

Launching(p) == [Gone EXCEPT !.pc = "ccp"]

(* The last statement of the daemon, the last but one of a ccp.             *)
RecordSticky(p) ==
    LET w == proc[p] IN
    /\ w.pc = "record"
    /\ IF Held(p) THEN UNCHANGED pin
       ELSE UpsertSticky(w.dir, [acct |-> w.acct, at |-> Stamp(p), manual |-> FALSE, of |-> Of(p)])
    /\ Step(p, IF w.path = "daemon" THEN Launching(p) ELSE At(p, "open"))
    /\ UNCHANGED <<now, accounts, life, row, ended, endOf, poll, user, removes, selects>>

OpenSession(p) ==
    LET w == proc[p] IN
    /\ w.pc = "open"
    /\ row' = [row EXCEPT ![p] = [acct |-> w.acct, dir |-> w.dir, started |-> Stamp(p),
                                  seen |-> Never, of |-> Of(p), left |-> Never]]
    /\ Step(p, IF w.path = "daemon" THEN At(p, "record") ELSE Launching(p))
    /\ UNCHANGED <<now, accounts, life, pin, ended, endOf, poll, user, removes, selects>>

(* The row stays when its process goes.                                     *)
Goes(p) ==
    /\ Step(p, Gone)
    /\ row' = IF row[p] = None THEN row ELSE [row EXCEPT ![p].left = now]

(* "ccp select" prints the directory and has no row (PID = 0); a ccp can be *)
(* interrupted, refused a reservation, or fail.                             *)
Leave(p) ==
    /\ proc[p].pc \notin {"gone", "claude"}
    /\ Goes(p)
    /\ UNCHANGED <<now, accounts, life, pin, ended, endOf, poll, user, removes, selects>>

(* execClaude, within the grace of the row or later.                        *)
Exec(p) ==
    /\ proc[p].pc = "ccp"
    /\ Step(p, [At(p, "claude") EXCEPT !.slow = row[p] # None /\ (~TooYoung(row[p], now) \/ Waiting)])
    /\ UNCHANGED <<now, storeVars, poll, user, removes, selects>>

Exit(p) ==
    /\ proc[p].pc = "claude"
    /\ Goes(p)
    /\ UNCHANGED <<now, accounts, life, pin, ended, endOf, poll, user, removes, selects>>

-----------------------------------------------------------------------------
(* The daemon's poll (pollOnce).                                            *)

PollScan ==
    /\ poll.pc = "idle" /\ NotCrowded
    /\ poll' = [PollIdle EXCEPT !.pc = "sample", !.alive = Claudes]
    /\ UNCHANGED <<now, storeVars, proc, user, removes, selects>>

PollTime ==
    /\ poll.pc = "sample"
    /\ poll' = [poll EXCEPT !.pc = "reap", !.at = now]
    /\ FoundAt(poll.alive)
    /\ UNCHANGED <<now, accounts, life, pin, ended, endOf, proc, user, removes, selects>>

PollScanFails ==
    /\ poll.pc = "idle" /\ NotCrowded
    /\ poll' = [PollIdle EXCEPT !.pc = "prune"]
    /\ UNCHANGED <<now, storeVars, proc, user, removes, selects>>

PollReap ==
    /\ poll.pc = "reap"
    /\ CloseDeadSessions(poll.alive, poll.at)
    /\ poll' = [PollIdle EXCEPT !.pc = "prune"]
    /\ UNCHANGED <<now, accounts, life, pin, proc, user, removes, selects>>

PruneSticky ==
    /\ poll.pc = "prune"
    /\ pin' = [d \in Dir |-> IF pin[d] # None /\ Prunable(d) THEN None ELSE pin[d]]
    /\ poll' = PollIdle
    /\ UNCHANGED <<now, accounts, life, row, ended, endOf, proc, user, removes, selects>>

-----------------------------------------------------------------------------
(* The user (TogglePin), and the accounts.                                  *)

ToggleRead ==
    /\ user.pc = "idle" /\ NotCrowded
    /\ \E d \in Dir, i \in accounts :
         LET u == [UserIdle EXCEPT !.dir = d, !.acct = i] IN
         user' = IF pin[d] # None /\ pin[d].acct = i
                   THEN [u EXCEPT !.pc = "look", !.read = pin[d]]
                   ELSE [u EXCEPT !.pc = "check"]
    /\ UNCHANGED <<now, storeVars, proc, poll, removes, selects>>

(* A pin that is dead is as good as none, and so is one that looks dead     *)
(* while its activity cannot be read.                                       *)
ToggleLook ==
    /\ user.pc = "look"
    /\ \E alive \in {AliveAt(user.dir, user.read, now), Fresh(user.read, now)} :
         user' = [user EXCEPT !.read = None, !.pc = IF alive THEN "unpin" ELSE "check"]
    /\ UNCHANGED <<now, storeVars, proc, poll, removes, selects>>

Unpin ==
    /\ user.pc = "unpin"
    /\ pin' = [pin EXCEPT ![user.dir] = None]
    /\ user' = UserIdle
    /\ UNCHANGED <<now, accounts, life, row, ended, endOf, proc, poll, removes, selects>>

PinCheck ==
    /\ user.pc = "check"
    /\ user' = IF user.acct \in accounts
                 THEN [user EXCEPT !.pc = "pin", !.read = None, !.of = life[user.acct]]
                 ELSE UserIdle
    /\ UNCHANGED <<now, storeVars, proc, poll, removes, selects>>

PinManual ==
    /\ user.pc = "pin"
    /\ pin' = [pin EXCEPT ![user.dir] = [acct |-> user.acct, at |-> now, manual |-> TRUE,
                                         of |-> Meant(user.of, user.acct)]]
    /\ user' = UserIdle
    /\ UNCHANGED <<now, accounts, life, row, ended, endOf, proc, poll, removes, selects>>

\* Mutant: the pins of a removed account stay.
PinsWithoutNone(i) == pin

PinsWithout(i) == [d \in Dir |-> IF pin[d] # None /\ pin[d].acct = i THEN None ELSE pin[d]]

RowsWithout(i) == [p \in Proc |-> IF row[p] # None /\ row[p].acct = i THEN None ELSE row[p]]

(* DeleteAccount, one transaction.                                          *)
Remove(i) ==
    /\ i \in accounts \cap Removable /\ removes < MaxRemoves
    /\ accounts' = accounts \ {i}
    /\ removes' = removes + 1
    /\ pin' = PinsWithout(i) /\ row' = RowsWithout(i)
    /\ ended' = [d \in Dir |-> [ended[d] EXCEPT ![i] = Never]]
    /\ endOf' = [d \in Dir |-> [endOf[d] EXCEPT ![i] = 0]]
    /\ UNCHANGED <<now, life, proc, poll, user, selects>>

(* NextAccountIndex: the lowest that is free.                               *)
Add(i) ==
    /\ i \notin accounts /\ \A j \in Id : j < i => j \in accounts
    /\ accounts' = accounts \cup {i}
    /\ life' = [life EXCEPT ![i] = @ + 1]
    /\ UNCHANGED <<now, pin, row, ended, endOf, proc, poll, user, removes, selects>>

(* Bound: a keystroke takes less than a tick.                               *)
Tick ==
    /\ now < MaxTime /\ user.pc = "idle"
    /\ now' = now + 1
    /\ UNCHANGED <<storeVars, proc, poll, user, removes, selects>>

-----------------------------------------------------------------------------
SelectStep(p) ==
    \/ SelectList(p) \/ SelectScan(p) \/ SelectTime(p) \/ SelectReap(p)
    \/ StickyRead(p) \/ Classify(p) \/ DeleteExpired(p) \/ Forced(p)
    \/ RecordSticky(p) \/ OpenSession(p) \/ Leave(p) \/ Exec(p) \/ Exit(p)

PollStep == PollScan \/ PollTime \/ PollScanFails \/ PollReap \/ PruneSticky

UserStep == ToggleRead \/ ToggleLook \/ Unpin \/ PinCheck \/ PinManual

(* A select of a ccp stamps the pin with the time of its scan.              *)
WrittenLate(d) == pin'[d] # pin[d] /\ now > pin'[d].at + StickyTTL

Next ==
    /\ \/ \E p \in Proc : SelectStep(p)
       \/ PollStep \/ UserStep
       \/ \E i \in Id : Remove(i) \/ Add(i)
       \/ Tick
    /\ lapsed' = {d \in Dir : Manual(d)' /\ (Dead(d)' \/ WrittenLate(d) \/ (d \in lapsed /\ pin'[d] = pin[d]))}

Spec == Init /\ [][Next]_vars

-----------------------------------------------------------------------------
(* Properties.                                                              *)

(* A pin that the user has made is only unmade by the user, with its        *)
(* account, or when it has been dead since it was made, was last written by *)
(* a select that took longer than a pin lives, or is taken for dead by a    *)
(* select that could not read its activity: not by a select that has read   *)
(* another pin or an older state of this one, nor by the poll               *)
(* (UpsertSticky, DeleteStickyVersion, PruneSticky).                        *)
Unmade(d) == pin'[d] = None \/ pin'[d].acct # pin[d].acct \/ ~pin'[d].manual
Forgotten(d) == \E p \in Proc : proc[p].pc = "forget" /\ proc[p].dir = d /\ DeleteExpired(p)
Allowed(d) == Unpin \/ PinManual \/ Forgotten(d) \/ d \in lapsed \/ pin[d].acct \notin accounts'
ManualPinsStay == [][\A d \in Dir : Manual(d) /\ Unmade(d) => Allowed(d)]_vars

(* A session that is closed has ended, unless its account is removed, or    *)
(* its claude took longer than the grace to start or started between a scan *)
(* and the time taken for it; and an end of a session that is recorded is   *)
(* that of one that is closed, not later than its process's, or than the    *)
(* time taken for a scan that had still found the process (SessionReapGrace,*)
(* CloseDeadSessions).                                                      *)
Closed(p) == row[p] # None /\ row'[p] = None
Over(p) == \/ proc[p].pc = "gone" \/ proc[p].slow
           \/ proc[p].pc # "claude" /\ ~TooYoung(row[p], now)
EndsWith(d, i, p) == /\ Closed(p) /\ row[p].dir = d /\ row[p].acct = i
                     /\ proc[p].pc = "gone" => ended'[d][i] <= row[p].left
Reaped ==
    /\ \A p \in Proc : Closed(p) /\ row[p].acct \in accounts' => Over(p)
    /\ \A d \in Dir, i \in accounts' :
         \/ ended'[d][i] = ended[d][i]
         \/ ended'[d][i] > ended[d][i] /\ \E p \in Proc : EndsWith(d, i, p)
ReapTruth == [][Reaped]_vars

(* What is recorded of an account goes with it: the next account of its     *)
(* index inherits no pin, no open session and no end of a session.  Only    *)
(* what is written after the removal, by a select or a pin that had looked  *)
(* for the account before it, is not covered (DeleteAccount,                *)
(* NextAccountIndex).                                                       *)
NothingInherited ==
    /\ \A d \in Dir : pin[d] # None /\ pin[d].of # 0 =>
         pin[d].acct \in accounts /\ pin[d].of = life[pin[d].acct]
    /\ \A p \in Proc : row[p] # None /\ row[p].of # 0 =>
         row[p].acct \in accounts /\ row[p].of = life[row[p].acct]
    /\ \A d \in Dir, i \in Id : endOf[d][i] # 0 => i \in accounts /\ endOf[d][i] = life[i]
=============================================================================
