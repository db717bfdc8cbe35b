-------------------------- MODULE OverlayConversion --------------------------
(***************************************************************************)
(* One account directory on disk, and everything the daemon does to it:    *)
(* ConvertOverlay both ways with its rollback (internal/pool/convert.go),  *)
(* the startup reconcile, the heal of a lost mirror, the poll.  Each       *)
(* rename, unmount, mount, link pass and row write is one step; the daemon *)
(* may be killed, and a step may fail, between any two.                    *)
(*                                                                         *)
(* A private file lives in the account directory ("dir") under a symlink   *)
(* row, and in the backing directory beside it ("priv") under a fuse row;  *)
(* a live mirror shows "priv" at the path of "dir".                        *)
(*                                                                         *)
(* DaemonClaims shows that one actor at a time works on the directory, so  *)
(* the daemon is one program here.  A client is handed the directory, or   *)
(* takes it without asking; it merges the base's settings into the         *)
(* account's .claude.json, and becomes a claude.  The reservation that     *)
(* keeps conversions away in between is lost with the daemon, and in time. *)
(***************************************************************************)
EXTENDS Naturals

CONSTANTS
    File,         \* the private top-level entries (PrivateEntry)
    Dirs,         \* those that are directories (ExcludedEntries)
    Identity,     \* .claude.json
    MayFail,      \* the kinds of step that may fail
    MaxFaults,    \* bound: failed steps
    MaxCrashes    \* bound: kills of the daemon

ASSUME FileAssumption == Dirs \subseteq File /\ Identity \in File \ Dirs
ASSUME FaultAssumption ==
    /\ MayFail \subseteq {"move", "unlink", "mount", "verify", "unmount", "link", "flip",
                         "holder", "probe"}
    /\ MaxFaults \in Nat /\ MaxCrashes \in Nat

Kind == {"symlink", "fuse"}
Root == {"dir", "priv"}
(* What an entry holds: the account's own data, or data a session started   *)
(* afresh because it did not find it.  A plain file holds one of them.     *)
Version == {"own", "fresh"}

VARIABLES
    row,      \* the overlay kind in the account's database row
    mount,    \* "none", "live" or "dead"
    at,       \* per root and entry, what is there
    links,    \* are all shared entries linked in the directory?
    vouched,  \* the holder cache calls the mirror live
    op,       \* what the daemon is doing to the directory
    todo,     \* the entries MovePrivateEntries has still to move
    start,    \* has the startup reconcile visited the account?
    aged,     \* has the row changed since this daemon started?
    late,     \* what a claude wrote into a root since a move began to list
    session,  \* the client that holds the directory, and what it has found
    reserved, \* the daemon knows that the directory has been handed out
    mishap,   \* history: has anything gone wrong so far, and was it grave?
    crashes,  \* kills so far (bound)
    faults    \* failures so far (bound)

diskVars == <<row, mount, at, links>>
progVars == <<op, todo, late, start, aged>>
clientVars == <<session, reserved>>
boundVars == <<crashes, faults>>
vars == <<diskVars, vouched, progVars, clientVars, mishap, boundVars>>

Job == {"none", "fuse", "rollback", "symlink", "restore", "heal"}
Pc == {"idle", "unmount", "move", "unlink", "mount", "verify", "link", "flip"}
(* "chosen": about to start; "found" and "missing": about to start, and the *)
(* merge has looked for .claude.json; "running": a claude that found the    *)
(* account's own .claude.json when it started; "astray": one that did not.  *)
Session == {"none", "chosen", "found", "missing", "running", "astray"}
(* What can go wrong beyond a failed mount or a failed check.  "wedged": a  *)
(* mountpoint did not come down.  "broken": a rename, a removal, a link     *)
(* pass or a row write failed.  "lost": a mirror died, or did not answer a  *)
(* probe.  "stale": the loop acted on a row listed before it changed.       *)
(* "under": the daemon began to remake the directory under a client.        *)
(* "unguarded": a client got it half-converted.                            *)
Grave == {"broken", "lost", "stale", "under", "unguarded"}
Idle == [job |-> "none", pc |-> "idle", failed |-> FALSE, pre |-> {}]

TypeOK ==
    /\ row \in Kind
    /\ mount \in {"none", "live", "dead"}
    /\ at \in [Root -> [File -> SUBSET Version]]
    /\ links \in BOOLEAN
    /\ vouched \in BOOLEAN
    /\ op \in [job : Job, pc : Pc, failed : BOOLEAN, pre : SUBSET Version]
    /\ todo \subseteq File \X Version
    /\ start \in {"pending", "visiting", "done"}
    /\ aged \in BOOLEAN
    /\ late \subseteq Root \X File \X Version
    /\ session \in Session
    /\ reserved \in BOOLEAN
    /\ mishap \in {"none", "wedged", "grave"}
    /\ crashes \in Nat
    /\ faults \in Nat

Init ==
    /\ row \in Kind
    /\ mount = IF row = "fuse" THEN "live" ELSE "none"
    /\ at = [r \in Root |-> [f \in File |->
               IF r = (IF row = "fuse" THEN "priv" ELSE "dir") THEN {"own"} ELSE {}]]
    /\ links = (row = "symlink")
    /\ vouched = FALSE
    /\ op = Idle /\ todo = {} /\ late = {}
    /\ start = "pending" /\ aged = FALSE
    /\ session = "none" /\ reserved = FALSE
    /\ mishap = "none"
    /\ crashes = 0 /\ faults = 0

-----------------------------------------------------------------------------
(* Steps of the daemon's program.                                          *)

Fault(step) == step \in MayFail /\ faults < MaxFaults /\ faults' = faults + 1

Mark(S) == mishap' = IF S \cap Grave # {} THEN "grave"
                      ELSE IF S # {} /\ mishap = "none" THEN "wedged" ELSE mishap
NoMishap == UNCHANGED <<faults, mishap>>
Under == IF session = "none" THEN {} ELSE {"under"}

(* A process scan sees a client once it is a claude. *)
Scanned == session \in {"running", "astray"}

(* Each program moves the private files one way. *)
From(job) == IF job \in {"fuse", "heal"} THEN "dir" ELSE "priv"
To(job) == IF job \in {"fuse", "heal"} THEN "priv" ELSE "dir"

Held(root) == {e \in File \X Version : e[2] \in at[root][e[1]]}

Goto(pc) == op' = [op EXCEPT !.pc = pc] /\ UNCHANGED <<todo, late, start>>

(* MovePrivateEntries begins by listing the root it empties. *)
GotoMove(job) ==
    /\ op' = [op EXCEPT !.job = job, !.pc = "move", !.failed = FALSE]
    /\ todo' = Held(From(job)) /\ late' = {}
    /\ UNCHANGED start

Become(job, pc) ==
    /\ op' = [op EXCEPT !.job = job, !.pc = pc, !.failed = FALSE]
    /\ todo' = {} /\ late' = {}
    /\ UNCHANGED start

End ==
    /\ op' = Idle /\ todo' = {} /\ late' = {}
    /\ start' = IF start = "visiting" THEN "done" ELSE start

(* moveEntry renames a plain file, or a directory's child.  One that exists *)
(* on both sides is a collision and stays where it is; a plain file that a  *)
(* client puts there after moveEntry looked is overwritten by the rename.   *)
Collides(f, v) ==
    IF f \in Dirs THEN v \in at[To(op.job)][f] ELSE at[To(op.job)][f] # {}

Unseen(f) == f \notin Dirs /\ \A w \in at[To(op.job)][f] : <<To(op.job), f, w>> \in late

Carried(f, v) == IF f \in Dirs THEN {v} ELSE at[From(op.job)][f]

Moved(f, v) ==
    [at EXCEPT ![From(op.job)][f] = @ \ Carried(f, v),
               ![To(op.job)][f] = IF f \in Dirs THEN @ \cup {v} ELSE Carried(f, v)]

MoveEntry(f, v) ==
    /\ op.pc = "move" /\ <<f, v>> \in todo
    /\ todo' = todo \ {<<f, v>>}
    /\ \/ /\ ~Collides(f, v) \/ Unseen(f)
          /\ at' = Moved(f, v)
          /\ UNCHANGED op /\ NoMishap
       \/ /\ Collides(f, v)
          /\ op' = [op EXCEPT !.failed = TRUE]
          /\ UNCHANGED at /\ NoMishap
       \/ /\ Fault("move") /\ Mark({"broken"})
          /\ op' = [op EXCEPT !.failed = TRUE]
          /\ UNCHANGED at
    /\ UNCHANGED <<row, mount, links, vouched, late, start, aged, clientVars, crashes>>

(* A heal that fails is retried later; if the failure is genuine, and no    *)
(* claude is seen in the directory and none is awaited, the account falls   *)
(* back to symlinks (fallbackToSymlink).                                   *)
HealFails(S) ==
    \/ End /\ Mark(S)
    \/ ~reserved /\ ~Scanned /\ Become("symlink", "unmount") /\ Mark(S \cup Under)

\* Mutant: a conversion goes on after a failed move.
StopsIgnored == FALSE

(* A conversion stops at a failed move; rollback and restore lay the links  *)
(* all the same and report both errors.                                    *)
StopsHere == op.failed /\ op.job \in {"fuse", "symlink"}

MoveDone ==
    /\ op.pc = "move" /\ todo = {}
    /\ \/ StopsHere /\ End /\ Mark({})
       \/ op.job = "fuse" /\ ~StopsHere /\ Goto("unlink") /\ Mark({})
       \/ op.job \in {"rollback", "symlink", "restore"} /\ ~StopsHere /\ Goto("link") /\ Mark({})
       \/ op.job = "heal" /\ op.failed /\ HealFails({})
       \/ op.job = "heal" /\ ~op.failed /\ Goto("mount") /\ Mark({})
    /\ UNCHANGED <<diskVars, vouched, aged, clientVars, boundVars>>

(* SymlinkProvider.Teardown: links and excluded directories are removed.    *)
(* It may fail with only some of them gone.                                *)
Unlink ==
    /\ op.pc = "unlink"
    /\ links' = FALSE
    /\ \E gone \in SUBSET Dirs :
         /\ at' = [at EXCEPT !["dir"] = [f \in File |-> IF f \in gone THEN {} ELSE @[f]]]
         /\ \/ gone = Dirs /\ Goto("mount") /\ NoMishap
            \/ Fault("unlink") /\ End /\ Mark({"broken"})
    /\ UNCHANGED <<row, mount, vouched, aged, clientVars, crashes>>

(* Setup of the mirror.  A failure may leave a mountpoint that serves       *)
(* nothing; a conversion rolls back.                                       *)
Mount ==
    /\ op.pc = "mount"
    /\ \/ /\ mount' = "live"
          /\ \/ op.job = "fuse" /\ Goto("verify") /\ UNCHANGED vouched
             \/ op.job = "heal" /\ End /\ vouched' = TRUE
          /\ NoMishap
       \/ /\ mount # "live" /\ Fault("mount")
          /\ mount' \in {mount, "dead"}
          /\ \/ op.job = "fuse" /\ Become("rollback", "unmount") /\ Mark({})
             \/ op.job = "heal" /\ HealFails({})
          /\ UNCHANGED vouched
    /\ UNCHANGED <<row, at, links, aged, clientVars, crashes>>

(* The identity read before the conversion must be the one the mirror       *)
(* shows; an account that had none has nothing to verify.                  *)
IdentityShows == op.pre = {} \/ (mount = "live" /\ at["priv"][Identity] = op.pre)

Verify ==
    /\ op.pc = "verify"
    /\ \/ IdentityShows /\ Goto("flip") /\ UNCHANGED faults
       \/ ~IdentityShows /\ Become("rollback", "unmount") /\ UNCHANGED faults
       \/ Fault("verify") /\ Become("rollback", "unmount")
    /\ UNCHANGED <<diskVars, vouched, aged, clientVars, mishap, crashes>>

\* Mutant: a rollback lays the links and leaves the files behind.
AfterUnmountSkipped(job) ==
    IF job = "rollback" THEN Become(job, "link") ELSE GotoMove(job)

\* Mutant: reconcile looks at mounts only.
AfterUnmountForgets(job) == IF job = "restore" THEN End ELSE GotoMove(job)

(* With the mountpoint gone the files move.  A restore that finds nothing   *)
(* stranded is done (HealStrandedPrivate).                                 *)
AfterUnmount(job) ==
    IF job = "restore" /\ Held("priv") = {} THEN End ELSE GotoMove(job)

(* Teardown of the mirror, verified; one that does not come down ends the   *)
(* program.  A heal looks again first, and leaves a mirror that answers.    *)
Unmount ==
    /\ op.pc = "unmount"
    /\ \/ /\ mount' = "none" /\ AfterUnmount(op.job)
          /\ Mark(IF mount = "none" THEN {} ELSE Under)
          /\ UNCHANGED faults
       \/ /\ op.job = "heal" /\ mount = "live" /\ Goto("mount")
          /\ UNCHANGED mount /\ NoMishap
       \/ /\ mount # "none" /\ Fault("unmount")
          /\ IF op.job = "heal" THEN HealFails({"wedged"}) ELSE End /\ Mark({"wedged"})
          /\ UNCHANGED mount
    /\ UNCHANGED <<row, at, links, vouched, aged, clientVars, crashes>>

(* SymlinkProvider.Setup. *)
Link ==
    /\ op.pc = "link"
    /\ \/ /\ links' = TRUE
          /\ IF op.job = "symlink" THEN Goto("flip") ELSE End
          /\ NoMishap
       \/ Fault("link") /\ Mark({"broken"}) /\ End /\ links' = FALSE
    /\ UNCHANGED <<row, mount, at, vouched, aged, clientVars, crashes>>

(* SetAccountOverlayKind, the last step, and the note to the holder cache.  *)
Flip ==
    /\ op.pc = "flip"
    /\ \/ /\ row' = op.job
          /\ vouched' = (op.job = "fuse")
          /\ aged' = TRUE
          /\ End
          /\ NoMishap
       \/ /\ Fault("flip") /\ Mark({"broken"})
          /\ IF op.job = "fuse" THEN Become("rollback", "unmount") ELSE End
          /\ UNCHANGED <<row, vouched, aged>>
    /\ UNCHANGED <<mount, at, links, clientVars, crashes>>

-----------------------------------------------------------------------------
(* What starts the daemon's programs.                                      *)

Begin(job) ==
    op' = [Idle EXCEPT !.job = job, !.pc = "unmount"] /\ todo' = {} /\ late' = {}

(* convertAccount: not while the directory is handed out, and not under a   *)
(* claude that a scan sees unless forced.  Towards fuse a mountpoint is     *)
(* refused and the identity is noted.                                      *)
Migrate(to, force) ==
    /\ op = Idle /\ row # to
    /\ ~reserved /\ (force \/ ~Scanned)
    /\ \/ to = "symlink" /\ Begin("symlink")
       \/ /\ to = "fuse" /\ mount = "none"
          /\ op' = [Idle EXCEPT !.job = "fuse", !.pc = "move", !.pre = at["dir"][Identity]]
          /\ todo' = Held("dir") /\ late' = {}
    /\ Mark(Under)
    /\ UNCHANGED <<diskVars, vouched, start, aged, clientVars, boundVars>>

(* The loop and the supervisor act on rows they listed earlier. *)
Listed == IF aged THEN Kind ELSE {row}

Stale(kind) == IF kind = row THEN {} ELSE {"stale"}

(* Health reads a lost mirror as dead, and one that does not answer. *)
ReadsDead(kind) ==
    \/ mount # "live" /\ Mark(Stale(kind)) /\ UNCHANGED faults
    \/ mount = "live" /\ Fault("probe") /\ Mark(Stale(kind) \cup {"lost"})

ReadsWell(kind) == Mark(Stale(kind)) /\ UNCHANGED faults

(* reconcileAccount, once per start: a live mirror of a fuse row is         *)
(* adopted, a lost one healed; under any other row a mountpoint comes down  *)
(* and stranded files are restored.                                        *)
Reconcile(kind) ==
    /\ op = Idle /\ start = "pending" /\ kind \in Listed
    /\ \/ /\ kind = "fuse" /\ mount = "live" /\ ReadsWell(kind)
          /\ vouched' = TRUE /\ start' = "done"
          /\ UNCHANGED <<op, todo, late>>
       \/ /\ kind = "fuse" /\ ReadsDead(kind)
          /\ Begin("heal") /\ start' = "visiting"
          /\ UNCHANGED vouched
       \/ /\ kind = "symlink" /\ ReadsWell(kind)
          /\ Begin("restore") /\ start' = "visiting"
          /\ UNCHANGED vouched
    /\ UNCHANGED <<diskVars, aged, clientVars, crashes>>

(* An account claimed by a migrate is passed over. *)
ReconcileSkips ==
    /\ op # Idle /\ start = "pending"
    /\ start' = "done"
    /\ UNCHANGED <<diskVars, vouched, op, todo, late, aged, clientVars, mishap, boundVars>>

(* pollAccount's SyncOverlay: links are laid again, unless the directory is *)
(* a mountpoint; a lost mirror is healed.                                  *)
Poll(kind) ==
    /\ op = Idle /\ start = "done" /\ kind \in Listed
    /\ \/ /\ kind = "symlink" /\ mount = "none" /\ ReadsWell(kind)
          /\ links' = TRUE
          /\ UNCHANGED <<op, todo, late>>
       \/ /\ kind = "fuse" /\ ReadsDead(kind)
          /\ Begin("heal")
          /\ UNCHANGED links
    /\ UNCHANGED <<row, mount, at, vouched, start, aged, clientVars, crashes>>

(* The cache is refreshed from the holder: at the start of a poll, of a     *)
(* supervision tick, or by a select that finds it wanting.                 *)
Refresh ==
    /\ vouched' = (mount = "live")
    /\ UNCHANGED <<diskVars, progVars, clientVars, mishap, boundVars>>

-----------------------------------------------------------------------------
(* Clients.                                                                *)

\* Mutant: the claim is given back before the rollback.
ConvertingForward == op.job \in {"fuse", "symlink"}

(* tryReserve refuses while a conversion holds the account. *)
Converting == op.job \in {"fuse", "rollback", "symlink"}

Ready == IF row = "fuse" THEN vouched ELSE mount = "none"

(* An interrupted conversion left files in the root its row does not use,   *)
(* or a mountpoint its row does not call for.                              *)
HalfConverted ==
    \/ row = "fuse" /\ (mount # "live" \/ Held("dir") # {})
    \/ row = "symlink" /\ (mount # "none" \/ Held("priv") # {})

AtWork == op # Idle \/ HalfConverted

(* handleSelect hands out the directory, at any time after the start of the *)
(* daemon: the socket accepts while the startup reconcile runs.            *)
Select ==
    /\ session = "none" /\ ~Converting /\ Ready
    /\ session' = "chosen" /\ reserved' = TRUE
    /\ Mark(IF start # "done" /\ AtWork THEN {"unguarded"} ELSE {})
    /\ UNCHANGED <<diskVars, vouched, progVars, boundVars>>

(* A client without the daemon takes it as it is (prepareAccount lays the   *)
(* links again).                                                           *)
SelectAlone ==
    /\ session = "none"
    /\ session' = "chosen"
    /\ links' = (links \/ (row = "symlink" /\ mount = "none"))
    /\ Mark(IF AtWork THEN {"unguarded"} ELSE {})
    /\ UNCHANGED <<row, mount, at, vouched, progVars, reserved, boundVars>>

(* reservationTTL runs out, whether or not the claude has started. *)
Expire ==
    /\ reserved /\ reserved' = FALSE
    /\ UNCHANGED <<diskVars, vouched, progVars, session, mishap, boundVars>>

(* Where a program that opens the directory finds its private files. *)
Seen(f) ==
    CASE mount = "live" -> at["priv"][f]
      [] mount = "none" -> at["dir"][f]
      [] mount = "dead" -> {}

(* MergeBaseClaudeJSON, in the client, for a symlink row: it reads the      *)
(* account's file ...                                                      *)
MergeReads ==
    /\ session = "chosen" /\ row = "symlink" /\ mount = "none"
    /\ session' = IF at["dir"][Identity] = {} THEN "missing" ELSE "found"
    /\ UNCHANGED <<diskVars, vouched, progVars, reserved, mishap, boundVars>>

(* ... and writes it back whole.  A missing file is made afresh, unless a   *)
(* copy is stranded in the other root by then.                             *)
Merged ==
    CASE mount = "none" /\ session = "found" /\ at["dir"][Identity] = {} -> at["priv"][Identity]
      [] mount = "none" /\ session = "missing" /\ at["priv"][Identity] = {} -> {"fresh"}
      [] OTHER -> at["dir"][Identity]

(* What is written while a move is under way was not there when it listed.  *)
Noted(root, f, S) ==
    late' = IF op.pc \in {"move", "unlink"}
              THEN late \cup {<<root, f, v>> : v \in S \ at[root][f]} ELSE late

(* Claude starts in the directory, whatever the merge came to. *)
Launch ==
    /\ session \in {"chosen", "found", "missing"}
    /\ \E S \in {Merged, at["dir"][Identity]} :
         at' = [at EXCEPT !["dir"][Identity] = S] /\ Noted("dir", Identity, S)
    /\ UNCHANGED <<row, mount, links, vouched, op, todo, start, aged, reserved, mishap, boundVars>>
    /\ session' = IF "own" \in Seen(Identity)' THEN "running" ELSE "astray"

(* Claude writes a private file: what it does not find it starts afresh,    *)
(* and its .claude.json it rewrites from memory.                           *)
SessionWrites(f) ==
    LET root == IF mount = "live" THEN "priv" ELSE "dir"
        S == IF f \in Dirs THEN at[root][f] \cup {"fresh"}
             ELSE IF at[root][f] = {} \/ (f = Identity /\ session = "astray") THEN {"fresh"}
             ELSE at[root][f] IN
    /\ Scanned /\ mount # "dead"
    /\ at' = [at EXCEPT ![root][f] = S] /\ Noted(root, f, S)
    /\ UNCHANGED <<row, mount, links, vouched, op, todo, start, aged, clientVars, mishap, boundVars>>

(* The claude exits, or the client gives up before it starts one. *)
Leave ==
    /\ session # "none"
    /\ session' = "none"
    /\ UNCHANGED <<diskVars, vouched, progVars, reserved, mishap, boundVars>>

HolderDies ==
    /\ mount = "live" /\ Fault("holder") /\ Mark({"lost"})
    /\ mount' = "dead"
    /\ UNCHANGED <<row, at, links, vouched, progVars, clientVars, crashes>>

(* The daemon is killed and started again; the disk stays as it is, and so  *)
(* do the clients, of which the new daemon knows nothing.                  *)
Crash ==
    /\ crashes < MaxCrashes
    /\ crashes' = crashes + 1
    /\ op' = Idle /\ todo' = {} /\ late' = {} /\ vouched' = FALSE /\ start' = "pending"
    /\ aged' = FALSE /\ reserved' = FALSE
    /\ UNCHANGED <<diskVars, session, mishap, faults>>

-----------------------------------------------------------------------------
Program ==
    \/ \E f \in File, v \in Version : MoveEntry(f, v)
    \/ MoveDone \/ Unlink \/ Mount \/ Verify \/ Unmount \/ Link \/ Flip

Visit == ReconcileSkips \/ \E kind \in Kind : Reconcile(kind) \/ Poll(kind)

Clients ==
    \/ Select \/ SelectAlone \/ Expire \/ MergeReads \/ Launch \/ Leave
    \/ \E f \in File : SessionWrites(f)

Next ==
    \/ Program \/ Visit \/ Refresh
    \/ \E to \in Kind, force \in BOOLEAN : Migrate(to, force)
    \/ Clients \/ HolderDies \/ Crash

Spec == Init /\ [][Next]_vars

(* The daemon's program goes on, and its visits recur: each round of the    *)
(* loop lists the rows anew.                                               *)
FairSpec == Spec /\ WF_vars(Program) /\ WF_vars(Reconcile(row)) /\ WF_vars(Poll(row))

-----------------------------------------------------------------------------
(* Properties.                                                             *)

(* No private file is ever lost: what is in one of the two roots stays in   *)
(* one of them, whatever fails and wherever the daemon is killed            *)
(* (MovePrivateEntries never clobbers, Teardown removes directories only    *)
(* once they are empty).  Except: what a client writes while the files are  *)
(* being moved, which the move has not seen; and .claude.json, under a      *)
(* merge that looked for it in vain before it was restored, or under a      *)
(* claude that did not find it.                                            *)
NothingLost ==
    [][\A r \in Root, f \in File : \A v \in at[r][f] :
          \/ v \in at["dir"][f]' \cup at["priv"][f]'
          \/ <<r, f, v>> \in late
          \/ f = Identity /\ session \in {"missing", "astray"}]_vars

(* An account the daemon has visited and is not working on is in the shape  *)
(* of its row: nothing is half-converted (a failed mount, a failed check of *)
(* the identity and an interrupted conversion are all undone or completed). *)
SettledWhole ==
    op = Idle /\ start = "done" /\ mishap = "none" =>
        /\ row = "symlink" => mount = "none" /\ Held("priv") = {}
        /\ row = "fuse" /\ mount = "live" => Held("dir") = {}

(* A claude that starts finds the account's own .claude.json, and so never  *)
(* starts a second identity that blocks every later move.                  *)
LaunchSeesIdentity ==
    [][session # "astray" /\ session' = "astray" => mishap = "grave"]_vars

(* Whatever step the daemon was killed in, the account gets back into the   *)
(* shape of its row, links included, once migrates stop.                   *)
Converges ==
    <>[](~Converting /\ mishap = "none") =>
        []<>(IF row = "fuse"
               THEN mount = "live" /\ Held("dir") = {}
               ELSE mount = "none" /\ Held("priv") = {} /\ links)

(* Files stranded by a conversion that died midway are restored "before     *)
(* anything launches on the account" (the comment in reconcileAccount):     *)
(* select hands out no symlink account with files in the other root.        *)
RestoredBeforeLaunch ==
    [][~reserved /\ reserved' /\ row = "symlink" => Held("priv") = {}]_vars
=============================================================================
