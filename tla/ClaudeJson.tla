------------------------------ MODULE ClaudeJson ------------------------------
(***************************************************************************)
(* The settings that all accounts share (internal/overlay/claudejson.go,   *)
(* fuse_claudejson.go, fuse_mirror.go, internal/pool/merge.go).  claude    *)
(* keeps identity and preferences in one .claude.json.  Each account has a *)
(* file of its own; the preferences of ~/.claude.json, the base, are laid  *)
(* over it when it is read through the mirror, and what a session commits  *)
(* there is written through to the base.  An account without a mirror gets *)
(* the base's preferences when a session is launched, and gives none back. *)
(*                                                                         *)
(* A document is a function from keys to values.  Two kinds of keys are    *)
(* enough: those that stay at home (ClaudeJSONPrivateKeys, the history of  *)
(* a project), whose value says whose they are, and those that are shared  *)
(* (every other one, and the approvals of a project), whose value says     *)
(* when they were set.  The merge cache compares modification times and    *)
(* sizes of two files, which no write leaves as they were: a key is        *)
(* current, or it has passed for good.  (Nobody takes the base away.)      *)
(***************************************************************************)
EXTENDS Naturals

CONSTANTS
    Account,     \* accounts
    Session,     \* claude processes of accounts, and
    Home,        \* the account of each
    Vanilla,     \* a claude without account, which uses the base
    PrivateKey, SharedKey,
    NoVal,       \* a key that a document does not have
    Absent,      \* a file that is not there
    Corrupt,     \* a file that cannot be parsed
    None,        \* nobody
    MaxStamp,    \* bound: times a preference is set
    MaxFaults    \* bound: corrupted bases, deaths of the holder

ASSUME HomeAssumption == Home \in [Session -> Account]
ASSUME NameAssumption ==
    /\ Vanilla \notin Account
    /\ PrivateKey \cap SharedKey = {}
    /\ None \notin Session /\ NoVal \notin Account \cup {Vanilla} \cup Nat
ASSUME BoundAssumption == MaxStamp \in Nat /\ MaxFaults \in Nat

Key == PrivateKey \cup SharedKey
Value == Account \cup {Vanilla, NoVal} \cup (0..MaxStamp)
Doc == [Key -> Value]
ASSUME FileAssumption == Absent \notin Doc /\ Corrupt \notin Doc /\ Absent # Corrupt

File == Doc \cup {Absent, Corrupt}

VARIABLES
    kind,      \* each account's recorded overlay kind
    base,      \* ~/.claude.json
    private,   \* each account's own file
    view,      \* each mirror's merge cache
    lock,      \* the session in writeThrough's critical section
    dirty,     \* sessions whose handle has written
    work,      \* what each session is doing
    vanilla,   \* what the claude without account remembers
    writeErr,  \* mirrors whose last write-through failed
    stamp,     \* preferences set so far (bound)
    owes,      \* history: sessions that committed and have not pushed it
    pushed,    \* history: mirrors whose present file has been pushed
    crossed,   \* history: sessions past whose reading the base was written by a claude
    faults     \* failures so far (bound)

mirrorVars == <<view, lock, dirty, writeErr>>
historyVars == <<owes, pushed, crossed>>
vars == <<kind, base, private, mirrorVars, work, vanilla, stamp, historyVars, faults>>

(* The accounts with a mirror.                                              *)
Mirrored == {a \in Account : kind[a] = "fuse"}

View == [ok : BOOLEAN, current : BOOLEAN, buf : File]
NoView == [ok |-> FALSE, current |-> FALSE, buf |-> Absent]

(* "mem" is what the session knows of its file, "priv" and "under" are what *)
(* a merge or a write-through has read of its file and of the base, "fresh" *)
(* says that the files are still those of its cache key.                    *)
Pc == {"idle", "stat", "base", "fd", "half", "push", "payload", "write", "launch", "install"}
WorkState == [pc : Pc, mem : File, priv : File, under : File, fresh : BOOLEAN]
Idle(mem) == [pc |-> "idle", mem |-> mem, priv |-> Absent, under |-> Absent, fresh |-> FALSE]

TypeOK ==
    /\ kind \in [Account -> {"fuse", "symlink"}]
    /\ base \in File
    /\ private \in [Account -> File]
    /\ view \in [Account -> View]
    /\ lock \in Session \cup {None}
    /\ dirty \subseteq Session
    /\ work \in [Session -> WorkState]
    /\ vanilla \in File
    /\ writeErr \subseteq Account
    /\ stamp \in 0..MaxStamp
    /\ owes \subseteq Session /\ pushed \subseteq Account /\ crossed \subseteq Session
    /\ faults \in Nat

(* What somebody's file holds at first.                                     *)
Own(who, shared) == [k \in Key |-> IF k \in PrivateKey THEN who ELSE shared]

Init ==
    /\ base \in {Absent, Own(Vanilla, NoVal)}
    /\ kind \in [Account -> {"fuse", "symlink"}]
    /\ \E missing \in SUBSET (Account \ Mirrored) :
         private = [a \in Account |-> IF a \in missing THEN Absent ELSE Own(a, NoVal)]
    /\ view = [a \in Account |-> NoView]
    /\ lock = None /\ dirty = {}
    /\ work = [s \in Session |-> Idle(Absent)]
    /\ vanilla = Absent
    /\ writeErr = {} /\ stamp = 0
    /\ owes = {} /\ pushed = Account /\ crossed = {}
    /\ faults = 0

Fault == faults < MaxFaults /\ faults' = faults + 1

-----------------------------------------------------------------------------
(* Merging and splitting documents.                                         *)

Parses(f) == f \notin {Absent, Corrupt}

\* Mutant: what the base has wins, whatever the key.
MergeAll(priv, under) ==
    IF under = Absent THEN priv
    ELSE [k \in Key |-> IF under[k] # NoVal THEN under[k] ELSE priv[k]]

(* MergeClaudeJSON, where both parse: the base wins on what is shared.      *)
Merge(priv, under) ==
    IF under = Absent THEN priv
    ELSE [k \in Key |-> IF k \in SharedKey /\ under[k] # NoVal THEN under[k] ELSE priv[k]]

Mergeable(priv, under) == under = Absent \/ (Parses(priv) /\ Parses(under))

(* SplitClaudeJSON: the payload wins on what is shared; nothing is deleted. *)
Split(payload, under) ==
    [k \in Key |-> IF k \in SharedKey /\ payload[k] # NoVal THEN payload[k] ELSE under[k]]

(* One preference is set, or none.                                          *)
Edited(doc) ==
    {doc} \cup {[doc EXCEPT ![k] = stamp + 1] : k \in IF stamp < MaxStamp THEN SharedKey ELSE {}}
Stamp(doc, new) == stamp' = IF new = doc THEN stamp ELSE stamp + 1

-----------------------------------------------------------------------------
(* A file changes: no cache key that was made before is current again.      *)

Step(s, fields) == work' = [work EXCEPT ![s] = fields]
At(s, pc) == [work[s] EXCEPT !.pc = pc]
Reading == {"stat", "base"}

PastViews(mirrors) ==
    view' = [m \in Account |-> IF m \in mirrors THEN [view[m] EXCEPT !.current = FALSE] ELSE view[m]]

Past(mirrors, states) ==
    [s \in Session |-> IF Home[s] \in mirrors /\ states[s].pc \in Reading
                       THEN [states[s] EXCEPT !.fresh = FALSE] ELSE states[s]]

-----------------------------------------------------------------------------
(* Reading through the mirror (claudeJSONView.merged, on an open and on a   *)
(* Getattr of the path).                                                    *)

\* Mutant: the key is made after the files have been read.
KeyWhenRead(fresh) == TRUE

(* The key of the files as they were before they were read.                 *)
KeyOf(fresh) == fresh

(* statKey: a hit is served at once.                                        *)
Open(s) ==
    LET v == view[Home[s]] IN
    /\ Home[s] \in Mirrored /\ work[s].pc = "idle" /\ private[Home[s]] # Absent
    /\ IF v.ok /\ v.current
         THEN Step(s, Idle(v.buf))
         ELSE Step(s, [Idle(work[s].mem) EXCEPT !.pc = "stat", !.fresh = TRUE])
    /\ UNCHANGED <<base, private, mirrorVars, vanilla, stamp, historyVars, faults>>

ReadPrivate(s) ==
    /\ work[s].pc = "stat"
    /\ Step(s, [At(s, "base") EXCEPT !.priv = private[Home[s]]])
    /\ UNCHANGED <<base, private, mirrorVars, vanilla, stamp, historyVars, faults>>

(* What cannot be merged is served as it is, and not cached.                *)
ReadBase(s) ==
    LET m == Home[s]
        priv == work[s].priv IN
    /\ work[s].pc = "base"
    /\ IF Mergeable(priv, base)
         THEN /\ Step(s, Idle(Merge(priv, base)))
              /\ view' = [view EXCEPT ![m] = [ok |-> TRUE, current |-> KeyOf(work[s].fresh),
                                             buf |-> Merge(priv, base)]]
         ELSE Step(s, Idle(priv)) /\ UNCHANGED view
    /\ UNCHANGED <<base, private, lock, dirty, writeErr, vanilla, stamp, historyVars, faults>>

-----------------------------------------------------------------------------
(* Committing.  A session writes what it remembers, edited or not.          *)

(* The account's file changes.                                              *)
Commit(s, doc) ==
    /\ private' = [private EXCEPT ![Home[s]] = doc]
    /\ PastViews({Home[s]})
    /\ pushed' = pushed \ {Home[s]}

\* Mutant: a rename in the mirror is only a rename.
AfterRenameIdle(s) == "idle"

AfterRename(s) == IF Home[s] \in Mirrored THEN "push" ELSE "idle"

(* A temporary file is renamed over it: mirrorFS.Rename, or the system's.   *)
Rename(s) ==
    /\ work[s].pc = "idle" /\ Parses(work[s].mem)
    /\ \E doc \in Edited(work[s].mem) :
         /\ Commit(s, doc) /\ Stamp(work[s].mem, doc)
         /\ work' = Past({Home[s]}, [work EXCEPT ![s] = [Idle(doc) EXCEPT !.pc = AfterRename(s)]])
    /\ owes' = IF Home[s] \in Mirrored THEN owes \cup {s} ELSE owes
    /\ UNCHANGED <<base, lock, dirty, writeErr, vanilla, crossed, faults>>

(* A handle for writing: a real one.                                        *)
OpenWrite(s) ==
    /\ Home[s] \in Mirrored /\ work[s].pc = "idle" /\ private[Home[s]] # Absent
    /\ Step(s, At(s, "fd"))
    /\ UNCHANGED <<base, private, mirrorVars, vanilla, stamp, historyVars, faults>>

(* The first of several writes leaves half a document.                      *)
WriteHalf(s) ==
    /\ work[s].pc = "fd" /\ s \notin dirty /\ Parses(work[s].mem)
    /\ Commit(s, Corrupt)
    /\ work' = Past({Home[s]}, [work EXCEPT ![s].pc = "half"])
    /\ dirty' = dirty \cup {s}
    /\ owes' = owes \cup {s}
    /\ UNCHANGED <<base, lock, writeErr, vanilla, stamp, crossed, faults>>

WriteRest(s) ==
    /\ work[s].pc = "half"
    /\ \E doc \in Edited(work[s].mem) :
         /\ Commit(s, doc) /\ Stamp(work[s].mem, doc)
         /\ work' = Past({Home[s]}, [work EXCEPT ![s] = [Idle(doc) EXCEPT !.pc = "fd"]])
    /\ UNCHANGED <<base, lock, dirty, writeErr, vanilla, owes, crossed, faults>>

TakeDirty(s) == s \in dirty

Release(s) ==
    /\ work[s].pc = "fd"
    /\ dirty' = dirty \ {s}
    /\ Step(s, IF TakeDirty(s) THEN At(s, "push") ELSE At(s, "idle"))
    /\ UNCHANGED <<base, private, view, lock, writeErr, vanilla, stamp, historyVars, faults>>

-----------------------------------------------------------------------------
(* writeThrough.                                                            *)

\* Mutant: every mirror has a lock of its own, or none.
LockFreeAlways == TRUE

LockFree == lock = None

(* It is over, with an error or not.                                        *)
PushEnds(s, err) ==
    /\ lock' = None
    /\ writeErr' = IF err THEN writeErr \cup {Home[s]} ELSE writeErr \ {Home[s]}
    /\ owes' = owes \ {s}

(* A base that is not there is not minted.                                  *)
PushReadBase(s) ==
    /\ work[s].pc = "push" /\ LockFree
    /\ IF base = Absent
         THEN /\ PushEnds(s, FALSE) /\ Step(s, Idle(work[s].mem))
              /\ pushed' = pushed \cup {Home[s]}
         ELSE /\ lock' = s /\ Step(s, [At(s, "payload") EXCEPT !.under = base])
              /\ UNCHANGED <<writeErr, owes, pushed>>
    /\ crossed' = crossed \ {s}
    /\ UNCHANGED <<base, private, view, dirty, vanilla, stamp, faults>>

PushReadPayload(s) ==
    LET payload == private[Home[s]] IN
    /\ work[s].pc = "payload"
    /\ IF Parses(payload) /\ Parses(work[s].under)
         THEN /\ Step(s, [At(s, "write") EXCEPT !.priv = payload])
              /\ pushed' = pushed \cup {Home[s]}
              /\ UNCHANGED <<lock, writeErr, owes>>
         ELSE PushEnds(s, TRUE) /\ Step(s, Idle(work[s].mem)) /\ UNCHANGED pushed
    /\ UNCHANGED <<base, private, view, dirty, vanilla, stamp, crossed, faults>>

(* Nothing is written when nothing differs.                                 *)
PushWrite(s) ==
    LET new == Split(work[s].priv, work[s].under) IN
    /\ work[s].pc = "write"
    /\ PushEnds(s, FALSE)
    /\ IF new = work[s].under
         THEN Step(s, Idle(work[s].mem)) /\ UNCHANGED <<base, view>>
         ELSE /\ base' = new
              /\ PastViews(Mirrored)
              /\ work' = Past(Mirrored, [work EXCEPT ![s] = Idle(work[s].mem)])
    /\ UNCHANGED <<private, dirty, vanilla, stamp, pushed, crossed, faults>>

(* A file cannot be read, or the base cannot be written.                    *)
PushFails(s) ==
    /\ work[s].pc \in {"payload", "write"} \/ (work[s].pc = "push" /\ LockFree)
    /\ Fault
    /\ PushEnds(s, TRUE) /\ Step(s, Idle(work[s].mem))
    /\ pushed' = pushed \ {Home[s]}
    /\ UNCHANGED <<base, private, view, dirty, vanilla, stamp, crossed>>

-----------------------------------------------------------------------------
(* An account without a mirror (mergeClaudeJSON, before a claude starts).   *)

(* The base is read first; one that is absent leaves the file as it is, and *)
(* one that cannot be parsed fails the merge, not the launch.               *)
LaunchReadBase(s) ==
    /\ Home[s] \notin Mirrored /\ work[s].pc = "idle"
    /\ IF Parses(base)
         THEN Step(s, [Idle(work[s].mem) EXCEPT !.pc = "launch", !.under = base])
         ELSE Step(s, Idle(private[Home[s]]))
    /\ UNCHANGED <<base, private, mirrorVars, vanilla, stamp, historyVars, faults>>

(* A file that is missing is made from the base alone.                      *)
Empty == [k \in Key |-> NoVal]

LaunchReadPrivate(s) ==
    LET file == private[Home[s]] IN
    /\ work[s].pc = "launch"
    /\ IF file = Corrupt THEN Step(s, Idle(file))
       ELSE Step(s, [At(s, "install") EXCEPT !.priv = IF file = Absent THEN Empty ELSE file])
    /\ UNCHANGED <<base, private, mirrorVars, vanilla, stamp, historyVars, faults>>

LaunchInstall(s) ==
    LET doc == Merge(work[s].priv, work[s].under) IN
    /\ work[s].pc = "install"
    /\ Step(s, Idle(doc))
    /\ private' = [private EXCEPT ![Home[s]] =
                      IF doc = work[s].priv /\ doc # Empty THEN @ ELSE doc]
    /\ UNCHANGED <<base, mirrorVars, vanilla, stamp, historyVars, faults>>

-----------------------------------------------------------------------------
(* The rest of the world.                                                   *)

VanillaRead ==
    /\ vanilla' = IF base = Absent THEN Own(Vanilla, NoVal) ELSE base
    /\ UNCHANGED <<base, private, mirrorVars, work, stamp, historyVars, faults>>

(* Nobody but a write-through heeds the lock.                               *)
BaseChanges(file) ==
    /\ base' = file
    /\ PastViews(Mirrored)
    /\ crossed' = crossed \cup {s \in Session : work[s].pc \in {"payload", "write"}}
    /\ work' = Past(Mirrored, work)
    /\ UNCHANGED <<private, lock, dirty, writeErr, owes, pushed>>

VanillaWrite ==
    /\ Parses(vanilla)
    /\ \E doc \in Edited(vanilla) :
         /\ BaseChanges(doc) /\ Stamp(vanilla, doc) /\ vanilla' = doc
    /\ UNCHANGED faults

(* Somebody's editor leaves half a file.                                    *)
BaseCorrupts ==
    /\ Parses(base) /\ Fault
    /\ BaseChanges(Corrupt)
    /\ UNCHANGED <<vanilla, stamp>>

(* The holder dies: its mirrors' memory goes, and write-throughs under way; *)
(* what is lost with them counts as pushed.                                 *)
HolderDies ==
    LET pushing == {s \in Session : work[s].pc \in {"push", "payload", "write", "fd", "half"}} IN
    /\ Mirrored # {} /\ Fault
    /\ view' = [a \in Account |-> NoView]
    /\ lock' = None /\ dirty' = {} /\ writeErr' = {}
    /\ work' = [s \in Session |-> IF Home[s] \in Mirrored THEN Idle(work[s].mem) ELSE work[s]]
    /\ owes' = {} /\ crossed' = {}
    /\ pushed' = pushed \cup {Home[s] : s \in pushing} \cup writeErr
    /\ UNCHANGED <<base, private, vanilla, stamp>>

-----------------------------------------------------------------------------
SessionStep(s) ==
    \/ Open(s) \/ ReadPrivate(s) \/ ReadBase(s)
    \/ Rename(s) \/ OpenWrite(s) \/ WriteHalf(s) \/ WriteRest(s) \/ Release(s)
    \/ PushReadBase(s) \/ PushReadPayload(s) \/ PushWrite(s) \/ PushFails(s)
    \/ LaunchReadBase(s) \/ LaunchReadPrivate(s) \/ LaunchInstall(s)

Next ==
    /\ \/ \E s \in Session : SessionStep(s)
       \/ VanillaRead \/ VanillaWrite \/ BaseCorrupts \/ HolderDies
    /\ UNCHANGED kind

Spec == Init /\ [][Next]_vars

-----------------------------------------------------------------------------
(* Properties.                                                              *)

(* A document that belongs to "who", as far as it says.                     *)
Belongs(file, who) == Parses(file) => \A k \in PrivateKey : file[k] \in {who, NoVal}

(* Whatever is merged, split, remembered and written back in whatever       *)
(* order, what is an account's own never gets into the base, into another's *)
(* file or into another's session, nor what is the base's into any of them  *)
(* (ClaudeJSONPrivateKeys).                                                 *)
IdentityStaysHome ==
    /\ Belongs(base, Vanilla) /\ Belongs(vanilla, Vanilla)
    /\ \A a \in Account : Belongs(private[a], a)
    /\ \A s \in Session : Belongs(work[s].mem, Home[s]) /\ Belongs(work[s].priv, Home[s])

(* A view that would be served without reading the files is what reading    *)
(* them would give (claudeJSONView.merged: the key is made first).          *)
ViewFresh == \A m \in Mirrored :
    view[m].ok /\ view[m].current =>
        Mergeable(private[m], base) /\ view[m].buf = Merge(private[m], base)

(* A write-through happens for a commit only, and changes in the base what  *)
(* the account's file has of the shared keys, and no more; unless another   *)
(* claude has written the base since it was read (writeThroughMu, takeDirty).*)
PushKeepsOthers == [][\A s \in Session : PushWrite(s) /\ base' # base =>
    /\ s \in owes
    /\ s \in crossed \/ \A k \in Key :
         base'[k] # base[k] => k \in SharedKey /\ base'[k] = work[s].priv[k]]_vars

(* Once nobody is about to push, the account's file has been: the last one, *)
(* not one before it.  Or the failure shows (writeErr).                     *)
NoCommitForgotten == \A m \in Mirrored :
    \/ m \in pushed \/ m \in writeErr
    \/ \E s \in Session : Home[s] = m /\ work[s].pc \in {"fd", "half", "push", "payload", "write"}
=============================================================================
