------------------------------- MODULE Accounts -------------------------------
(***************************************************************************)
(* How accounts come and go (internal/pool/account.go, seed.go,            *)
(* identity.go; cli/add.go, login.go, misc.go; keychain.LocateCredential;  *)
(* UpsertAccount, DeleteAccount and NextAccountIndex of the store).        *)
(*                                                                         *)
(* An account is a row, a directory and a credential; the credential is an *)
(* item of the keychain, or a file in the directory.  A "ccp add" prepares *)
(* the directory, has a claude log in there, and registers what that has   *)
(* left; nothing is locked while it does, and whatever it leaves behind is *)
(* found by the next add that takes the same index.  A claude that starts  *)
(* without a credential takes a copy of plain claude's, and that copy must *)
(* not become an account.                                                  *)
(*                                                                         *)
(* An overlay's kind, labels and the usage check make no difference here.  *)
(***************************************************************************)
EXTENDS Naturals

CONSTANTS
    Index,      \* indices of accounts
    User,       \* subscriptions a user can log in with
    Adder,      \* "ccp add" commands
    Remover,    \* "ccp remove" commands
    Main,       \* plain claude's credential
    Backend,    \* what claudes here can write to: the keychain, files
    Nil,        \* no identity, credential or index
    MaxAdds,    \* bound: adds begun
    MaxLoose,   \* bound: logins that outlive their add
    MaxFaults   \* bound: teardowns and keychain calls that fail

ASSUME IndexAssumption == Index \subseteq Nat
ASSUME BackendAssumption == Backend \subseteq {"item", "file"}
ASSUME NameAssumption == Main \notin User /\ Nil \notin User \cup {Main} /\ Nil \notin Index
ASSUME CommandBounds == {MaxAdds, MaxLoose, MaxFaults} \subseteq Nat

VARIABLES
    rows,    \* accounts in the store
    dir,     \* the directory of each index
    item,    \* the keychain item of each index
    add,     \* the adds
    remove,  \* the removes
    loose,   \* indices with a claude that logs in and whose add is over
    raced,   \* history: indices that two commands have been at work on at once
    odd,     \* history: indices where a step has parted identity and credential,
             \* or where a remove has ended halfway through the directory
    adds, looses, faults   \* bounds

accountsVars == <<rows, dir, item, add, remove, loose, raced, odd, adds, looses, faults>>

Cred == User \cup {Main, Nil}

(* "ident" is the oauthAccount of .claude.json, "file" .credentials.json.   *)
DirState == [there : BOOLEAN, ident : User \cup {Nil}, file : Cred]
NoDir == [there |-> FALSE, ident |-> Nil, file |-> Nil]

(* "kept" is SeedKeptExisting; "claude" is the login that the add has       *)
(* started, by where it writes, and "in" when the user has logged in.       *)
AddPc == {"setup", "seed", "purge", "login", "dup", "identity", "locate", "upsert",
          "undo", "undir"}
AddState == [pc : AddPc \cup {"idle"}, id : Index \cup {Nil}, kept : BOOLEAN,
             claude : Backend \cup {"off", "in"}]
AddIdle == [pc |-> "idle", id |-> Nil, kept |-> FALSE, claude |-> "off"]

RemoveState == [pc : {"idle", "dir", "item", "row"}, id : Index \cup {Nil}]
RemoveIdle == [pc |-> "idle", id |-> Nil]

AccountsTypeOK ==
    /\ rows \subseteq Index
    /\ dir \in [Index -> DirState] /\ item \in [Index -> Cred]
    /\ \A i \in Index : ~dir[i].there => dir[i] = NoDir
    /\ add \in [Adder -> AddState] /\ remove \in [Remover -> RemoveState]
    /\ \A a \in Adder : add[a].pc = "idle" <=> add[a].id = Nil
    /\ \A r \in Remover : remove[r].pc = "idle" <=> remove[r].id = Nil
    /\ loose \subseteq Index /\ raced \subseteq Index /\ odd \subseteq Index
    /\ adds \in Nat /\ looses \in Nat /\ faults \in Nat

AccountsInit ==
    /\ rows = {} /\ dir = [i \in Index |-> NoDir] /\ item = [i \in Index |-> Nil]
    /\ add = [a \in Adder |-> AddIdle] /\ remove = [r \in Remover |-> RemoveIdle]
    /\ loose = {} /\ raced = {} /\ odd = {}
    /\ adds = 0 /\ looses = 0 /\ faults = 0

-----------------------------------------------------------------------------
(* What is on the disk and in the keychain.                                 *)

(* LocateCredential: the item, else the file.                               *)
Credential(i) == IF item[i] # Nil THEN item[i] ELSE dir[i].file

(* NextAccountIndex: the lowest that no row has.                            *)
Free(i) == i \notin rows /\ \A j \in Index : j < i => j \in rows

(* Another command that this one does not see: an add, and the claude of    *)
(* one, while it has no row; a remove while it still has one.               *)
Added(i) == i \in loose \/ \E a \in Adder : add[a].id = i
Removed(i) == \E r \in Remover : remove[r].id = i

(* removeAccountDir, once Teardown has let go of it.                        *)
RemovedDir(i) == [dir EXCEPT ![i] = NoDir]

(* What there may be left of it if it ends halfway, at Teardown or among    *)
(* the files.                                                               *)
Leavings(i) == {[there |-> dir[i].there, ident |-> u, file |-> c] :
                   u \in {dir[i].ident, Nil}, c \in {dir[i].file, Nil}}

(* claude writes the credential to the keychain or, where there is none to  *)
(* be reached, to the file; it makes the directory if that has gone.        *)
Writes(i, cred, ident, backend) ==
    /\ item' = IF backend = "item" THEN [item EXCEPT ![i] = cred] ELSE item
    /\ dir' = [dir EXCEPT ![i] = [there |-> TRUE, ident |-> ident,
                                  file |-> IF backend = "file" THEN cred ELSE @.file]]

(* A claude that starts and finds no credential may copy plain claude's.    *)
Adopts(i, backend) ==
    \/ UNCHANGED <<item, dir>>
    \/ Credential(i) = Nil /\ Writes(i, Main, dir[i].ident, backend)

(* claude /login.  An older credential in the keychain goes on hiding one   *)
(* in the file.                                                             *)
LogsIn(i, backend) == \E u \in User :
    /\ Writes(i, u, u, backend)
    /\ odd' = IF backend = "file" /\ item[i] \notin {Nil, u} THEN odd \cup {i} ELSE odd \ {i}

-----------------------------------------------------------------------------
(* ccp add.                                                                 *)

Becomes(a, fields) == add' = [add EXCEPT ![a] = fields]
Stage(a, pc) == [add[a] EXCEPT !.pc = pc]

Parts(left, cred) == left.ident # Nil /\ cred # left.ident
Parted(i) == Parts(dir[i], Credential(i))

(* An add that ends with nothing registered, wherever it is: an error, ^C,  *)
(* a kill.  What it has made stays, and the claude too if it runs in        *)
(* another terminal.                                                        *)
Stop(a) ==
    /\ add[a].pc # "idle"
    /\ Becomes(a, AddIdle)
    /\ \/ UNCHANGED <<loose, looses>>
       \/ /\ add[a].pc = "login" /\ add[a].claude # "in" /\ looses < MaxLoose
          /\ loose' = loose \cup {add[a].id} /\ looses' = looses + 1
    /\ odd' = IF Parted(add[a].id) THEN odd \cup {add[a].id} ELSE odd
    /\ UNCHANGED <<rows, dir, item, remove, raced, adds, faults>>

AddIndex(a) ==
    /\ add[a].pc = "idle" /\ adds < MaxAdds
    /\ \E i \in Index :
         /\ Free(i)
         /\ Becomes(a, [AddIdle EXCEPT !.pc = "setup", !.id = i])
         /\ raced' = IF Added(i) THEN raced \cup {i} ELSE raced
    /\ adds' = adds + 1
    /\ UNCHANGED <<rows, dir, item, remove, loose, odd, looses, faults>>

AddSetup(a) ==
    LET i == add[a].id IN
    /\ add[a].pc = "setup"
    /\ dir' = [dir EXCEPT ![i].there = TRUE]
    /\ Becomes(a, Stage(a, "seed"))
    /\ UNCHANGED <<rows, item, remove, loose, raced, odd, adds, looses, faults>>

(* seedClaudeJSON: a .claude.json with an identity is kept; any other is    *)
(* written over, without one.                                               *)
AddSeed(a) ==
    LET i == add[a].id IN
    /\ add[a].pc = "seed"
    /\ Becomes(a, IF dir[i].ident # Nil THEN [Stage(a, "login") EXCEPT !.kept = TRUE] ELSE Stage(a, "purge"))
    /\ dir' = [dir EXCEPT ![i].there = TRUE]
    /\ UNCHANGED <<rows, item, remove, loose, raced, odd, adds, looses, faults>>

(* A stale item is deleted; a stale file is not looked for.                 *)
AddPurge(a) ==
    LET i == add[a].id IN
    /\ add[a].pc = "purge"
    /\ item' = [item EXCEPT ![i] = Nil]
    /\ Becomes(a, Stage(a, "login"))
    /\ UNCHANGED <<rows, dir, remove, loose, raced, odd, adds, looses, faults>>

StartClaude(a) ==
    /\ add[a].pc = "login" /\ add[a].claude = "off"
    /\ \E backend \in Backend :
         /\ Adopts(add[a].id, backend)
         /\ Becomes(a, [add[a] EXCEPT !.claude = backend])
    /\ UNCHANGED <<rows, remove, loose, raced, odd, adds, looses, faults>>

Login(a) ==
    /\ add[a].pc = "login" /\ add[a].claude \in Backend
    /\ LogsIn(add[a].id, add[a].claude)
    /\ Becomes(a, [add[a] EXCEPT !.claude = "in"])
    /\ UNCHANGED <<rows, remove, loose, raced, adds, looses, faults>>

(* The watcher sees an identity and closes claude, or the user leaves it,   *)
(* with or without a login, or says that the login is done.                 *)
LoginOver(a) ==
    /\ add[a].pc = "login"
    /\ Becomes(a, [Stage(a, "dup") EXCEPT !.claude = "off"])
    /\ UNCHANGED <<rows, dir, item, remove, loose, raced, odd, adds, looses, faults>>

Duplicate(i) == dir[i].ident # Nil /\ \E j \in rows : dir[j].ident = dir[i].ident

(* checkDuplicate: a user who is asked may decline.                         *)
CheckDuplicate(a) ==
    /\ add[a].pc = "dup"
    /\ \/ Becomes(a, Stage(a, "identity"))
       \/ Duplicate(add[a].id) /\ Becomes(a, Stage(a, "undo"))
    /\ UNCHANGED <<rows, dir, item, remove, loose, raced, odd, adds, looses, faults>>

\* Mutant: a credential is taken for a login.
LoggedInByCred(i) == TRUE

(* AccountIdentity: what a copied credential does not come with.            *)
LoggedIn(i) == dir[i].ident # Nil

(* FinalizeAdd.  One that fails is rolled back if the user likes.           *)
AddIdentity(a) ==
    /\ add[a].pc = "identity"
    /\ \/ LoggedIn(add[a].id) /\ Becomes(a, Stage(a, "locate"))
       \/ ~LoggedIn(add[a].id) /\ Becomes(a, Stage(a, "undo"))
    /\ UNCHANGED <<rows, dir, item, remove, loose, raced, odd, adds, looses, faults>>

(* LocateCredential and Reassert, which writes back what it reads.          *)
AddLocate(a) ==
    /\ add[a].pc = "locate"
    /\ \/ Credential(add[a].id) # Nil /\ Becomes(a, Stage(a, "upsert")) /\ UNCHANGED faults
       \/ Credential(add[a].id) = Nil /\ Becomes(a, Stage(a, "undo")) /\ UNCHANGED faults
       \/ faults < MaxFaults /\ faults' = faults + 1 /\ Becomes(a, Stage(a, "undo"))
    /\ UNCHANGED <<rows, dir, item, remove, loose, raced, odd, adds, looses>>

Register(a) ==
    /\ add[a].pc = "upsert"
    /\ rows' = rows \cup {add[a].id}
    /\ Becomes(a, AddIdle)
    /\ UNCHANGED <<dir, item, remove, loose, raced, odd, adds, looses, faults>>

(* AbandonAdd: the item goes first, or stays if that fails; then the        *)
(* directory, or a part of it.                                              *)
AbandonItem(a) ==
    LET i == add[a].id IN
    /\ add[a].pc = "undo"
    /\ \/ item' = [item EXCEPT ![i] = Nil] /\ UNCHANGED faults
       \/ faults < MaxFaults /\ faults' = faults + 1 /\ UNCHANGED item
    /\ Becomes(a, Stage(a, "undir"))
    /\ UNCHANGED <<rows, dir, remove, loose, raced, odd, adds, looses>>

AbandonDir(a) ==
    LET i == add[a].id IN
    /\ add[a].pc = "undir"
    /\ \/ dir' = RemovedDir(i) /\ odd' = odd \ {i} /\ UNCHANGED faults
       \/ /\ faults < MaxFaults /\ faults' = faults + 1
          /\ \E left \in Leavings(i) :
               /\ dir' = [dir EXCEPT ![i] = left]
               /\ odd' = IF Parts(left, IF item[i] # Nil THEN item[i] ELSE left.file)
                            THEN odd \cup {i} ELSE odd
    /\ Becomes(a, AddIdle)
    /\ UNCHANGED <<rows, item, remove, loose, raced, adds, looses>>

(* A login whose add is over: it is left alone, or comes late.              *)
LooseLogin(i) ==
    /\ i \in loose
    /\ \E backend \in Backend :
         \/ Adopts(i, backend) /\ UNCHANGED odd
         \/ LogsIn(i, backend)
    /\ loose' = loose \ {i}
    /\ UNCHANGED <<rows, add, remove, raced, adds, looses, faults>>

-----------------------------------------------------------------------------
(* ccp remove (Manager.Remove).                                             *)

Go(r, fields) == remove' = [remove EXCEPT ![r] = fields]

\* Mutant: the row goes first.
RowLeavesFirst(pc) == pc = "dir"

(* The row is what goes last.                                               *)
RowLeaves(pc) == pc = "row"

Leaving(i, pc) == IF RowLeaves(pc) THEN rows \ {i} ELSE rows

RemoveGet(r) ==
    /\ remove[r].pc = "idle"
    /\ \E i \in rows :
         /\ Go(r, [pc |-> "dir", id |-> i])
         /\ raced' = IF Added(i) \/ Removed(i) THEN raced \cup {i} ELSE raced
    /\ UNCHANGED <<rows, dir, item, add, loose, odd, adds, looses, faults>>

RemoveDir(r) ==
    LET i == remove[r].id IN
    /\ remove[r].pc = "dir"
    /\ dir' = RemovedDir(i) /\ odd' = odd \ {i}
    /\ rows' = Leaving(i, "dir")
    /\ \E pc \in {"item", "row"} : Go(r, [remove[r] EXCEPT !.pc = pc])   \* --keep-credential
    /\ UNCHANGED <<item, add, loose, raced, adds, looses, faults>>

RemoveItem(r) ==
    LET i == remove[r].id IN
    /\ remove[r].pc = "item"
    /\ item' = [item EXCEPT ![i] = Nil]
    /\ Go(r, [remove[r] EXCEPT !.pc = "row"])
    /\ UNCHANGED <<rows, dir, add, loose, raced, odd, adds, looses, faults>>

RemoveRow(r) ==
    /\ remove[r].pc = "row"
    /\ rows' = Leaving(remove[r].id, "row")
    /\ Go(r, RemoveIdle)
    /\ UNCHANGED <<dir, item, add, loose, raced, odd, adds, looses, faults>>

(* It ends halfway, and the row stays.                                      *)
RemoveHalf(r) ==
    LET i == remove[r].id IN
    /\ remove[r].pc = "dir"
    /\ \E left \in Leavings(i) :
         /\ left # dir[i]
         /\ dir' = [dir EXCEPT ![i] = left] /\ odd' = odd \cup {i}
    /\ Go(r, RemoveIdle)
    /\ UNCHANGED <<rows, item, add, loose, raced, adds, looses, faults>>

(* Any call of it may fail, and it may be killed.                           *)
RemoveStops(r) ==
    /\ remove[r].pc # "idle"
    /\ Go(r, RemoveIdle)
    /\ UNCHANGED <<rows, dir, item, add, loose, raced, odd, adds, looses, faults>>

-----------------------------------------------------------------------------
AddStep(a) ==
    \/ Stop(a) \/ AddIndex(a) \/ AddSetup(a) \/ AddSeed(a) \/ AddPurge(a)
    \/ StartClaude(a) \/ Login(a) \/ LoginOver(a) \/ CheckDuplicate(a)
    \/ AddIdentity(a) \/ AddLocate(a) \/ Register(a) \/ AbandonItem(a) \/ AbandonDir(a)

RemoveStep(r) ==
    \/ RemoveGet(r) \/ RemoveDir(r) \/ RemoveItem(r) \/ RemoveRow(r) \/ RemoveHalf(r) \/ RemoveStops(r)

AccountsNext ==
    \/ \E a \in Adder : AddStep(a)
    \/ \E r \in Remover : RemoveStep(r)
    \/ \E i \in Index : LooseLogin(i)

AccountsSpec == AccountsInit /\ [][AccountsNext]_accountsVars

-----------------------------------------------------------------------------
(* Properties.                                                              *)

(* An account in the pool has the login of the identity its directory       *)
(* shows, and never a copy of plain claude's: whatever earlier adds, kept   *)
(* credentials and refused or abandoned logins have left under its index,   *)
(* unless two commands have been at work on it at once, a step has parted   *)
(* the two or a remove has ended halfway (PrepareAdd, seedClaudeJSON,       *)
(* FinalizeAdd).                                                            *)
OwnLogin == \A i \in rows \ (raced \cup odd) :
    dir[i].there => dir[i].ident # Nil /\ Credential(i) = dir[i].ident

(* What an account consists of is only touched by a remove of it, and what  *)
(* is no account only by the adds: no add prepares, purges or rolls back    *)
(* over an account, and no remove takes away what an add of the same index  *)
(* has made since (NextAccountIndex, AbandonAdd, Remove).                   *)
AccountsStay == [][\A i \in Index \ raced' :
    dir'[i] # dir[i] \/ item'[i] # item[i] => (i \in rows <=> Removed(i))]_accountsVars
===============================================================================
