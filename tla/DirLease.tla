------------------------------ MODULE DirLease ------------------------------
(***************************************************************************)
(* What the daemon's claims promise about one account directory, without   *)
(* saying how: a claude may use the directory, or the daemon may remake    *)
(* it, but never both.  It is a readers-writers lease whose readers are    *)
(* the sessions handed out by select and whose writer is an overlay        *)
(* conversion or the replacement of the mount holder.  A replacement takes *)
(* every directory served by the holder in one step, hence the sets.       *)
(***************************************************************************)
CONSTANTS Account, Client

VARIABLES
    users,    \* [Account -> SUBSET Client]: claudes launching or running there
    remaking  \* SUBSET Account: directories the daemon is remaking

leaseVars == <<users, remaking>>

LeaseTypeOK ==
    /\ users \in [Account -> SUBSET Client]
    /\ remaking \subseteq Account

LeaseInit ==
    /\ users = [a \in Account |-> {}]
    /\ remaking = {}

(* A select hands the directory to one more claude. *)
Enter(c, a) ==
    /\ a \notin remaking
    /\ users' = [users EXCEPT ![a] = @ \cup {c}]
    /\ UNCHANGED remaking

(* The claude exits, or never started. *)
Leave(c, a) ==
    /\ c \in users[a]
    /\ users' = [users EXCEPT ![a] = @ \ {c}]
    /\ UNCHANGED remaking

(* The daemon starts remaking directories nobody uses. *)
BeginRemake(S) ==
    /\ \A a \in S : users[a] = {}
    /\ remaking' = remaking \cup S
    /\ UNCHANGED users

EndRemake(S) ==
    /\ S \subseteq remaking
    /\ remaking' = remaking \ S
    /\ UNCHANGED users

LeaseNext ==
    \/ \E c \in Client, a \in Account : Enter(c, a) \/ Leave(c, a)
    \/ \E S \in SUBSET Account : BeginRemake(S) \/ EndRemake(S)

LeaseSpec == LeaseInit /\ [][LeaseNext]_leaseVars

(* A directory being remade has no user: no claude runs in a directory      *)
(* whose links, mirror or private files are being moved (the comment on     *)
(* tryReserve and fallbackToSymlink in server.go).                          *)
Exclusion == \A a \in remaking : users[a] = {}
=============================================================================
