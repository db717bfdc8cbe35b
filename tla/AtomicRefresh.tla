----------------------------- MODULE AtomicRefresh -----------------------------
(***************************************************************************)
(* What the refreshes of one account promise about its credential, without *)
(* saying how many processes there are or what they lock: whoever goes to  *)
(* the provider spends the newest refresh token, and what comes back is    *)
(* kept at once, as if asking and storing were one step.  It says what may *)
(* break such a chain, and how; a broken one is whole again when the       *)
(* account has a token that is accepted.                                   *)
(*                                                                         *)
(* Credentials are numbered as the provider issues them.                   *)
(***************************************************************************)
EXTENDS Naturals

CONSTANT None  \* a credential without a refresh token

VARIABLES
    kept,    \* the newest credential that the account has
    issued,  \* the newest that there is
    valid,   \* the oldest whose refresh token is still the current one
    blame    \* what has broken the chain

refreshVars == <<kept, issued, valid, blame>>

RefreshInit == kept = 0 /\ issued = 0 /\ valid = 0 /\ blame = {}

(* The account can be refreshed, and needs no login.                        *)
Usable == kept # None /\ kept >= valid

(* The provider answers, with a new refresh token or without.               *)
Answer == issued' = issued + 1 /\ valid' \in {valid, issued + 1}
NoAnswer == UNCHANGED <<issued, valid>>

Refresh ==
    /\ blame = {} /\ Usable
    /\ Answer /\ kept' = issued'
    /\ UNCHANGED blame

(* What came back could not be stored; the refresh token is the same in the *)
(* credential before.                                                      *)
FallBack ==
    /\ blame = {} /\ kept > valid
    /\ kept' \in valid..kept
    /\ NoAnswer /\ UNCHANGED blame

(* The provider has answered, and nobody has the answer.                    *)
Lose ==
    /\ blame = {} /\ blame' = {"lost"}
    /\ Usable /\ Answer /\ valid' = issued' /\ UNCHANGED kept

(* What came back is not stored, because that fails or its process dies.    *)
Drop ==
    /\ blame = {} /\ blame' \in {{"unsaved"}, {"killed"}}
    /\ NoAnswer

(* A claude goes to the provider while a worker is at it, or a worker while *)
(* a claude is.                                                             *)
Meet ==
    /\ blame = {} /\ blame' = {"overlap"}
    /\ kept' \in {kept, issued'}
    /\ Answer \/ NoAnswer

(* Of a broken chain only the provider keeps to its rules.                  *)
Broken ==
    /\ blame # {} /\ blame \subseteq blame'
    /\ Answer \/ NoAnswer

(* The store has a token that is accepted, by a late write or a login.      *)
Mend ==
    /\ blame # {} /\ blame' = {}
    /\ Answer \/ NoAnswer
    /\ Usable'

RefreshNext == Refresh \/ FallBack \/ Lose \/ Drop \/ Meet \/ Broken \/ Mend

RefreshSpec == RefreshInit /\ [][RefreshNext]_refreshVars

(* An account whose chain is not broken needs no login (ensureFreshToken).  *)
NeverStranded == blame = {} => Usable
=============================================================================
