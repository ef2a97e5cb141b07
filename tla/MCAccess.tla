------------------------------- MODULE MCAccess -------------------------------
(***************************************************************************)
(* TLC instance of how people and programs get in: Accounts and            *)
(* OAuthGrants.  They share no state, so one of them moves at a time,      *)
(* chosen at the start.                                                    *)
(***************************************************************************)
EXTENDS Accounts, OAuthGrants, TLC

VARIABLE focus

accessVars == <<focus, accountsVars, oauthVars>>

AccessInit == focus \in {"accounts", "oauth"} /\ AccountsInit /\ OAuthInit

OfAccounts(A) == focus = "accounts" /\ A /\ UNCHANGED <<focus, oauthVars>>
OfOAuth(A) == focus = "oauth" /\ A /\ UNCHANGED <<focus, accountsVars>>

AccessNext == OfAccounts(AccountsNext) \/ OfOAuth(OAuthNext)

AccessSpec == AccessInit /\ [][AccessNext]_accessVars

Symmetry ==
    Permutations(Workers) \cup Permutations(Sessions) \cup Permutations(Passwords)
        \cup Permutations(Handlers)
===============================================================================
