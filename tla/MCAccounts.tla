----------------------------- MODULE MCAccounts -----------------------------
(* An instance of Accounts for TLC.                                        *)
EXTENDS Accounts, TLC

CONSTANTS root, alice, bob

\* Every name but the bootstrap's is like any other.
AccountSymmetry ==
    Permutations(Ids) \union Permutations({alice, bob}) \union Permutations(Tokens)
        \union Permutations(Handlers) \union Permutations(Servers)
=============================================================================
