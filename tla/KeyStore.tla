------------------------------ MODULE KeyStore ------------------------------
(***************************************************************************)
(* What the vault promises, without files, commands or crashes: a key is   *)
(* on disk in a set of forms, in the clear or encrypted under a password,  *)
(* and no form is taken away but the clear one of a key that is sealed.    *)
(***************************************************************************)
CONSTANTS
    Keys,       \* every key there is or will be
    Passwords,
    Clear       \* the form of a key that is not encrypted

VARIABLES
    forms,      \* the forms in which each key is on disk
    unguarded   \* keys nothing is promised of

store == <<forms, unguarded>>

Forms == Passwords \cup {Clear}

StoreInit ==
    /\ forms \in [Keys -> {{}} \cup {{x} : x \in Forms}]
    /\ unguarded = {}

\* A new key is written, in the clear or sealed.
Create(k, x) ==
    /\ forms[k] = {}
    /\ forms' = [forms EXCEPT ![k] = {x}]
    /\ UNCHANGED unguarded

\* A key that is in the clear gets its one sealed form.
Seal(k, pw) ==
    /\ forms[k] = {Clear}
    /\ forms' = [forms EXCEPT ![k] = {Clear, pw}]
    /\ UNCHANGED unguarded

\* The clear form goes, the sealed one stays.
Uncover(k) ==
    /\ Clear \in forms[k] /\ forms[k] # {Clear}
    /\ forms' = [forms EXCEPT ![k] = @ \ {Clear}]
    /\ UNCHANGED unguarded

\* Nothing is promised any more of some keys.
Excuse ==
    /\ unguarded \subseteq unguarded' /\ unguarded' \subseteq Keys
    /\ UNCHANGED forms

\* Such a key goes.
Lose(k) ==
    /\ k \in unguarded
    /\ forms' = [forms EXCEPT ![k] = {}]
    /\ UNCHANGED unguarded

StoreNext ==
    \/ \E k \in Keys :
         \/ \E x \in Forms : Create(k, x)
         \/ \E pw \in Passwords : Seal(k, pw)
         \/ Uncover(k) \/ Lose(k)
    \/ Excuse

StoreSpec == StoreInit /\ [][StoreNext]_store
=============================================================================
