-------------------------------- MODULE Seed --------------------------------
(***************************************************************************)
(* The development dataset (store/seed.go, store/seed_data.go): one        *)
(* transaction of INSERT ... ON CONFLICT DO NOTHING in a fixed order, run  *)
(* any number of times against a database people sign up to, delete games  *)
(* from by hand, and sign in to.                                           *)
(***************************************************************************)
EXTENDS Passwords

CONSTANTS
    Sample,         \* the rows of the dataset, in the order they are queued
    Needs,          \* of each row, the rows its foreign keys are for
    SampleUsers,    \* those that are accounts
    SampleGames,    \* those that are games; the others are links and leaves
    AddressOf,      \* users.email of each of SampleUsers
    Addresses,      \* addresses people use
    Typed,          \* passwords they type
    Nobody          \* no account; no answer yet

\* How the dataset is made: accounts need nothing, and rows need accounts and games.
WellFormed ==
    /\ Len(Sample) \in Nat
    /\ \A i \in 1..Len(Sample) : Needs[Sample[i]] \subseteq SampleUsers \cup SampleGames
    /\ \A u \in SampleUsers : Needs[u] = {}

VARIABLES
    rows,           \* the rows of the dataset that are there
    accounts,       \* of each address, the password it is said to have, and its hash
    login           \* the last POST /auth/login, and its answer

vars == <<rows, accounts, login>>

\* bcrypt of "password": $2a$10$ and 53 characters.
SeedPassHash ==
    [fields |-> 4, variant |-> "2a", version |-> Garbage, params |-> <<>>,
     salt |-> Garbage, key |-> Garbage]

Init ==
    /\ rows = {}
    /\ accounts = [a \in Addresses |-> Nobody]
    /\ login = Nobody

\* POST /users, or an invitation accepted.
SignUp(a, password) ==
    /\ accounts[a] = Nobody
    /\ accounts' = [accounts EXCEPT ![a] = [password |-> password,
                                            hash |-> Hash(password, a)]]
    /\ UNCHANGED <<rows, login>>

\* DELETE FROM games by hand: its links go with it, a variant stops it.
RemoveGame(g) ==
    /\ g \in rows \cap SampleGames
    /\ ~\E v \in rows \cap SampleGames : g \in Needs[v]
    /\ rows' = rows \ {row \in rows : row = g \/ g \in Needs[row]}
    /\ UNCHANGED <<accounts, login>>

\* Rows ON CONFLICT leaves out though they are not there: somebody else has
\* the address.
Clashing == {u \in SampleUsers \ rows : accounts[AddressOf[u]] # Nobody}

Before(i) == (rows \cup {Sample[k] : k \in 1..(i - 1)}) \ Clashing

\* A row is inserted that refers to one that is not there.
Refused ==
    \E i \in 1..Len(Sample) :
        Sample[i] \notin rows \cup Clashing /\ ~(Needs[Sample[i]] \subseteq Before(i))

\* The whole set in one transaction: all of it that was missing, or nothing.
Seed ==
    /\ ~Refused
    /\ rows' = Before(Len(Sample) + 1)
    /\ accounts' = [a \in Addresses |->
            IF \E u \in SampleUsers \ (rows \cup Clashing) : AddressOf[u] = a
            THEN [password |-> "password", hash |-> SeedPassHash]
            ELSE accounts[a]]
    /\ UNCHANGED login

Answer(a, password) ==
    IF accounts[a] = Nobody THEN 401
    ELSE LET found == Verify(password, accounts[a].hash) IN
         CASE found = "match"      -> 200
           [] found = "mismatch"   -> 401
           [] found = "unreadable" -> 500

\* handleLogin, as far as the password goes: an unknown address is answered
\* like a wrong password, a hash Verify cannot read is an internal error.
Login(a, password) ==
    /\ login' = [address |-> a, password |-> password, status |-> Answer(a, password)]
    /\ UNCHANGED <<rows, accounts>>

Next ==
    \/ Seed
    \/ \E g \in SampleGames : RemoveGame(g)
    \/ \E a \in Addresses, p \in Typed : SignUp(a, p) \/ Login(a, p)

Spec == Init /\ [][Next]_vars

\* What is there refers to what is there, however the dataset and the deletes
\* of games alternate: a run that would leave a row without what it needs (the
\* address of an author is another account's) is refused whole.
ReferencesHold ==
    \A row \in rows : Needs[row] \subseteq rows

\* Whoever types the password of an account signs in, and nobody else: the
\* accounts of the dataset have a hash that parses.
OwnersSignIn == [][
    login' # login =>
        (login'.status = 200 <=>
            /\ accounts[login'.address] # Nobody
            /\ accounts[login'.address].password = login'.password)]_vars
=============================================================================
