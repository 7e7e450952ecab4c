------------------------------ MODULE Passwords ------------------------------
(***************************************************************************)
(* Stored passwords (auth/password.go): a PHC string carries its algorithm, *)
(* its cost and its salt, and Verify derives with what it reads back.      *)
(* A string is a record of what splitting it at "$" gives; argon2 is the   *)
(* tuple of what goes into it.                                             *)
(***************************************************************************)
EXTENDS Naturals, Sequences

CONSTANT Garbage        \* text that is no number, or no base64

HashCost == <<<<"m", 65536>>, <<"t", 3>>, <<"p", 4>>>>

\* argon2.IDKey, as a function that is injective in all it takes.
IDKey(password, salt, cost, length) ==
    [length |-> length, from |-> <<password, salt, cost>>]

\* encode(salt, key, ...), of a fresh salt.
Hash(password, salt) ==
    [fields |-> 6, variant |-> "argon2id", version |-> 19, params |-> HashCost,
     salt |-> [length |-> 16, bytes |-> salt],
     key |-> IDKey(password, [length |-> 16, bytes |-> salt], HashCost, 32)]

\* parseParams: exactly m, t and p, in that order, positive, and p a uint8.
ReadableParams(params) ==
    /\ Len(params) = 3
    /\ \A i \in 1..3 :
        /\ params[i][1] = HashCost[i][1]
        /\ params[i][2] # Garbage
        /\ params[i][2] > 0
    /\ params[3][2] <= 255

\* decode, whose checks stop at the first that fails.
Decode(hash) ==
    CASE hash.fields # 6 \/ hash.variant # "argon2id" \/ hash.version = Garbage -> "invalid"
      [] hash.version # 19 -> "incompatible"
      [] ~ReadableParams(hash.params) -> "invalid"
      [] Garbage \in {hash.salt, hash.key} -> "invalid"
      [] hash.salt.length < 16 \/ hash.key.length < 16 -> "invalid"
      [] OTHER -> "ok"

\* Verify's two results: an error of decode, or whether the keys are equal.
Verify(password, hash) ==
    IF Decode(hash) # "ok" THEN "unreadable"
    ELSE IF IDKey(password, hash.salt, hash.params, hash.key.length) = hash.key
         THEN "match" ELSE "mismatch"
=============================================================================
