---------------------------- MODULE Environment ----------------------------
(***************************************************************************)
(* The environment variables of the shell (features/env.rs) under the      *)
(* commands export and unset.                                              *)
(*                                                                         *)
(* The table is a sequence of entries in array order.  A name of 64 bytes  *)
(* or more is cut when it is stored but compared in full when it is looked *)
(* up; such names are LongNames, and CutName is what is stored for each.   *)
(* Arguments are at most 127 bytes, so a value is never cut.               *)
(***************************************************************************)
EXTENDS Naturals, Sequences, SequencesExt

CONSTANTS
    Names,      \* names the user types
    LongNames,  \* those longer than ENV_KEY_MAX - 1
    CutName,    \* what is stored for all of them
    Values,
    EnvMax,     \* capacity of the table (ENV_MAX, 32 in the code)
    NotSet      \* the answer of env_get for an unknown name

ASSUME EnvMaxAssumption == EnvMax \in Nat \ {0}
ASSUME LongNamesAssumption == LongNames \subseteq Names /\ CutName \notin LongNames
ASSUME NotSetAssumption == NotSet \notin Values

VARIABLE env    \* G_ENV_KEYS, G_ENV_VALS and their lengths, up to G_ENV_COUNT

Entry == [key : Names \cup {CutName}, val : Values]

\* env_init fills the table before the first prompt, a script starts with
\* an empty one; the empty table reaches every other.
Init == env = <<>>

StoredKey(k) == IF k \in LongNames THEN CutName ELSE k

\* i is where a scan for the name k stops.
FirstAt(k, i) ==
    /\ i \in DOMAIN env
    /\ env[i].key = k
    /\ \A n \in 1 .. i - 1 : env[n].key # k

Known(k) == \E i \in DOMAIN env : env[i].key = k

\* env_get
Lookup(k) ==
    IF Known(k) THEN env[CHOOSE i \in DOMAIN env : FirstAt(k, i)].val ELSE NotSet

\* Mutant: the scan for an entry to overwrite is missing.
Export_AlwaysAppends(k, v) ==
    IF Len(env) >= EnvMax
    THEN UNCHANGED env
    ELSE env' = Append(env, [key |-> StoredKey(k), val |-> v])

\* env_set overwrites the value in place or appends; a full table ignores
\* the call.
Export(k, v) ==
    \/ \E i \in DOMAIN env :
          /\ FirstAt(k, i)
          /\ env' = [env EXCEPT ![i].val = v]
    \/ /\ ~Known(k)
       /\ IF Len(env) >= EnvMax
          THEN UNCHANGED env
          ELSE env' = Append(env, [key |-> StoredKey(k), val |-> v])

\* Mutant: the loop shifts the names but not the values.
Unset_NamesOnly(k) ==
    \/ \E i \in DOMAIN env :
          /\ FirstAt(k, i)
          /\ env' = [n \in 1 .. Len(env) - 1 |->
                        [key |-> RemoveAt(env, i)[n].key, val |-> env[n].val]]
    \/ ~Known(k) /\ UNCHANGED env

\* env_unset shifts the entries after the removed one.
Unset(k) ==
    \/ \E i \in DOMAIN env :
          /\ FirstAt(k, i)
          /\ env' = RemoveAt(env, i)
    \/ ~Known(k) /\ UNCHANGED env

Next == \E k \in Names : Unset(k) \/ \E v \in Values : Export(k, v)

Spec == Init /\ [][Next]_env

-----------------------------------------------------------------------------
(* Properties                                                              *)

\* The type of the table: within its arrays.
TypeOK == env \in Seq(Entry) /\ Len(env) <= EnvMax

\* No name has two entries: otherwise a stale value would come back after
\* unset, and a program would be started with the name twice.  The one
\* exception is the key that long names are cut to: each export of one adds
\* an entry, since its scan compares the whole name.
KeysUnique ==
    \A i, j \in DOMAIN env :
        env[i].key = env[j].key /\ env[i].key # CutName => i = j

Whole == Names \ (LongNames \cup {CutName})

Abstract == INSTANCE VariableMap
    WITH Names <- Whole, value <- [k \in Whole |-> Lookup(k)]

\* For the names that fit, the table with its scans and shifts implements a
\* map of bounded size, in which a step changes one variable, however many
\* long names are exported and unset beside them.
ImplementsVariableMap == Abstract!Spec
=============================================================================
