-------------------------- MODULE ProgramsProofs --------------------------
(***************************************************************************)
(* Proofs about Environment for every set of names and values and every    *)
(* table size, and about Programs and ScriptMeaning for every set of       *)
(* files, scripts and commands, every depth limit and every size of the    *)
(* argument array.                                                         *)
(***************************************************************************)
EXTENDS ScriptMeaning, SequenceLemmas, SequenceTheorems, FiniteSetTheorems, TLAPS

-----------------------------------------------------------------------------
(* The variable table                                                      *)

LEMMA InitType == Init => TypeOK
BY EmptySeq, EnvMaxAssumption DEF Init, TypeOK

LEMMA NextType == TypeOK /\ [Next]_env => TypeOK'
<1> SUFFICES ASSUME TypeOK, [Next]_env PROVE TypeOK'
  OBVIOUS
<1>1. env \in Seq(Entry) /\ Len(env) <= EnvMax /\ Len(env) \in Nat
  BY LenProperties DEF TypeOK
<1>2. CASE UNCHANGED env
  BY <1>2 DEF TypeOK
<1>3. ASSUME NEW k \in Names, NEW v \in Values, Export(k, v) PROVE TypeOK'
  <2>1. ASSUME NEW i \in DOMAIN env, env' = [env EXCEPT ![i].val = v] PROVE TypeOK'
    <3>1. env[i] \in Entry /\ i \in 1 .. Len(env)
      BY <1>1, ElementOfSeq, LenProperties
    <3>2. [env[i] EXCEPT !.val = v] \in Entry
      BY <3>1 DEF Entry
    <3>3. env' = [env EXCEPT ![i] = [env[i] EXCEPT !.val = v]]
      BY <2>1
    <3>4. env' \in Seq(Entry) /\ Len(env') = Len(env)
      BY <1>1, <3>1, <3>2, <3>3, ExceptSeq
    <3> QED BY <1>1, <3>4 DEF TypeOK
  <2>2. CASE Len(env) < EnvMax /\ env' = Append(env, [key |-> StoredKey(k), val |-> v])
    <3>1. [key |-> StoredKey(k), val |-> v] \in Entry
      BY DEF Entry, StoredKey
    <3>2. env' \in Seq(Entry) /\ Len(env') = Len(env) + 1
      BY <1>1, <2>2, <3>1, AppendProperties
    <3> QED BY <1>1, <2>2, <3>2, EnvMaxAssumption DEF TypeOK
  <2> QED BY <1>1, <1>2, <1>3, <2>1, <2>2, EnvMaxAssumption DEF Export
<1>4. ASSUME NEW k \in Names, Unset(k) PROVE TypeOK'
  <2>1. ASSUME NEW i \in DOMAIN env, env' = RemoveAt(env, i) PROVE TypeOK'
    <3>1. env' \in Seq(Entry) /\ Len(env') = Len(env) - 1
      BY <1>1, <2>1, RemoveShifts
    <3> QED BY <1>1, <3>1, EnvMaxAssumption DEF TypeOK
  <2> QED BY <1>2, <1>4, <2>1 DEF Unset
<1> QED BY <1>2, <1>3, <1>4 DEF Next

\* The table never outgrows its arrays.
THEOREM TypeCorrect == Spec => []TypeOK
<1>1. Init => TypeOK
  BY InitType
<1>2. TypeOK /\ [Next]_env => TypeOK'
  BY NextType
<1> QED BY <1>1, <1>2, PTL DEF Spec

LEMMA NextUnique == TypeOK /\ KeysUnique /\ [Next]_env => KeysUnique'
<1> SUFFICES ASSUME TypeOK, KeysUnique, [Next]_env PROVE KeysUnique'
  OBVIOUS
<1>1. /\ env \in Seq(Entry)
      /\ Len(env) \in Nat
      /\ DOMAIN env = 1 .. Len(env)
  BY LenProperties DEF TypeOK
<1>2. CASE UNCHANGED env
  BY <1>2 DEF KeysUnique
<1>3. ASSUME NEW k \in Names, NEW v \in Values, Export(k, v) PROVE KeysUnique'
  <2>1. ASSUME NEW i \in DOMAIN env, env' = [env EXCEPT ![i].val = v]
        PROVE  KeysUnique'
    <3>1. DOMAIN env' = DOMAIN env
      BY <2>1
    <3>2. \A n \in DOMAIN env : env[n] \in Entry
      BY <1>1, ElementOfSeq
    <3>3. ASSUME NEW n \in DOMAIN env PROVE env'[n].key = env[n].key
      <4>1. CASE n = i
        BY <2>1, <3>2, <4>1 DEF Entry
      <4>2. CASE n # i
        BY <2>1, <4>2
      <4> QED BY <4>1, <4>2
    <3> QED BY <3>1, <3>3 DEF KeysUnique
  <2>2. CASE ~Known(k) /\ env' = Append(env, [key |-> StoredKey(k), val |-> v])
    <3> DEFINE e == [key |-> StoredKey(k), val |-> v]
    <3>1. e \in Entry /\ (e.key = k \/ e.key = CutName)
      BY DEF Entry, StoredKey
    <3>2. /\ env' \in Seq(Entry)
          /\ Len(env') = Len(env) + 1
          /\ \A n \in 1 .. Len(env) : env'[n] = env[n]
          /\ env'[Len(env) + 1] = e
      <4>1. /\ Append(env, e) \in Seq(Entry)
            /\ Len(Append(env, e)) = Len(env) + 1
            /\ \A n \in 1 .. Len(env) : Append(env, e)[n] = env[n]
            /\ Append(env, e)[Len(env) + 1] = e
        BY <1>1, <3>1, AppendProperties
      <4> QED BY <2>2, <4>1
    <3>3. DOMAIN env' = 1 .. Len(env) + 1
      BY <3>2, LenProperties
    <3> HIDE DEF e
    <3>4. \A n \in DOMAIN env' :
             IF n \in DOMAIN env THEN env'[n] = env[n]
             ELSE env'[n] = e /\ n = Len(env) + 1
      BY <1>1, <3>2, <3>3
    <3>5. \A n \in DOMAIN env : env[n].key # k
      BY <2>2 DEF Known
    <3> QED BY <3>1, <3>4, <3>5 DEF KeysUnique
  <2> QED BY <1>2, <1>3, <2>1, <2>2 DEF Export
<1>4. ASSUME NEW k \in Names, Unset(k) PROVE KeysUnique'
  <2>1. ASSUME NEW i \in DOMAIN env, env' = RemoveAt(env, i) PROVE KeysUnique'
    <3> DEFINE Old(n) == IF n < i THEN n ELSE n + 1
    <3>1. \A n \in DOMAIN env' : Old(n) \in DOMAIN env /\ env'[n] = env[Old(n)]
      BY <1>1, <2>1, RemoveKeepsEntries
    <3>2. DOMAIN env' = 1 .. Len(env) - 1
      BY <1>1, <2>1, RemoveShifts
    <3>3. \A n, m \in DOMAIN env' : Old(n) = Old(m) => n = m
      BY <1>1, <3>2
    <3> HIDE DEF Old
    <3> QED BY <3>1, <3>3 DEF KeysUnique
  <2> QED BY <1>2, <1>4, <2>1 DEF Unset
<1> QED BY <1>2, <1>3, <1>4 DEF Next

\* A name is never listed twice, at any table size and after any sequence of
\* export and unset; only the key that long names are cut to can be.
THEOREM NamesAreUnique == Spec => []KeysUnique
<1>1. Init => TypeOK /\ KeysUnique
  BY InitType DEF Init, KeysUnique
<1>2. TypeOK /\ KeysUnique /\ [Next]_env => (TypeOK /\ KeysUnique)'
  BY NextType, NextUnique
<1> QED BY <1>1, <1>2, PTL DEF Spec

-----------------------------------------------------------------------------
(* The table implements the map                                            *)

\* Some entry gives the name n the value x.
Holds(n, x) == \E i \in DOMAIN env : env[i].key = n /\ env[i].val = x

\* For a name that fits, a lookup answers with the one entry there is.
LookupsHold ==
    \A n \in Whole :
        /\ \A x : Holds(n, x) => x \in Values /\ Lookup(n) = x
        /\ Known(n) => \E x : Holds(n, x)
        /\ ~Known(n) => Lookup(n) = NotSet

LEMMA LookupFindsEntry == TypeOK /\ KeysUnique => LookupsHold
<1> SUFFICES ASSUME TypeOK, KeysUnique, NEW n \in Whole
             PROVE  /\ \A x : Holds(n, x) => x \in Values /\ Lookup(n) = x
                    /\ Known(n) => \E x : Holds(n, x)
                    /\ ~Known(n) => Lookup(n) = NotSet
  BY DEF LookupsHold
<1>1. DOMAIN env = 1 .. Len(env) /\ \A i \in DOMAIN env : env[i] \in Entry
  BY LenProperties, ElementOfSeq DEF TypeOK
<1>2. ASSUME NEW i \in DOMAIN env, env[i].key = n
      PROVE  env[i].val \in Values /\ Lookup(n) = env[i].val
  <2>1. \A j \in DOMAIN env : env[j].key = n => j = i
    BY <1>2 DEF KeysUnique, Whole
  <2>2. i \in Nat /\ Len(env) \in Nat /\ i <= Len(env)
    BY <1>1, LenProperties DEF TypeOK
  <2>3. FirstAt(n, i)
    <3>1. \A m \in 1 .. i - 1 : m \in DOMAIN env /\ m # i
      BY <1>1, <2>2
    <3> QED BY <1>2, <2>1, <3>1 DEF FirstAt
  <2>4. \A j \in DOMAIN env : FirstAt(n, j) <=> j = i
    BY <2>1, <2>3 DEF FirstAt
  <2>5. (CHOOSE j \in DOMAIN env : FirstAt(n, j)) = i
    BY <2>4
  <2> QED BY <1>1, <1>2, <2>5 DEF Lookup, Known, Entry
<1> QED BY <1>2 DEF Holds, Known, Lookup

\* The names that are set are no more than the entries.
LEMMA SetNamesFit ==
    ASSUME TypeOK
    PROVE  /\ Cardinality({ n \in Whole : Known(n) }) \in Nat
           /\ Cardinality({ n \in Whole : Known(n) }) <= Len(env)
<1> DEFINE S == { n \in Whole : Known(n) }
           f == [n \in S |-> CHOOSE i \in DOMAIN env : env[i].key = n]
<1>1. Len(env) \in Nat /\ DOMAIN env = 1 .. Len(env)
  BY LenProperties DEF TypeOK
<1>2. \A n \in S : f[n] \in DOMAIN env /\ env[f[n]].key = n
  BY DEF Known
<1>3. f \in Injection(S, 1 .. Len(env))
  BY <1>1, <1>2 DEF Injection, IsInjective
<1>4. IsFiniteSet(1 .. Len(env)) /\ Cardinality(1 .. Len(env)) = Len(env)
  <2>1. 1 \in Int /\ Len(env) \in Int
    BY <1>1
  <2>2. /\ IsFiniteSet(1 .. Len(env))
        /\ Cardinality(1 .. Len(env)) = IF 1 > Len(env) THEN 0 ELSE Len(env) - 1 + 1
    BY <2>1, FS_Interval, Zenon
  <2> QED BY <1>1, <2>2
<1> HIDE DEF S, f
<1>5. IsFiniteSet(S) /\ Cardinality(S) <= Cardinality(1 .. Len(env))
  BY <1>3, <1>4, FS_Injection
<1>6. Cardinality(S) \in Nat
  BY <1>5, FS_CardinalityType
<1> QED BY <1>4, <1>5, <1>6 DEF S

\* What the actions do to the entries of a name n.
LEMMA ExportEntries ==
    ASSUME TypeOK, KeysUnique, NEW k \in Names, NEW v \in Values, Export(k, v),
           NEW n \in Whole
    PROVE  /\ n # k => \A x : Holds(n, x)' <=> Holds(n, x)
           /\ n = k => Holds(n, v)' \/ UNCHANGED env
<1>1. /\ env \in Seq(Entry) /\ Len(env) \in Nat /\ DOMAIN env = 1 .. Len(env)
      /\ \A i \in DOMAIN env : env[i] \in Entry
  BY LenProperties, ElementOfSeq DEF TypeOK
<1>2. ASSUME NEW i \in DOMAIN env, FirstAt(k, i), env' = [env EXCEPT ![i].val = v]
      PROVE  /\ n # k => \A x : Holds(n, x)' <=> Holds(n, x)
             /\ n = k => Holds(n, v)'
  <2>1. DOMAIN env' = DOMAIN env /\ \A j \in DOMAIN env : j # i => env'[j] = env[j]
    BY <1>2
  <2>2. env'[i].key = env[i].key /\ env'[i].val = v /\ env[i].key = k
    BY <1>1, <1>2 DEF FirstAt, Entry
  <2> QED BY <2>1, <2>2 DEF Holds
<1>3. CASE /\ ~Known(k) /\ ~(Len(env) >= EnvMax)
           /\ env' = Append(env, [key |-> StoredKey(k), val |-> v])
  <2> DEFINE e == [key |-> StoredKey(k), val |-> v]
  <2>1. e \in Entry /\ e.val = v
    BY DEF Entry, StoredKey
  <2>2. /\ DOMAIN env' = 1 .. Len(env) + 1
        /\ \A j \in 1 .. Len(env) : env'[j] = env[j]
        /\ env'[Len(env) + 1] = e
    <3>1. /\ Append(env, e) \in Seq(Entry)
          /\ Len(Append(env, e)) = Len(env) + 1
          /\ \A j \in 1 .. Len(env) : Append(env, e)[j] = env[j]
          /\ Append(env, e)[Len(env) + 1] = e
      BY <1>1, <2>1, AppendProperties
    <3> QED BY <1>3, <3>1, LenProperties
  <2>3. IF n = k THEN e.key = n ELSE e.key # n
    BY DEF StoredKey, Whole
  <2> HIDE DEF e
  <2>4. Len(env) + 1 \in DOMAIN env' /\ \A j \in DOMAIN env' : j \in DOMAIN env \/ j = Len(env) + 1
    BY <1>1, <2>2
  <2>5. \A j \in DOMAIN env : j \in DOMAIN env' /\ env'[j] = env[j]
    BY <1>1, <2>2
  <2> QED BY <2>1, <2>2, <2>3, <2>4, <2>5 DEF Holds
<1>4. UNCHANGED env => \A x : Holds(n, x)' <=> Holds(n, x)
  BY DEF Holds
<1> QED BY <1>2, <1>3, <1>4 DEF Export

LEMMA UnsetEntries ==
    ASSUME TypeOK, KeysUnique, NEW k \in Names, Unset(k), NEW n \in Whole
    PROVE  /\ n # k => \A x : Holds(n, x)' <=> Holds(n, x)
           /\ n = k => \A x : ~Holds(n, x)'
<1>1. /\ env \in Seq(Entry) /\ Len(env) \in Nat /\ DOMAIN env = 1 .. Len(env)
  BY LenProperties DEF TypeOK
<1>2. ASSUME NEW i \in DOMAIN env, FirstAt(k, i), env' = RemoveAt(env, i)
      PROVE  /\ n # k => \A x : Holds(n, x)' <=> Holds(n, x)
             /\ n = k => \A x : ~Holds(n, x)'
  <2>1. \A j \in DOMAIN env' : \E m \in DOMAIN env : m # i /\ env'[j] = env[m]
    <3> TAKE j \in DOMAIN env'
    <3> DEFINE m == IF j < i THEN j ELSE j + 1
    <3>1. m \in DOMAIN env /\ m # i /\ env'[j] = env[m]
      BY <1>1, <1>2, RemoveKeepsEntries
    <3> QED BY <3>1
  <2>2. \A m \in DOMAIN env : m # i => \E j \in DOMAIN env' : env'[j] = env[m]
    BY <1>1, <1>2, RemoveLosesOne
  <2>3. env[i].key = k
    BY <1>2 DEF FirstAt
  <2>4. n = k => \A m \in DOMAIN env : m # i => env[m].key # n
    BY <2>3 DEF KeysUnique, Whole
  <2> QED BY <2>1, <2>2, <2>3, <2>4 DEF Holds
<1>3. CASE ~Known(k) /\ UNCHANGED env
  BY <1>3 DEF Holds, Known
<1> QED BY <1>2, <1>3 DEF Unset

\* A name whose entries stay keeps its value.
LEMMA SameEntriesSameValue ==
    ASSUME LookupsHold, LookupsHold', NEW n \in Whole,
           \A x : Holds(n, x)' <=> Holds(n, x)
    PROVE  Lookup(n)' = Lookup(n)
<1>1. CASE Known(n)
  <2>1. PICK x : Holds(n, x)
    BY <1>1 DEF LookupsHold
  <2> QED BY <2>1 DEF LookupsHold
<1>2. CASE ~Known(n)
  <2>1. ~Known(n)'
    <3> SUFFICES ASSUME Known(n)' PROVE FALSE
      OBVIOUS
    <3>1. PICK x : Holds(n, x)'
      BY DEF LookupsHold
    <3> QED BY <1>2, <3>1 DEF Holds, Known
  <2> QED BY <1>2, <2>1 DEF LookupsHold
<1> QED BY <1>1, <1>2

LEMMA UnchangedValue ==
    ASSUME LookupsHold, LookupsHold', UNCHANGED env
    PROVE  UNCHANGED [k \in Whole |-> Lookup(k)]
<1>1. \A n \in Whole : Lookup(n)' = Lookup(n)
  <2> TAKE n \in Whole
  <2>1. \A x : Holds(n, x)' <=> Holds(n, x)
    BY DEF Holds
  <2> QED BY <2>1, SameEntriesSameValue
<1> QED BY <1>1

LEMMA StepImplements ==
    ASSUME TypeOK, KeysUnique, LookupsHold, LookupsHold', [Next]_env
    PROVE  [Abstract!Next]_[k \in Whole |-> Lookup(k)]
<1> DEFINE value == [k \in Whole |-> Lookup(k)]
<1>1. ASSUME NEW k \in Names, NEW v \in Values, Export(k, v)
      PROVE  value' = value \/ (k \in Whole /\ Abstract!Set(k, v))
  <2>1. \A n \in Whole : n # k => Lookup(n)' = Lookup(n)
    BY <1>1, ExportEntries, SameEntriesSameValue
  <2>2. CASE UNCHANGED env
    BY <2>2, UnchangedValue
  <2>3. CASE k \notin Whole
    <3>1. value' = value
      BY <2>1, <2>3
    <3> QED BY <3>1
  <2>4. CASE k \in Whole /\ env' # env
    <3>1. Lookup(k)' = v
      BY <1>1, <2>4, ExportEntries DEF LookupsHold
    <3>2. value' = [value EXCEPT ![k] = v]
      BY <2>1, <2>4, <3>1
    <3>3. Known(k) \/ Cardinality({ n \in Whole : Known(n) }) < EnvMax
      <4> SUFFICES ASSUME ~Known(k)
                   PROVE  Cardinality({ n \in Whole : Known(n) }) < EnvMax
        OBVIOUS
      <4>1. ~(Len(env) >= EnvMax)
        BY <1>1, <2>4 DEF Export, FirstAt, Known
      <4>2. /\ Cardinality({ n \in Whole : Known(n) }) \in Nat
            /\ Cardinality({ n \in Whole : Known(n) }) <= Len(env)
        BY SetNamesFit
      <4>3. Len(env) \in Nat /\ EnvMax \in Nat
        BY LenProperties, EnvMaxAssumption DEF TypeOK
      <4> QED BY <4>1, <4>2, <4>3
    <3>4. \A n \in Whole : value[n] # NotSet <=> Known(n)
      BY NotSetAssumption DEF LookupsHold
    <3>5. { n \in Whole : value[n] # NotSet } = { n \in Whole : Known(n) }
      BY <3>4
    <3> HIDE DEF value
    <3>6. value[k] # NotSet \/ Cardinality({ n \in Whole : value[n] # NotSet }) < EnvMax
      BY <2>4, <3>3, <3>4, <3>5
    <3>7. Abstract!Set(k, v)
      <4>1. Abstract!IsSet(k) \/ Cardinality({ n \in Whole : Abstract!IsSet(n) }) < EnvMax
        BY <3>6 DEF value, Abstract!IsSet
      <4>2. value' = [value EXCEPT ![k] = v]
        BY <3>2
      <4>3. Cardinality({ n \in Whole : Abstract!IsSet(n) }) = Abstract!Cardinality({ n \in Whole : Abstract!IsSet(n) })
        BY DEF Cardinality, Abstract!Cardinality
      <4> QED BY <4>1, <4>2, <4>3 DEF value, Abstract!Set
    <3> QED BY <2>4, <3>7
  <2> QED BY <2>2, <2>3, <2>4
<1>2. ASSUME NEW k \in Names, Unset(k)
      PROVE  value' = value \/ (k \in Whole /\ Abstract!Unset(k))
  <2>1. \A n \in Whole : n # k => Lookup(n)' = Lookup(n)
    BY <1>2, UnsetEntries, SameEntriesSameValue
  <2>2. CASE k \notin Whole
    <3>1. value' = value
      BY <2>1, <2>2
    <3> QED BY <3>1
  <2>3. CASE k \in Whole
    <3>1. Lookup(k)' = NotSet
      BY <1>2, <2>3, UnsetEntries DEF LookupsHold
    <3>2. value' = [value EXCEPT ![k] = NotSet]
      BY <2>1, <2>3, <3>1
    <3> QED BY <2>3, <3>2 DEF Abstract!Unset
  <2> QED BY <2>2, <2>3
<1>3. CASE UNCHANGED env
  BY <1>3, UnchangedValue
<1> QED BY <1>1, <1>2, <1>3 DEF Next, Abstract!Next

\* The scans and shifts of env_set and env_unset implement a map of at most
\* EnvMax names, one of which changes at a time, whatever is done to names
\* that do not fit into the table.
THEOREM EnvironmentImplementsMap == Spec => ImplementsVariableMap
<1>1. Init => TypeOK /\ KeysUnique
  BY InitType DEF Init, KeysUnique
<1>2. TypeOK /\ KeysUnique /\ [Next]_env => (TypeOK /\ KeysUnique)'
  BY NextType, NextUnique
<1>3. Init => Abstract!Init
  BY DEF Init, Abstract!Init, Lookup, Known
<1>4. TypeOK /\ KeysUnique /\ LookupsHold /\ LookupsHold' /\ [Next]_env
        => [Abstract!Next]_[k \in Whole |-> Lookup(k)]
  BY StepImplements
<1> QED BY <1>1, <1>2, <1>3, <1>4, LookupFindsEntry, PTL
        DEF Spec, ImplementsVariableMap, Abstract!Spec

-----------------------------------------------------------------------------
(* Scripts                                                                 *)

Frame == [file : DOMAIN Files, next : Nat \ {0}, thenExit : BOOLEAN]

\* The scripts being read, and how many there are in each place the shell
\* can be in.
Nesting ==
    /\ stack \in Seq(Frame)
    /\ pc \in {"start", "home", "prompt"} => stack = <<>>
    /\ pc = "script" => stack # <<>>
    /\ pc \in {"start", "home", "prompt", "script", "wait"} =>
          depth = Len(stack) /\ open = Len(stack) /\ depth <= ScriptDepthMax

\* What a command may leave of the scripts: frames as many as there were.
Frames(frames) ==
    /\ frames \in Seq(Frame)
    /\ depth = Len(frames) /\ open = Len(frames) /\ depth <= ScriptDepthMax

LEMMA ContinueNests ==
    ASSUME NEW frames, Frames(frames), Continue(frames)
    PROVE  Nesting'
BY EmptySeq DEF Frames, Continue, Nesting

LEMMA ExitNests ==
    ASSUME Exit
    PROVE  Nesting'
BY EmptySeq DEF Exit, Nesting

LEMMA DoScriptNests ==
    ASSUME NEW frames, Frames(frames), NEW p, NEW thenExit \in BOOLEAN,
           DoScript(p, thenExit, frames)
    PROVE  Nesting'
<1>1. CASE depth >= ScriptDepthMax \/ ~Exists(p)
  BY <1>1, ContinueNests, ExitNests DEF DoScript
<1>2. CASE ~(depth >= ScriptDepthMax \/ ~Exists(p))
  <2> DEFINE f == [file |-> p, next |-> 1, thenExit |-> thenExit]
  <2>1. f \in Frame
    BY <1>2 DEF Frame, Exists
  <2>2. /\ stack' = Append(frames, f) /\ pc' = "script"
        /\ depth' = depth + 1 /\ open' = open + 1
    BY <1>2 DEF DoScript
  <2> HIDE DEF f
  <2>3. Len(frames) \in Nat /\ frames \in Seq(Frame)
    BY LenProperties DEF Frames
  <2>4. stack' \in Seq(Frame) /\ Len(stack') = Len(frames) + 1
    BY <2>1, <2>2, <2>3, AppendProperties
  <2>5. stack' # <<>>
    BY <2>3, <2>4, EmptySeq
  <2>6. depth + 1 <= ScriptDepthMax
    BY <1>2, <2>3, ProgramsAssumption DEF Frames
  <2> QED BY <2>2, <2>4, <2>5, <2>6 DEF Nesting, Frames
<1> QED BY <1>1, <1>2

LEMMA DispatchNests ==
    ASSUME NEW frames, Frames(frames), NEW c, Dispatch(c, frames)
    PROVE  Nesting'
<1>1. CASE Variables(c, frames)
  BY <1>1, ContinueNests DEF Variables
<1>2. CASE Exit
  BY <1>2, ExitNests
<1>3. CASE DoScript(Resolved(c.word), FALSE, frames)
  BY <1>3, DoScriptNests
<1>4. CASE ExecProgram(c, frames)
  <2>1. CASE DoScript(ResolveCmd(c.word), TRUE, frames)
    BY <2>1, DoScriptNests
  <2>2. CASE pc' = "replaced" /\ stack' = <<>>
    BY <2>2, EmptySeq DEF Nesting
  <2> QED BY <1>4, <2>1, <2>2, ContinueNests DEF ExecProgram
<1>5. CASE RunProgram(c, frames)
  <2>1. CASE pc' = "wait" /\ stack' = frames /\ UNCHANGED <<depth, open>>
    BY <2>1 DEF Nesting, Frames
  <2> QED BY <1>5, <2>1, ContinueNests DEF RunProgram
<1> QED BY <1>1, <1>2, <1>3, <1>4, <1>5 DEF Dispatch

\* The innermost script, and the scripts once its position has advanced.
LEMMA TopFrame ==
    ASSUME Nesting, pc = "script"
    PROVE  /\ Top \in Frame
           /\ Frames([stack EXCEPT ![Len(stack)].next = @ + 1])
<1>1. stack \in Seq(Frame) /\ Len(stack) \in Nat /\ Len(stack) # 0
  BY LenProperties, EmptySeq DEF Nesting
<1>2. stack[Len(stack)] \in Frame
  BY <1>1, ElementOfSeq
<1> DEFINE f == [stack[Len(stack)] EXCEPT !.next = @ + 1]
<1>3. f \in Frame
  BY <1>2 DEF Frame
<1>4. [stack EXCEPT ![Len(stack)].next = @ + 1] = [stack EXCEPT ![Len(stack)] = f]
  OBVIOUS
<1> HIDE DEF f
<1>5. Len(stack) \in 1 .. Len(stack)
  BY <1>1
<1>6. /\ [stack EXCEPT ![Len(stack)] = f] \in Seq(Frame)
      /\ Len([stack EXCEPT ![Len(stack)] = f]) = Len(stack)
  BY <1>1, <1>3, <1>5, ExceptSeq
<1> QED BY <1>2, <1>4, <1>6 DEF Top, Last, Frames, Nesting

LEMMA PopNests ==
    ASSUME Nesting, pc = "script", PopScript
    PROVE  Nesting'
<1>1. stack \in Seq(Frame) /\ stack # <<>> /\ Len(stack) \in Nat
  BY LenProperties DEF Nesting
<1>2. Front(stack) \in Seq(Frame) /\ Len(Front(stack)) = Len(stack) - 1
  BY <1>1, FrontType
<1>3. CASE Top.thenExit
  BY <1>3, EmptySeq DEF PopScript, Nesting
<1>4. CASE ~Top.thenExit
  <2>1. /\ stack' = Front(stack)
        /\ pc' = IF stack' = <<>> THEN "prompt" ELSE "script"
        /\ depth' = depth - 1 /\ open' = open - 1
    BY <1>4 DEF PopScript, CloseScript
  <2>2. depth = Len(stack) /\ open = Len(stack) /\ depth <= ScriptDepthMax
    BY DEF Nesting
  <2> QED BY <1>1, <1>2, <2>1, <2>2, ProgramsAssumption DEF Nesting
<1> QED BY <1>3, <1>4

LEMMA InitNests == ProgInit => Nesting
BY EmptySeq, ProgramsAssumption DEF ProgInit, Nesting

LEMMA NextNests == Nesting /\ [ProgNext]_progVars => Nesting'
<1> SUFFICES ASSUME Nesting, [ProgNext]_progVars PROVE Nesting'
  OBVIOUS
<1>0. stack = <<>> /\ pc \in {"start", "home", "prompt"} => Frames(<<>>)
  BY EmptySeq DEF Nesting, Frames
<1>1. CASE StartHome \/ StartPath
  BY <1>1 DEF StartHome, StartPath, Nesting
<1>2. ASSUME NEW p \in DOMAIN Files, StartScript(p) PROVE Nesting'
  BY <1>0, <1>2, DoScriptNests DEF StartScript, Nesting
<1>3. ASSUME NEW c, Enter(c) PROVE Nesting'
  BY <1>0, <1>3, DispatchNests DEF Enter, Nesting
<1>4. CASE NextLine
  BY <1>4, TopFrame, DispatchNests DEF NextLine
<1>5. CASE EndOfScript \/ ReadFails
  BY <1>5, PopNests DEF EndOfScript, ReadFails
<1>6. CASE RunReturns
  <2>1. Frames(stack)
    BY <1>6 DEF RunReturns, Nesting, Frames
  <2> QED BY <1>6, <2>1, ContinueNests DEF RunReturns
<1>7. CASE UNCHANGED progVars
  BY <1>7 DEF progVars, Nesting
<1> QED BY <1>1, <1>2, <1>3, <1>4, <1>5, <1>6, <1>7 DEF ProgNext, Start, User

\* Depth and descriptors are those of the scripts being read, at every depth
\* limit and however scripts source one another (do_script and source).
THEOREM NestingIsCounted == ProgSpec => []DepthIsNesting
<1>1. Nesting => DepthIsNesting
  BY DEF Nesting, DepthIsNesting
<1> QED BY InitNests, NextNests, <1>1, PTL DEF ProgSpec

-----------------------------------------------------------------------------
(* The environment                                                         *)

\* The next line of a script is one of the commands.
LEMMA NextLineIsCommand ==
    ASSUME Nesting, pc = "script", ~AtEnd
    PROVE  Files[Top.file].lines[Top.next] \in AllCommands
<1>1. Top \in Frame
  BY TopFrame
<1>2. /\ Top.file \in DOMAIN Files /\ Top.next \in Nat \ {0}
      /\ Files[Top.file].lines \in Seq(ToSet(Files[Top.file].lines))
  BY <1>1, CommandsAssumption DEF Frame
<1> DEFINE ls == Files[Top.file].lines
<1>3. Len(ls) \in Nat /\ DOMAIN ls = 1 .. Len(ls) /\ ~(Top.next > Len(ls))
  BY <1>2, LenProperties DEF AtEnd
<1>4. Top.next \in DOMAIN ls
  BY <1>2, <1>3
<1>5. ls[Top.next] \in ToSet(ls)
  BY <1>4 DEF ToSet
<1> QED BY <1>2, <1>5 DEF AllCommands

LEMMA DispatchStepsEnv ==
    ASSUME NEW c \in AllCommands, NEW frames, Dispatch(c, frames)
    PROVE  [Next]_env
<1>1. /\ c.do \in {"export", "unset"} => c.key \in Names
      /\ c.do = "export" => c.val \in Values
  BY CommandsAssumption
<1>2. CASE Variables(c, frames)
  BY <1>1, <1>2 DEF Variables, Next
<1>3. ~Variables(c, frames) => UNCHANGED env
  BY DEF Dispatch, Exit, DoScript, ExecProgram, RunProgram, Continue
<1> QED BY <1>2, <1>3

\* Whatever the shell does, its environment takes a step of Environment.
LEMMA StepsEnv == Nesting /\ [ProgNext]_progVars => [Next]_env
<1> SUFFICES ASSUME Nesting, [ProgNext]_progVars PROVE [Next]_env
  OBVIOUS
<1>1. {Home, Path} \subseteq Names /\ {HomeDir, Bin} \subseteq Values
  BY ProgramsAssumption DEF Whole
<1>2. CASE StartHome \/ StartPath
  BY <1>1, <1>2 DEF StartHome, StartPath, Next
<1>3. ASSUME NEW p \in DOMAIN Files, StartScript(p) PROVE [Next]_env
  BY <1>3 DEF StartScript, DoScript, Exit
<1>4. ASSUME NEW c \in Commands, Enter(c) PROVE [Next]_env
  BY <1>4, DispatchStepsEnv DEF Enter, AllCommands
<1>5. CASE NextLine
  BY <1>5, NextLineIsCommand, DispatchStepsEnv DEF NextLine
<1>6. CASE EndOfScript \/ ReadFails \/ RunReturns
  BY <1>6 DEF EndOfScript, ReadFails, RunReturns, PopScript
<1>7. CASE UNCHANGED progVars
  BY <1>7 DEF progVars
<1> QED BY <1>2, <1>3, <1>4, <1>5, <1>6, <1>7 DEF ProgNext, Start, User

\* Scripts, their nesting and the programs they start leave the environment
\* to the three functions of features/env.rs.
LEMMA ProgramsUseEnvironment == ProgSpec => Spec
<1>1. ProgInit => Init
  BY DEF ProgInit
<1> QED BY <1>1, InitNests, NextNests, StepsEnv, PTL DEF ProgSpec, Spec

\* No name is listed twice, also when scripts export and unset (env_set).
THEOREM NamesStayUnique == ProgSpec => []KeysUnique
BY ProgramsUseEnvironment, NamesAreUnique, PTL

\* The environment of the whole shell, from env_init through nested scripts,
\* implements the map.
THEOREM ShellImplementsMap == ProgSpec => ImplementsVariableMap
BY ProgramsUseEnvironment, EnvironmentImplementsMap, PTL

-----------------------------------------------------------------------------
(* Programs                                                                *)

LEMMA UpToAll ==
    ASSUME NEW S, NEW s \in Seq(S), NEW n \in Nat
    PROVE  /\ UpTo(s, n) \in Seq(S)
           /\ Len(UpTo(s, n)) = IF Len(s) < n THEN Len(s) ELSE n
           /\ Len(s) <= n => UpTo(s, n) = s
<1> DEFINE m == IF Len(s) < n THEN Len(s) ELSE n
<1>1. Len(s) \in Nat /\ m \in Nat /\ m <= Len(s)
  BY LenProperties
<1>2. \A i \in 1 .. m : s[i] \in S
  BY <1>1, ElementOfSeq
<1>3. Len(s) <= n => m = Len(s)
  BY <1>1
<1>4. UpTo(s, n) = SubSeq(s, 1, m)
  BY DEF UpTo
<1> HIDE DEF m
<1>5. /\ SubSeq(s, 1, m) \in Seq(S)
      /\ Len(SubSeq(s, 1, m)) = IF 1 <= m THEN m - 1 + 1 ELSE 0
  BY <1>1, <1>2, SubSeqProperties
<1>6. Len(SubSeq(s, 1, m)) = m
  BY <1>1, <1>5
<1>7. SubSeq(s, 1, Len(s)) = s
  BY SubSeqFull
<1> QED BY <1>3, <1>4, <1>5, <1>6, <1>7 DEF m

\* What build_argv and build_shebang_argv build from a list of arguments.
LEMMA ArgvFits ==
    ASSUME NEW S, NEW args \in Seq(S), args # <<>>, NEW p
    PROVE  /\ Len(Argv(p, args)) <= MaxArgs
           /\ Len(args) <= MaxArgs - 2 =>
                 Tail(args) = SubSeq(Argv(p, args), Len(Argv(p, args)) - Len(args) + 2,
                                     Len(Argv(p, args)))
<1>1. /\ MaxArgs \in Nat /\ MaxArgs - 2 \in Nat /\ MaxArgs - 2 # 0
      /\ Len(args) \in Nat /\ Len(args) # 0
  BY LenProperties, EmptySeq, ProgramsAssumption
<1>2. CASE Interp(p) = NoInterp
  <2>1. Argv(p, args) = UpTo(args, MaxArgs)
    BY <1>2 DEF Argv
  <2>2. Len(Argv(p, args)) <= MaxArgs
    BY <1>1, <2>1, UpToAll
  <2>3. ASSUME Len(args) <= MaxArgs - 2
        PROVE  Tail(args) = SubSeq(args, 2, Len(args))
    BY TailIsSubSeq
  <2>4. Len(args) <= MaxArgs - 2 => Argv(p, args) = args
    BY <1>1, <2>1, UpToAll
  <2>5. Len(args) - Len(args) + 2 = 2
    BY <1>1
  <2> QED BY <2>2, <2>3, <2>4, <2>5
<1>3. CASE Interp(p) # NoInterp
  <2> DEFINE u == UpTo(args, MaxArgs - 2)
             R == S \cup {Interp(p), p}
             two == <<Interp(p), p>>
  <2>1. u \in Seq(S) /\ Len(u) \in Nat /\ Len(u) # 0 /\ Len(u) <= MaxArgs - 2
    BY <1>1, UpToAll
  <2>2. Len(args) <= MaxArgs - 2 => u = args
    BY <1>1, UpToAll
  <2>3. Argv(p, args) = two \o Tail(u)
    BY <1>3 DEF Argv
  <2> HIDE DEF u
  <2>4. u # <<>>
    BY <2>1, EmptySeq
  <2>5. Tail(u) \in Seq(S) /\ Len(Tail(u)) = Len(u) - 1
    BY <2>1, <2>4, HeadTailProperties
  <2>6. Tail(u) \in Seq(R) /\ two \in Seq(R) /\ Len(two) = 2
    BY <2>5
  <2> HIDE DEF two, R
  <2>7. /\ two \o Tail(u) \in Seq(R)
        /\ Len(two \o Tail(u)) = 2 + Len(Tail(u))
        /\ \A i \in 1 .. 2 + Len(Tail(u)) :
              (two \o Tail(u))[i] = IF i <= 2 THEN two[i] ELSE Tail(u)[i - 2]
    <3> DEFINE t == Tail(u)
    <3>1. t \in Seq(R) /\ two \in Seq(R) /\ Len(two) = 2
      BY <2>6
    <3> HIDE DEF t
    <3>2. /\ two \o t \in Seq(R)
          /\ Len(two \o t) = Len(two) + Len(t)
          /\ \A i \in 1 .. Len(two) + Len(t) :
                (two \o t)[i] = IF i <= Len(two) THEN two[i] ELSE t[i - Len(two)]
      BY <3>1, ConcatProperties
    <3>3. /\ two \o t \in Seq(R)
          /\ Len(two \o t) = 2 + Len(t)
          /\ \A i \in 1 .. 2 + Len(t) :
                (two \o t)[i] = IF i <= 2 THEN two[i] ELSE t[i - 2]
      BY <3>1, <3>2
    <3> QED BY <3>3 DEF t
  <2>8. Len(Argv(p, args)) = Len(u) + 1
    BY <2>1, <2>3, <2>5, <2>7
  <2>9. ASSUME Len(args) <= MaxArgs - 2
        PROVE  SubSeq(two \o Tail(u), 3, Len(u) + 1) = Tail(u)
    <3> DEFINE a == two \o Tail(u)
               n == Len(u) + 1
    <3>1. a \in Seq(R) /\ Len(a) = n /\ n \in Int
      BY <2>1, <2>3, <2>7, <2>8
    <3>2. \A i \in 3 .. n : a[i] \in R
      BY <3>1, ElementOfSeq
    <3>3. \A i \in 1 .. n - 2 : a[3 + i - 1] = Tail(u)[i]
      BY <2>1, <2>5, <2>7
    <3> HIDE DEF a, n
    <3>4. /\ SubSeq(a, 3, n) \in Seq(R)
          /\ Len(SubSeq(a, 3, n)) = IF 3 <= n THEN n - 3 + 1 ELSE 0
          /\ \A i \in 1 .. n - 3 + 1 : SubSeq(a, 3, n)[i] = a[3 + i - 1]
      BY <3>1, <3>2, SubSeqProperties
    <3>5. n - 3 + 1 = n - 2 /\ n - 2 = Len(Tail(u)) /\ n - 2 \in Nat
      BY <2>1, <2>5 DEF n
    <3>6. Len(SubSeq(a, 3, n)) = Len(Tail(u))
      BY <3>4, <3>5
    <3>7. \A i \in 1 .. Len(Tail(u)) : SubSeq(a, 3, n)[i] = Tail(u)[i]
      BY <3>3, <3>4, <3>5
    <3>8. SubSeq(a, 3, n) = Tail(u)
      BY <2>6, <3>4, <3>6, <3>7, SeqEqual
    <3> QED BY <3>8 DEF a, n
  <2>10. ASSUME Len(args) <= MaxArgs - 2
         PROVE  Tail(args) = SubSeq(Argv(p, args), Len(Argv(p, args)) - Len(args) + 2,
                                    Len(Argv(p, args)))
    <3>1. Len(Argv(p, args)) - Len(args) + 2 = 3 /\ u = args
      BY <1>1, <2>1, <2>2, <2>8, <2>10
    <3> QED BY <2>3, <2>8, <2>9, <2>10, <3>1
  <2>11. Len(Argv(p, args)) <= MaxArgs
    BY <1>1, <2>1, <2>8
  <2> QED BY <2>10, <2>11
<1> QED BY <1>2, <1>3

\* Of the directories of PATH the first that has the name is taken.
LEMMA FirstInPath ==
    ASSUME TypeOK, KeysUnique, NEW w, w.dir = NoDir,
           NEW i \in DOMAIN SearchDirs, Exists(Word(SearchDirs[i], w.name))
    PROVE  ResolveCmd(w) \in { Word(SearchDirs[j], w.name) : j \in 1 .. i }
<1> DEFINE at == { n \in DOMAIN SearchDirs : Exists(Word(SearchDirs[n], w.name)) }
<1>1. DOMAIN SearchDirs \subseteq Nat \ {0}
  <2>1. CASE Known(Path)
    <3>1. Path \in Whole
      BY ProgramsAssumption
    <3>2. Lookup(Path) \in Values
      BY <2>1, <3>1, LookupFindsEntry DEF LookupsHold
    <3>3. SearchDirs \in Seq(ToSet(SearchDirs))
      BY <2>1, <3>2, CommandsAssumption DEF SearchDirs
    <3>4. DOMAIN SearchDirs = 1 .. Len(SearchDirs) /\ Len(SearchDirs) \in Nat
      BY <3>3, LenProperties
    <3> QED BY <3>4
  <2>2. CASE ~Known(Path)
    <3>1. SearchDirs = <<>>
      BY <2>2 DEF SearchDirs
    <3> QED BY <3>1
  <2> QED BY <2>1, <2>2
<1>2. i \in at /\ at # {} /\ at \in SUBSET Nat
  BY <1>1
<1>3. ResolveCmd(w) = Word(SearchDirs[CHOOSE n \in at : \A m \in at : n <= m], w.name)
  BY <1>2 DEF ResolveCmd
<1> HIDE DEF at
<1>4. \E n \in at : \A m \in at : n <= m
  BY <1>2, Least
<1> DEFINE first == CHOOSE n \in at : \A m \in at : n <= m
<1>5. first \in at /\ \A m \in at : first <= m
  BY <1>4
<1> HIDE DEF first
<1>6. first \in Nat \ {0} /\ i \in Nat /\ first <= i
  BY <1>1, <1>2, <1>5 DEF at
<1>7. first \in 1 .. i
  BY <1>6
<1> QED BY <1>3, <1>7 DEF first

\* build_envp passes each name that fits with its value, once or not at all.
LEMMA EnvpShowsValues ==
    ASSUME TypeOK, KeysUnique, NEW k \in Whole
    PROVE  LET at == { i \in DOMAIN env : env[i].key = k }
           IN  IF Lookup(k) = NotSet THEN at = {}
               ELSE \E i \in at : at = {i} /\ env[i].val = Lookup(k)
<1> DEFINE at == { i \in DOMAIN env : env[i].key = k }
<1>1. CASE Known(k)
  <2>1. PICK i \in DOMAIN env : env[i].key = k
    BY <1>1 DEF Known
  <2>2. env[i].val \in Values /\ Lookup(k) = env[i].val
    BY <2>1, LookupFindsEntry DEF LookupsHold, Holds
  <2>3. at = {i}
    BY <2>1 DEF KeysUnique, Whole
  <2> QED BY <2>2, <2>3, NotSetAssumption
<1>2. CASE ~Known(k)
  BY <1>2, LookupFindsEntry DEF LookupsHold, Known
<1> QED BY <1>1, <1>2

\* The parts of StartedAsAsked, of a program p.
ArgsAsAsked(p) ==
    /\ Len(p.argv) <= MaxArgs
    /\ Len(p.args) <= MaxArgs - 2 =>
          Tail(p.args) = SubSeq(p.argv, Len(p.argv) - Len(p.args) + 2, Len(p.argv))

FoundInPath(p) ==
    p.word.dir = NoDir =>
        \A i \in DOMAIN SearchDirs :
            Exists(Word(SearchDirs[i], p.word.name)) =>
                p.path \in { Word(SearchDirs[j], p.word.name) : j \in 1 .. i }

EnvAsAsked(p) ==
    \A k \in Whole :
        LET at == { i \in DOMAIN p.envp : p.envp[i].key = k }
        IN  IF Lookup(k) = NotSet THEN at = {}
            ELSE \E i \in at : at = {i} /\ p.envp[i].val = Lookup(k)

LEMMA AskedByParts ==
    StartedAsAsked <=>
        \A p \in started : /\ ArgsAsAsked(p) /\ FoundInPath(p)
                           /\ pc = "replaced" => EnvAsAsked(p)
BY DEF StartedAsAsked, ArgsAsAsked, FoundInPath, EnvAsAsked

LEMMA AskedByPartsNext ==
    (\A p \in started' : /\ ArgsAsAsked(p) /\ FoundInPath(p)'
                         /\ pc' = "replaced" => EnvAsAsked(p)')
        => StartedAsAsked'
BY DEF StartedAsAsked, ArgsAsAsked, FoundInPath, EnvAsAsked

\* A program is running or has replaced the shell, and was started as asked.
StartedInv ==
    /\ started # {} => pc \in {"wait", "replaced"}
    /\ StartedAsAsked

LEMMA StartsAsAsked ==
    ASSUME TypeOK, KeysUnique, NEW c \in AllCommands, c.do \in {"exec", "run"},
           StartProgram(c, ResolveCmd(c.word)), UNCHANGED env,
           pc' = IF c.do = "exec" THEN "replaced" ELSE "wait"
    PROVE  StartedInv'
<1> DEFINE p == ResolveCmd(c.word)
           r == [args |-> c.args, word |-> c.word, path |-> p,
                 argv |-> Argv(p, c.args), envp |-> Envp(c)]
<1>1. started' = {r}
  BY DEF StartProgram
<1>2. /\ r.args = c.args /\ r.word = c.word /\ r.path = p
      /\ r.argv = Argv(p, c.args) /\ r.envp = Envp(c)
  OBVIOUS
<1> HIDE DEF r
<1>3. /\ Len(r.argv) <= MaxArgs
      /\ Len(r.args) <= MaxArgs - 2 =>
            Tail(r.args) = SubSeq(r.argv, Len(r.argv) - Len(r.args) + 2, Len(r.argv))
  <2> DEFINE S == Nat \cup {c.word}
  <2>1. c.args \in Seq(S) /\ c.args # <<>>
    <3>1. PICK n \in 0 .. Len(c.args) : c.args = <<c.word>> \o [i \in 1 .. n |-> i]
      BY CommandsAssumption
    <3> DEFINE one == <<c.word>>
               tail == [i \in 1 .. n |-> i]
    <3>2. n \in Nat
      OBVIOUS
    <3>3. one \in Seq(S) /\ Len(one) = 1 /\ tail \in Seq(S) /\ Len(tail) \in Nat
      BY <3>2, IsASeq, LenProperties
    <3> HIDE DEF one, tail, S
    <3>4. one \o tail \in Seq(S) /\ Len(one \o tail) = 1 + Len(tail)
      <4>1. one \in Seq(S) /\ tail \in Seq(S)
        BY <3>3
      <4>2. one \o tail \in Seq(S) /\ Len(one \o tail) = Len(one) + Len(tail)
        BY ONLY <4>1, ConcatProperties
      <4> QED BY <3>3, <4>2
    <3>5. one \o tail # <<>>
      BY <3>3, <3>4, EmptySeq
    <3> QED BY <3>1, <3>4, <3>5 DEF one, tail
  <2> HIDE DEF p, S
  <2> QED BY <1>2, <2>1, ArgvFits
<1>4. SearchDirs' = SearchDirs /\ \A k : Lookup(k)' = Lookup(k)
  BY DEF SearchDirs, Lookup, Known, FirstAt
<1>5. r.word.dir = NoDir =>
        \A i \in DOMAIN SearchDirs :
            Exists(Word(SearchDirs[i], r.word.name)) =>
                r.path \in { Word(SearchDirs[j], r.word.name) : j \in 1 .. i }
  BY <1>2, FirstInPath
<1>6. pc' = "replaced" => \A k \in Whole :
        LET at == { i \in DOMAIN r.envp : r.envp[i].key = k }
        IN  IF Lookup(k) = NotSet THEN at = {}
            ELSE \E i \in at : at = {i} /\ r.envp[i].val = Lookup(k)
  <2>1. pc' = "replaced" => r.envp = env
    BY <1>2 DEF Envp
  <2> QED BY <2>1, EnvpShowsValues
<1>7. StartedAsAsked'
  <2> SUFFICES ASSUME NEW q \in started'
      PROVE  ArgsAsAsked(q) /\ FoundInPath(q)' /\ (pc' = "replaced" => EnvAsAsked(q)')
    BY AskedByPartsNext
  <2>1. q = r
    BY <1>1
  <2>2. ArgsAsAsked(q)
    BY <1>3, <2>1 DEF ArgsAsAsked
  <2>3. FoundInPath(q)'
    BY <1>4, <1>5, <2>1 DEF FoundInPath
  <2>4. pc' = "replaced" => EnvAsAsked(q)'
    BY <1>4, <1>6, <2>1 DEF EnvAsAsked
  <2> QED BY <2>2, <2>3, <2>4
<1> QED BY <1>7 DEF StartedInv

LEMMA NothingStarted ==
    ASSUME started' = {}
    PROVE  StartedInv'
BY DEF StartedInv, StartedAsAsked

LEMMA DoScriptStartsNothing ==
    ASSUME NEW p, NEW thenExit, NEW frames, DoScript(p, thenExit, frames)
    PROVE  UNCHANGED started
BY DEF DoScript, Exit

LEMMA DispatchStarts ==
    ASSUME TypeOK, KeysUnique, NEW c \in AllCommands, NEW frames, Dispatch(c, frames),
           started = {}
    PROVE  StartedInv'
<1>1. CASE Variables(c, frames)
  BY <1>1, NothingStarted DEF Variables
<1>2. CASE Exit
  BY <1>2, NothingStarted DEF Exit
<1>3. CASE DoScript(Resolved(c.word), FALSE, frames)
  BY <1>3, NothingStarted, DoScriptStartsNothing
<1>4. CASE c.do = "exec" /\ ExecProgram(c, frames)
  <2>1. CASE UNCHANGED started
    BY <2>1, NothingStarted
  <2>2. CASE /\ StartProgram(c, ResolveCmd(c.word)) /\ pc' = "replaced"
             /\ UNCHANGED env
    BY <1>4, <2>2, StartsAsAsked
  <2> QED BY <1>4, <2>1, <2>2, DoScriptStartsNothing DEF ExecProgram
<1>5. CASE c.do = "run" /\ RunProgram(c, frames)
  <2>1. CASE UNCHANGED started
    BY <2>1, NothingStarted
  <2>2. CASE /\ StartProgram(c, ResolveCmd(c.word)) /\ pc' = "wait"
             /\ UNCHANGED env
    BY <1>5, <2>2, StartsAsAsked
  <2> QED BY <1>5, <2>1, <2>2 DEF RunProgram
<1> QED BY <1>1, <1>2, <1>3, <1>4, <1>5 DEF Dispatch

LEMMA NextStarted ==
    TypeOK /\ KeysUnique /\ Nesting /\ StartedInv /\ [ProgNext]_progVars => StartedInv'
<1> SUFFICES ASSUME TypeOK, KeysUnique, Nesting, StartedInv, [ProgNext]_progVars
             PROVE  StartedInv'
  OBVIOUS
<1>0. pc \notin {"wait", "replaced"} => started = {}
  BY DEF StartedInv
<1>1. CASE StartHome \/ StartPath
  BY <1>0, <1>1, NothingStarted DEF StartHome, StartPath
<1>2. ASSUME NEW p \in DOMAIN Files, StartScript(p) PROVE StartedInv'
  BY <1>0, <1>2, DoScriptStartsNothing, NothingStarted DEF StartScript
<1>3. ASSUME NEW c \in Commands, Enter(c) PROVE StartedInv'
  BY <1>0, <1>3, DispatchStarts DEF Enter, AllCommands
<1>4. CASE NextLine
  BY <1>0, <1>4, NextLineIsCommand, DispatchStarts DEF NextLine
<1>5. CASE EndOfScript \/ ReadFails
  BY <1>0, <1>5, NothingStarted DEF EndOfScript, ReadFails, PopScript
<1>6. CASE RunReturns
  BY <1>6, NothingStarted DEF RunReturns
<1>7. CASE UNCHANGED progVars
  <2>1. UNCHANGED <<env, pc, started>>
    BY <1>7 DEF progVars
  <2>2. SearchDirs' = SearchDirs /\ \A k : Lookup(k)' = Lookup(k)
    BY <2>1 DEF SearchDirs, Lookup, Known, FirstAt
  <2>3. ASSUME NEW q \in started
        PROVE  ArgsAsAsked(q) /\ FoundInPath(q)' /\ (pc = "replaced" => EnvAsAsked(q)')
    <3>1. ArgsAsAsked(q) /\ FoundInPath(q) /\ (pc = "replaced" => EnvAsAsked(q))
      BY <2>3, AskedByParts DEF StartedInv
    <3> QED BY <2>2, <3>1 DEF FoundInPath, EnvAsAsked
  <2>4. StartedAsAsked'
    BY <2>1, <2>3, AskedByPartsNext
  <2> QED BY <2>1, <2>4 DEF StartedInv
<1> QED BY <1>1, <1>2, <1>3, <1>4, <1>5, <1>6, <1>7 DEF ProgNext, Start, User

\* A program started by a command or a script, at any number of arguments,
\* directories and variables, is the one its name stands for, with its
\* arguments and the environment as it is (search_path, build_argv,
\* build_shebang_argv, build_envp).
THEOREM ProgramsStartAsAsked == ProgSpec => []StartedAsAsked
<1>1. ProgInit => StartedInv
  BY DEF ProgInit, StartedInv, StartedAsAsked
<1>2. StartedInv => StartedAsAsked
  BY DEF StartedInv
<1>3. Spec => [](TypeOK /\ KeysUnique)
  BY TypeCorrect, NamesAreUnique, PTL
<1> QED BY <1>1, <1>2, <1>3, ProgramsUseEnvironment, InitNests, NextNests, NextStarted, PTL
        DEF ProgSpec

-----------------------------------------------------------------------------
(* What scripts mean                                                       *)

\* The first entry of a name is where a scan for it stops.
LEMMA PositionIs ==
    ASSUME NEW vars \in Seq(Entry), NEW k, IsIn(vars, k)
    PROVE  /\ Position(vars, k) \in 1 .. Len(vars)
           /\ vars[Position(vars, k)].key = k
           /\ \A j \in 1 .. Position(vars, k) - 1 : vars[j].key # k
           /\ \A i \in DOMAIN vars :
                 vars[i].key = k /\ (\A j \in 1 .. i - 1 : vars[j].key # k)
                     => i = Position(vars, k)
<1> DEFINE B == { i \in DOMAIN vars : vars[i].key = k }
           First(i) == vars[i].key = k /\ \A j \in 1 .. i - 1 : vars[j].key # k
<1>1. DOMAIN vars = 1 .. Len(vars) /\ Len(vars) \in Nat
  BY LenProperties
<1>2. PICK m \in B : \A i \in B : m <= i
  <2>1. B \in SUBSET Nat /\ B # {}
    BY <1>1 DEF IsIn
  <2> HIDE DEF B
  <2> QED BY <2>1, Least
<1>3. m \in DOMAIN vars /\ First(m)
  BY <1>1, <1>2
<1>4. \A i \in DOMAIN vars : First(i) => i = m
  <2> SUFFICES ASSUME NEW i \in DOMAIN vars, First(i) PROVE i = m
    OBVIOUS
  <2>1. i \in Nat /\ m \in Nat /\ m \in 1 .. Len(vars) /\ m <= i
    BY <1>1, <1>2
  <2>2. m < i => m \in 1 .. i - 1
    BY <2>1
  <2> QED BY <1>2, <2>1, <2>2
<1>5. Position(vars, k) = CHOOSE i \in DOMAIN vars : First(i)
  BY DEF Position
<1> HIDE DEF First
<1>6. Position(vars, k) = m
  BY <1>3, <1>4, <1>5
<1> QED BY <1>1, <1>3, <1>4, <1>6 DEF First

LEMMA GetType ==
    ASSUME NEW vars \in Seq(Entry), NEW k
    PROVE  Get(vars, k) \in Values \cup {NotSet}
<1>1. CASE IsIn(vars, k)
  <2>1. vars[Position(vars, k)] \in Entry
    BY <1>1, PositionIs, ElementOfSeq
  <2> QED BY <1>1, <2>1 DEF Get, Entry
<1> QED BY <1>1 DEF Get

LEMMA WithType ==
    ASSUME NEW vars \in Seq(Entry), NEW k \in Names, NEW v \in Values
    PROVE  With(vars, k, v) \in Seq(Entry)
<1>1. CASE IsIn(vars, k)
  <2> DEFINE i == Position(vars, k)
             e == [vars[i] EXCEPT !.val = v]
  <2>1. i \in 1 .. Len(vars)
    BY <1>1, PositionIs
  <2>2. e \in Entry
    <3>1. vars[i] \in Entry
      BY <2>1, ElementOfSeq
    <3> HIDE DEF i
    <3> QED BY <3>1 DEF Entry
  <2>3. With(vars, k, v) = [vars EXCEPT ![i] = e]
    BY <1>1 DEF With
  <2> HIDE DEF i, e
  <2> QED BY <2>1, <2>2, <2>3, ExceptSeq
<1>2. CASE ~IsIn(vars, k)
  <2>1. [key |-> StoredKey(k), val |-> v] \in Entry
    BY DEF Entry, StoredKey
  <2> QED BY <1>2, <2>1, AppendProperties DEF With
<1> QED BY <1>1, <1>2

LEMMA WithoutType ==
    ASSUME NEW vars \in Seq(Entry), NEW k
    PROVE  Without(vars, k) \in Seq(Entry)
<1>1. CASE IsIn(vars, k)
  <2>1. Position(vars, k) \in DOMAIN vars
    BY <1>1, PositionIs, LenProperties
  <2> QED BY <1>1, <2>1, RemoveShifts DEF Without
<1> QED BY <1>1 DEF Without

\* The table and its three functions, in the terms of the meaning.
LEMMA TableIs ==
    ASSUME TypeOK, NEW k
    PROVE  /\ Get(env, k) = Lookup(k)
           /\ \A v : Export(k, v) => env' = With(env, k, v)
           /\ Unset(k) => env' = Without(env, k)
<1>1. env \in Seq(Entry)
  BY DEF TypeOK
<1>2. IsIn(env, k) <=> Known(k)
  BY DEF IsIn, Known
<1>3. \A i : IsIn(env, k) /\ FirstAt(k, i) => i = Position(env, k)
  BY <1>1, PositionIs DEF FirstAt
<1>4. IsIn(env, k) => FirstAt(k, Position(env, k))
  BY <1>1, PositionIs, LenProperties DEF FirstAt
<1>5. Get(env, k) = Lookup(k)
  <2>1. CASE IsIn(env, k)
    <3>1. (CHOOSE i \in DOMAIN env : FirstAt(k, i)) = Position(env, k)
      <4>1. Position(env, k) \in DOMAIN env
        BY <2>1, <1>4 DEF FirstAt
      <4> QED BY <2>1, <1>3, <1>4, <4>1
    <3> QED BY <1>2, <2>1, <3>1 DEF Get, Lookup
  <2> QED BY <1>2, <2>1 DEF Get, Lookup
<1>6. \A i : FirstAt(k, i) => IsIn(env, k)
  BY DEF FirstAt, IsIn
<1>7. ASSUME NEW v, Export(k, v) PROVE env' = With(env, k, v)
  <2>0. Len(env) \in Nat /\ EnvMax \in Nat
    BY <1>1, LenProperties, EnvMaxAssumption
  <2>1. CASE \E i \in DOMAIN env : FirstAt(k, i) /\ env' = [env EXCEPT ![i].val = v]
    BY <1>3, <1>6, <2>1 DEF With
  <2>2. CASE ~Known(k) /\ Len(env) >= EnvMax /\ UNCHANGED env
    BY <1>2, <2>0, <2>2 DEF With
  <2>3. CASE /\ ~Known(k) /\ ~(Len(env) >= EnvMax)
             /\ env' = Append(env, [key |-> StoredKey(k), val |-> v])
    BY <1>2, <2>0, <2>3 DEF With
  <2> QED BY <1>7, <2>1, <2>2, <2>3 DEF Export
<1>8. ASSUME Unset(k) PROVE env' = Without(env, k)
  BY <1>2, <1>3, <1>6, <1>8 DEF Unset, Without
<1> QED BY <1>5, <1>7, <1>8

\* The directory that the meaning finds is the one that the search finds.
LEMMA PlaceIs ==
    ASSUME TypeOK, NEW w
    PROVE  Place(env, w) = ResolveCmd(w)
<1>1. IsIn(env, Path) <=> Known(Path)
  BY DEF IsIn, Known
<1>2. Get(env, Path) = Lookup(Path)
  BY TableIs
<1>3. (IF IsIn(env, Path) THEN PathDirs[Get(env, Path)] ELSE <<>>) = SearchDirs
  BY <1>1, <1>2 DEF SearchDirs
<1> DEFINE at == { i \in DOMAIN SearchDirs : Exists(Word(SearchDirs[i], w.name)) }
<1>4. Place(env, w) = IF w.dir = NoDir /\ at # {} THEN Word(SearchDirs[Min(at)], w.name)
                      ELSE Resolved(w)
  BY <1>3 DEF Place
<1>5. ResolveCmd(w) = IF w.dir # NoDir \/ at = {} THEN Resolved(w)
                      ELSE Word(SearchDirs[CHOOSE i \in at : \A j \in at : i <= j], w.name)
  BY DEF ResolveCmd
<1> HIDE DEF at
<1>6. Min(at) = CHOOSE i \in at : \A j \in at : i <= j
  BY DEF Min
<1> QED BY <1>4, <1>5, <1>6

-----------------------------------------------------------------------------
(* The recursion over lines and levels                                     *)

Reader == [States -> States]

ScriptReaders == [DOMAIN Files -> Reader]

LEMMA StateFields ==
    ASSUME NEW s \in States
    PROVE  /\ s.vars \in Seq(Entry) /\ s.out \in Seq(Values \cup {NotSet}) /\ s.exited \in BOOLEAN
           /\ \A x \in Seq(Entry) : [s EXCEPT !.vars = x] \in States
           /\ \A x \in Seq(Values \cup {NotSet}) : [s EXCEPT !.out = x] \in States
           /\ [s EXCEPT !.exited = TRUE] \in States
BY DEF States

LEMMA ScriptType ==
    ASSUME NEW script \in ScriptReaders, NEW s \in States, NEW p
    PROVE  Script(p, s, script) \in States
BY DEF ScriptReaders, Reader, Script, Exists

LEMMA EffectType ==
    ASSUME NEW script \in ScriptReaders, NEW s \in States, NEW c \in AllCommands
    PROVE  Effect(c, s, script) \in States
<1>1. /\ c.do \in {"export", "unset"} => c.key \in Names
      /\ c.do = "export" => c.val \in Values
  BY CommandsAssumption
<1>2. CASE c.do = "export"
  <2>1. With(s.vars, c.key, c.val) \in Seq(Entry)
    BY <1>1, <1>2, StateFields, WithType
  <2> QED BY <1>2, <2>1, StateFields DEF Effect
<1>3. CASE c.do = "unset"
  <2>1. Without(s.vars, c.key) \in Seq(Entry)
    BY StateFields, WithoutType
  <2>2. Effect(c, s, script) = [s EXCEPT !.vars = Without(s.vars, c.key)]
    BY <1>3 DEF Effect
  <2> QED BY <2>1, <2>2, StateFields
<1>4. CASE c.do = "echo"
  <2>1. Append(s.out, Get(s.vars, c.key)) \in Seq(Values \cup {NotSet})
    BY StateFields, GetType, AppendProperties
  <2>2. Effect(c, s, script) = [s EXCEPT !.out = Append(s.out, Get(s.vars, c.key))]
    BY <1>4 DEF Effect
  <2> QED BY <2>1, <2>2, StateFields
<1>5. CASE c.do = "exit"
  BY <1>5, StateFields DEF Effect
<1>6. CASE c.do = "source"
  BY <1>6, ScriptType DEF Effect
<1>7. CASE c.do = "main"
  BY <1>7, ScriptType, StateFields DEF Effect
<1>8. CASE c.do = "exec" /\ Interp(Place(s.vars, c.word)) = Osh
  BY <1>8, ScriptType, StateFields DEF Effect
<1>9. CASE /\ c.do \notin {"export", "unset", "echo", "exit", "source", "main"}
           /\ ~(c.do = "exec" /\ Interp(Place(s.vars, c.word)) = Osh)
  BY <1>9 DEF Effect
<1> QED BY <1>2, <1>3, <1>4, <1>5, <1>6, <1>7, <1>8, <1>9

\* One turn of the recursion over lines, for the functions from a line on.
RestAt(lines, script, f, i) ==
    [s \in States |->
        IF i > Len(lines) \/ s.exited THEN s ELSE f[i + 1][Effect(lines[i], s, script)]]

LEMMA RestIs ==
    ASSUME NEW lines \in Seq(AllCommands), NEW script \in ScriptReaders
    PROVE  /\ Rest(lines, script) \in [1 .. Len(lines) + 1 -> Reader]
           /\ \A i \in 1 .. Len(lines) + 1 :
                 Rest(lines, script)[i] = RestAt(lines, script, Rest(lines, script), i)
<1> DEFINE n == Len(lines)
           b == [s \in States |-> s]
           Back(k, g) == [s \in States |-> IF s.exited THEN s
                                           ELSE g[Effect(lines[n + 1 - k], s, script)]]
           step == [x \in (1 .. n) \X Reader |-> Back(x[1], x[2])]
<1>1. n \in Nat
  BY LenProperties
<1>2. b \in Reader
  BY DEF Reader
<1>3. ASSUME NEW k \in 1 .. n, NEW g \in Reader PROVE Back(k, g) \in Reader
  <2>1. lines[n + 1 - k] \in AllCommands
    <3>1. n + 1 - k \in 1 .. n
      BY <1>1
    <3> QED BY <3>1, ElementOfSeq
  <2>2. \A s \in States : g[Effect(lines[n + 1 - k], s, script)] \in States
    BY <2>1, EffectType DEF Reader
  <2> QED BY <2>2 DEF Reader
<1>4. step \in [(1 .. n) \X Reader -> Reader]
  <2> HIDE DEF Back
  <2> QED BY <1>3
<1>5. PICK f : Recurs(Reader, b, step, n, f)
  <2> HIDE DEF step, b, n
  <2> QED BY <1>1, <1>2, <1>4, RecursionExists
<1>6. /\ f \in [0 .. n -> Reader] /\ f[0] = b
      /\ \A k \in 1 .. n : f[k] = Back(k, f[k - 1])
  <2>1. f \in [0 .. n -> Reader] /\ f[0] = b /\ \A k \in 1 .. n : f[k] = step[<<k, f[k - 1]>>]
    <3> HIDE DEF step, b, n
    <3> QED BY <1>5 DEF Recurs
  <2>2. \A k \in 1 .. n : f[k - 1] \in Reader
    <3> HIDE DEF n
    <3> QED BY <1>1, <2>1
  <2> HIDE DEF Back, b, n
  <2> QED BY <2>1, <2>2
<1> DEFINE h == [i \in 1 .. n + 1 |-> f[n + 1 - i]]
           Q(r) == r = [i \in 1 .. n + 1 |-> RestAt(lines, script, r, i)]
<1>7. h \in [1 .. n + 1 -> Reader]
  <2> HIDE DEF n
  <2> QED BY <1>1, <1>6
<1>8. Q(h)
  <2>1. ASSUME NEW i \in 1 .. n + 1 PROVE h[i] = RestAt(lines, script, h, i)
    <3>1. CASE i = n + 1
      <4>1. h[i] = b
        <5> HIDE DEF n, b
        <5> QED BY <1>1, <1>6, <3>1
      <4>2. i > Len(lines)
        BY <1>1, <3>1
      <4> HIDE DEF h
      <4> QED BY <4>1, <4>2 DEF RestAt
    <3>2. CASE i # n + 1
      <4>1. n + 1 - i \in 1 .. n /\ n + 1 - (n + 1 - i) = i /\ ~(i > Len(lines))
        BY <1>1, <3>2
      <4>2. h[i] = f[n + 1 - i] /\ h[i + 1] = f[(n + 1 - i) - 1]
        <5> HIDE DEF n
        <5> QED BY <1>1, <3>2
      <4>3. h[i] = Back(n + 1 - i, h[i + 1])
        <5> HIDE DEF Back, h, n
        <5> QED BY <1>6, <4>1, <4>2
      <4> HIDE DEF h
      <4>4. h[i] = [s \in States |-> IF s.exited THEN s
                                     ELSE h[i + 1][Effect(lines[i], s, script)]]
        BY <4>1, <4>3
      <4> QED BY <4>1, <4>4 DEF RestAt
    <3> QED BY <3>1, <3>2
  <2>2. h = [i \in 1 .. n + 1 |-> h[i]]
    OBVIOUS
  <2> HIDE DEF h
  <2> QED BY <2>1, <2>2
<1>9. Rest(lines, script) = CHOOSE r : Q(r)
  BY DEF Rest, RestAt
<1>10. Q(CHOOSE r : Q(r))
  <2> HIDE DEF Q, h
  <2> QED BY <1>8
<1>11. Q(Rest(lines, script))
  <2> HIDE DEF Q
  <2> QED BY <1>9, <1>10
<1> DEFINE r == Rest(lines, script)
           T == { k \in 0 .. n : r[n + 1 - k] \in Reader }
<1>12. \A i \in 1 .. n + 1 : r[i] = RestAt(lines, script, r, i)
  <2>1. \A q : Q(q) => \A i \in 1 .. n + 1 : q[i] = RestAt(lines, script, q, i)
    OBVIOUS
  <2> HIDE DEF Q
  <2> QED BY <1>11, <2>1
<1>13. \A k \in 0 .. n : k \in T
  <2>1. 0 \in T
    <3>1. n + 1 \in 1 .. n + 1 /\ n + 1 > Len(lines) /\ n + 1 - 0 = n + 1 /\ 0 \in 0 .. n
      BY <1>1
    <3>2. r[n + 1] = RestAt(lines, script, r, n + 1)
      <4> HIDE DEF r, n
      <4> QED BY <1>12, <3>1
    <3>3. RestAt(lines, script, r, n + 1) \in Reader
      BY <3>1 DEF RestAt, Reader
    <3> HIDE DEF r, n
    <3> QED BY <3>1, <3>2, <3>3
  <2>2. ASSUME NEW k \in 0 .. n - 1, k \in T PROVE k + 1 \in T
    <3> DEFINE i == n + 1 - (k + 1)
    <3>1. /\ i \in 1 .. n + 1 /\ i + 1 = n + 1 - k /\ k + 1 \in 0 .. n
          /\ i \in 1 .. Len(lines)
      BY <1>1
    <3>2. lines[i] \in AllCommands
      BY <3>1, ElementOfSeq
    <3> HIDE DEF r, n, i
    <3>3. r[i + 1] \in Reader /\ r[i] = RestAt(lines, script, r, i)
      BY <1>12, <2>2, <3>1
    <3>4. \A s \in States : r[i + 1][Effect(lines[i], s, script)] \in States
      BY <3>2, <3>3, EffectType DEF Reader
    <3>5. RestAt(lines, script, r, i) \in Reader
      BY <3>4 DEF RestAt, Reader
    <3>6. n + 1 - (k + 1) = i
      BY DEF i
    <3> QED BY <3>1, <3>3, <3>5, <3>6
  <2> HIDE DEF T, n, r
  <2> QED BY <1>1, <2>1, <2>2, Counted
<1>14. ASSUME NEW i \in 1 .. n + 1 PROVE r[i] \in Reader
  <2>1. n + 1 - i \in 0 .. n /\ n + 1 - (n + 1 - i) = i
    BY <1>1
  <2> HIDE DEF r, n
  <2> QED BY <1>13, <2>1
<1>15. r = [i \in 1 .. n + 1 |-> r[i]]
  <2>1. r = [i \in 1 .. n + 1 |-> RestAt(lines, script, r, i)]
    BY <1>11
  <2> HIDE DEF r, n
  <2> QED BY <1>12, <2>1
<1> QED
  <2> HIDE DEF r
  <2>1. r \in [1 .. n + 1 -> Reader]
    BY <1>14, <1>15
  <2> QED BY <1>12, <2>1 DEF r

LEMMA LinesAreCommands ==
    ASSUME NEW p \in DOMAIN Files
    PROVE  Files[p].lines \in Seq(AllCommands)
<1> DEFINE ls == Files[p].lines
<1>1. ls \in Seq(ToSet(ls)) /\ ToSet(ls) \subseteq AllCommands
  BY CommandsAssumption DEF AllCommands
<1>2. Len(ls) \in Nat /\ ls \in [1 .. Len(ls) -> ToSet(ls)]
  BY <1>1, LenProperties
<1> HIDE DEF ls
<1>3. ls \in [1 .. Len(ls) -> AllCommands]
  BY <1>1, <1>2
<1> QED BY <1>2, <1>3, IsASeq DEF ls

\* The readers when n more scripts may be open, from those for one less.
Level(n, script) ==
    [p \in DOMAIN Files |->
        IF n = 0 THEN [s \in States |-> s] ELSE Rest(Files[p].lines, script)[1]]

LEMMA LevelType ==
    ASSUME NEW script \in ScriptReaders, NEW n \in Nat
    PROVE  Level(n, script) \in ScriptReaders
<1>1. ASSUME NEW p \in DOMAIN Files PROVE Rest(Files[p].lines, script)[1] \in Reader
  <2>1. Files[p].lines \in Seq(AllCommands)
    BY LinesAreCommands
  <2>2. Len(Files[p].lines) \in Nat
    BY <2>1, LenProperties
  <2>3. 1 \in 1 .. Len(Files[p].lines) + 1
    BY <2>2
  <2> QED BY <2>1, <2>3, RestIs
<1>2. [s \in States |-> s] \in Reader
  BY DEF Reader
<1> QED BY <1>1, <1>2 DEF Level, ScriptReaders

LEMMA ScriptsIs ==
    /\ Scripts \in [0 .. ScriptDepthMax -> ScriptReaders]
    /\ \A n \in 0 .. ScriptDepthMax : Scripts[n] = Level(n, Scripts[n - 1])
<1> DEFINE b == [p \in DOMAIN Files |-> [s \in States |-> s]]
           step == [x \in (1 .. ScriptDepthMax) \X ScriptReaders |-> Level(x[1], x[2])]
<1>1. ScriptDepthMax \in Nat
  BY ProgramsAssumption
<1>2. b \in ScriptReaders
  BY DEF ScriptReaders, Reader
<1>3. step \in [(1 .. ScriptDepthMax) \X ScriptReaders -> ScriptReaders]
  <2>1. \A x \in (1 .. ScriptDepthMax) \X ScriptReaders : Level(x[1], x[2]) \in ScriptReaders
    BY <1>1, LevelType
  <2> QED BY <2>1
<1>4. PICK f : Recurs(ScriptReaders, b, step, ScriptDepthMax, f)
  <2> HIDE DEF step, b
  <2> QED BY <1>1, <1>2, <1>3, RecursionExists
<1>5. f \in [0 .. ScriptDepthMax -> ScriptReaders] /\ f[0] = b
  <2> HIDE DEF b
  <2> QED BY <1>4 DEF Recurs
<1>6. ASSUME NEW n \in 0 .. ScriptDepthMax PROVE f[n] = Level(n, f[n - 1])
  <2>1. CASE n = 0
    BY <1>5, <2>1 DEF Level
  <2>2. CASE n # 0
    <3>1. n \in 1 .. ScriptDepthMax /\ f[n - 1] \in ScriptReaders
      BY <1>1, <1>5, <2>2
    <3>2. f[n] = step[<<n, f[n - 1]>>]
      <4> HIDE DEF step, b
      <4> QED BY <1>4, <3>1 DEF Recurs
    <3> QED BY <3>1, <3>2
  <2> QED BY <2>1, <2>2
<1> DEFINE Q(r) == r = [n \in 0 .. ScriptDepthMax |-> Level(n, r[n - 1])]
           T == { n \in 0 .. ScriptDepthMax : Scripts[n] = f[n] }
<1>7. Q(f)
  BY <1>5, <1>6
<1>8. Scripts = CHOOSE r : Q(r)
  BY DEF Scripts, Level
<1>9. Q(CHOOSE r : Q(r))
  <2> HIDE DEF Q
  <2> QED BY <1>7
<1>10. \A r : Q(r) => \A n \in 0 .. ScriptDepthMax : r[n] = Level(n, r[n - 1])
  OBVIOUS
<1>11. Q(Scripts)
  <2> HIDE DEF Q
  <2> QED BY <1>8, <1>9
<1>12. \A n \in 0 .. ScriptDepthMax : Scripts[n] = Level(n, Scripts[n - 1])
  <2> HIDE DEF Q
  <2> QED BY <1>10, <1>11
<1>13. \A n \in 0 .. ScriptDepthMax : n \in T
  <2>1. 0 \in T
    <3>1. 0 \in 0 .. ScriptDepthMax
      BY <1>1
    <3> QED BY <1>5, <1>12, <3>1 DEF Level
  <2>2. \A n \in 0 .. ScriptDepthMax - 1 : n \in T => n + 1 \in T
    <3> SUFFICES ASSUME NEW n \in 0 .. ScriptDepthMax - 1, n \in T PROVE n + 1 \in T
      OBVIOUS
    <3>1. n + 1 \in 0 .. ScriptDepthMax /\ (n + 1) - 1 = n
      BY <1>1
    <3>2. f[n + 1] = Level(n + 1, f[n])
      BY <1>6, <3>1
    <3>3. Scripts[n + 1] = Level(n + 1, Scripts[n])
      BY <1>12, <3>1
    <3> QED BY <3>1, <3>2, <3>3
  <2> HIDE DEF T
  <2> QED BY <1>1, <2>1, <2>2, Counted
<1>14. Scripts \in [0 .. ScriptDepthMax -> ScriptReaders]
  <2>1. \A n \in 0 .. ScriptDepthMax : Scripts[n] \in ScriptReaders
    BY <1>5, <1>13
  <2>2. \A r : Q(r) => r = [n \in 0 .. ScriptDepthMax |-> r[n]]
    OBVIOUS
  <2>3. Scripts = [n \in 0 .. ScriptDepthMax |-> Scripts[n]]
    <3> HIDE DEF Q
    <3> QED BY <1>11, <2>2
  <2> QED BY <2>1, <2>3
<1> QED BY <1>12, <1>14

-----------------------------------------------------------------------------
(* What is left to be done of the scripts being read                       *)

\* The state in which the shell leaves the script that is the i-th one open.
FrameDone(f, i, s) ==
    LET done == Rest(Files[f.file].lines, Scripts[ScriptDepthMax - i])[f.next][s]
    IN  IF f.thenExit THEN [done EXCEPT !.exited = TRUE] ELSE done

FrameFits(f) == f \in Frame /\ f.next <= Len(Files[f.file].lines) + 1

\* One line of a script, the end of one, and what an exit does to one.
LEMMA FrameDoneIs ==
    ASSUME NEW f, FrameFits(f), NEW i \in 1 .. ScriptDepthMax, NEW s \in States
    PROVE  /\ FrameDone(f, i, s) \in States
           /\ s.exited => FrameDone(f, i, s) = s
           /\ f.next > Len(Files[f.file].lines) =>
                 FrameDone(f, i, s) = IF f.thenExit THEN [s EXCEPT !.exited = TRUE] ELSE s
           /\ ~s.exited /\ ~(f.next > Len(Files[f.file].lines)) =>
                 /\ FrameFits([f EXCEPT !.next = @ + 1])
                 /\ Files[f.file].lines[f.next] \in AllCommands
                 /\ Effect(Files[f.file].lines[f.next], s, Scripts[ScriptDepthMax - i]) \in States
                 /\ FrameDone(f, i, s) =
                       FrameDone([f EXCEPT !.next = @ + 1], i,
                                 Effect(Files[f.file].lines[f.next], s, Scripts[ScriptDepthMax - i]))
<1> DEFINE ls == Files[f.file].lines
           script == Scripts[ScriptDepthMax - i]
           R == Rest(ls, script)
           e == Effect(ls[f.next], s, script)
           g == [f EXCEPT !.next = @ + 1]
<1>1. /\ f.file \in DOMAIN Files /\ f.next \in Nat \ {0} /\ f.thenExit \in BOOLEAN
      /\ g.file = f.file /\ g.next = f.next + 1 /\ g.thenExit = f.thenExit /\ g \in Frame
  BY DEF FrameFits, Frame
<1>2. ls \in Seq(AllCommands) /\ Len(ls) \in Nat
  BY <1>1, LinesAreCommands, LenProperties
<1>3. script \in ScriptReaders
  <2>1. ScriptDepthMax - i \in 0 .. ScriptDepthMax
    BY ProgramsAssumption
  <2> QED BY <2>1, ScriptsIs
<1>4. f.next \in 1 .. Len(ls) + 1
  BY <1>1, <1>2 DEF FrameFits
<1> HIDE DEF ls, script
<1>5. /\ R \in [1 .. Len(ls) + 1 -> Reader]
      /\ \A n \in 1 .. Len(ls) + 1 : R[n] = RestAt(ls, script, R, n)
  BY <1>2, <1>3, RestIs
<1>6. /\ FrameDone(f, i, s) = IF f.thenExit THEN [R[f.next][s] EXCEPT !.exited = TRUE]
                              ELSE R[f.next][s]
      /\ FrameDone(g, i, e) = IF f.thenExit THEN [R[f.next + 1][e] EXCEPT !.exited = TRUE]
                              ELSE R[f.next + 1][e]
  <2> HIDE DEF e, g
  <2> QED BY <1>1 DEF FrameDone, R, ls, script
<1> HIDE DEF R, g
<1>7. R[f.next][s] \in States
  BY <1>4, <1>5 DEF Reader
<1>8. R[f.next][s] = IF f.next > Len(ls) \/ s.exited THEN s ELSE R[f.next + 1][e]
  <2>1. R[f.next] = RestAt(ls, script, R, f.next)
    BY <1>4, <1>5
  <2> QED BY <2>1 DEF RestAt
<1>9. FrameDone(f, i, s) \in States
  BY <1>6, <1>7, StateFields
<1>10. s.exited => FrameDone(f, i, s) = s
  <2>1. s.exited => [s EXCEPT !.exited = TRUE] = s
    BY DEF States
  <2> QED BY <1>6, <1>8, <2>1
<1>11. f.next > Len(ls) => FrameDone(f, i, s) = IF f.thenExit THEN [s EXCEPT !.exited = TRUE] ELSE s
  BY <1>6, <1>8
<1>12. ASSUME ~s.exited, ~(f.next > Len(ls))
       PROVE  /\ FrameFits(g) /\ ls[f.next] \in AllCommands /\ e \in States
              /\ FrameDone(f, i, s) = FrameDone(g, i, e)
  <2>1. f.next \in 1 .. Len(ls)
    BY <1>2, <1>4, <1>12
  <2>2. ls[f.next] \in AllCommands
    BY <1>2, <2>1, ElementOfSeq
  <2>3. e \in States
    BY <1>3, <2>2, EffectType
  <2>4. FrameFits(g)
    BY <1>1, <1>2, <2>1 DEF FrameFits, ls
  <2>5. FrameDone(f, i, s) = FrameDone(g, i, e)
    <3> HIDE DEF e
    <3>1. R[f.next][s] = R[f.next + 1][e]
      BY <1>8, <1>12
    <3> QED BY <1>6, <3>1
  <2> QED BY <2>2, <2>3, <2>4, <2>5
<1> QED BY <1>9, <1>10, <1>11, <1>12 DEF ls, script, g

\* A script that was just begun, with d others open.
LEMMA NewFrameDone ==
    ASSUME NEW p \in DOMAIN Files, NEW d \in 0 .. ScriptDepthMax - 1, NEW s \in States,
           NEW thenExit \in BOOLEAN
    PROVE  /\ FrameFits([file |-> p, next |-> 1, thenExit |-> thenExit])
           /\ FrameDone([file |-> p, next |-> 1, thenExit |-> thenExit], d + 1, s) =
                 IF thenExit THEN [Scripts[ScriptDepthMax - d][p][s] EXCEPT !.exited = TRUE]
                 ELSE Scripts[ScriptDepthMax - d][p][s]
<1> DEFINE f == [file |-> p, next |-> 1, thenExit |-> thenExit]
           n == ScriptDepthMax - d
<1>1. n \in 0 .. ScriptDepthMax /\ n # 0 /\ n - 1 = ScriptDepthMax - (d + 1)
  BY ProgramsAssumption
<1>2. Len(Files[p].lines) \in Nat
  BY LinesAreCommands, LenProperties
<1>3. FrameFits(f)
  BY <1>2 DEF FrameFits, Frame
<1>4. Scripts[n][p] = Rest(Files[p].lines, Scripts[n - 1])[1]
  <2> HIDE DEF n
  <2>1. Scripts[n] = Level(n, Scripts[n - 1])
    BY <1>1, ScriptsIs
  <2> QED BY <1>1, <2>1 DEF Level
<1>5. FrameDone(f, d + 1, s) =
        IF thenExit THEN [Rest(Files[p].lines, Scripts[n - 1])[1][s] EXCEPT !.exited = TRUE]
        ELSE Rest(Files[p].lines, Scripts[n - 1])[1][s]
  BY <1>1 DEF FrameDone
<1> QED BY <1>3, <1>4, <1>5

\* From the state s, the scripts of st are left one after the other, the
\* innermost first, and the shell is then in the state m.
Unwinding(st, s, m, g) ==
    /\ g \in [0 .. Len(st) -> States]
    /\ g[Len(st)] = s /\ g[0] = m
    /\ \A i \in 1 .. Len(st) : g[i - 1] = FrameDone(st[i], i, g[i])

Unwinds(st, s, m) == \E g : Unwinding(st, s, m, g)

LEMMA UnwindNothing ==
    ASSUME NEW s \in States
    PROVE  Unwinds(<<>>, s, s)
<1>1. Unwinding(<<>>, s, s, [i \in 0 .. 0 |-> s])
  BY DEF Unwinding
<1> QED BY <1>1 DEF Unwinds

LEMMA UnwindTop ==
    ASSUME NEW st \in Seq(Frame), st # <<>>, NEW s, NEW m, Unwinds(st, s, m),
           NEW f \in Frame, NEW e \in States,
           FrameDone(st[Len(st)], Len(st), s) = FrameDone(f, Len(st), e)
    PROVE  Unwinds([st EXCEPT ![Len(st)] = f], e, m)
<1> DEFINE n == Len(st)
           h(g) == [g EXCEPT ![n] = e]
           u == [st EXCEPT ![n] = f]
<1>1. n \in Nat \ {0} /\ n \in 1 .. n
  <2>1. Len(st) \in Nat /\ Len(st) # 0
    BY LenProperties, EmptySeq
  <2> QED BY <2>1
<1>2. u \in Seq(Frame) /\ Len(u) = n /\ u[n] = f /\ \A i \in 1 .. n : i # n => u[i] = st[i]
  BY <1>1, ExceptSeq
<1>3. PICK g : Unwinding(st, s, m, g)
  BY DEF Unwinds
<1> HIDE DEF u
<1>4. /\ g \in [0 .. n -> States] /\ g[n] = s /\ g[0] = m
      /\ \A i \in 1 .. n : g[i - 1] = FrameDone(st[i], i, g[i])
  BY <1>3 DEF Unwinding
<1>5. FrameDone(st[n], n, s) = FrameDone(f, n, e)
  OBVIOUS
<1> HIDE DEF n
<1>6. /\ h(g) \in [0 .. n -> States] /\ h(g)[n] = e
      /\ \A i \in 0 .. n : i # n => h(g)[i] = g[i]
  BY <1>1, <1>4
<1>7. h(g)[0] = m
  BY <1>1, <1>4, <1>6
<1> HIDE DEF h
<1>8. ASSUME NEW i \in 1 .. n PROVE h(g)[i - 1] = FrameDone(u[i], i, h(g)[i])
  <2>1. i - 1 \in 0 .. n /\ i - 1 # n /\ i \in 0 .. n
    BY <1>1
  <2>2. h(g)[i - 1] = FrameDone(st[i], i, g[i])
    BY <1>4, <1>6, <2>1
  <2>3. CASE i = n
    BY <1>2, <1>4, <1>5, <1>6, <2>2, <2>3
  <2>4. CASE i # n
    BY <1>2, <1>6, <2>1, <2>2, <2>4
  <2> QED BY <2>3, <2>4
<1>9. Unwinding(u, e, m, h(g))
  BY <1>2, <1>6, <1>7, <1>8 DEF Unwinding
<1> QED BY <1>9 DEF Unwinds, u, n

LEMMA UnwindPush ==
    ASSUME NEW st \in Seq(Frame), NEW s, NEW m, Unwinds(st, s, m),
           NEW f \in Frame, NEW e \in States, s = FrameDone(f, Len(st) + 1, e)
    PROVE  Unwinds(Append(st, f), e, m)
<1> DEFINE n == Len(st)
           h(g) == [i \in 0 .. n + 1 |-> IF i = n + 1 THEN e ELSE g[i]]
           u == Append(st, f)
<1>1. n \in Nat
  BY LenProperties
<1>2. u \in Seq(Frame) /\ Len(u) = n + 1 /\ u[n + 1] = f /\ \A i \in 1 .. n : u[i] = st[i]
  BY AppendProperties
<1>3. PICK g : Unwinding(st, s, m, g)
  BY DEF Unwinds
<1> HIDE DEF u
<1>4. /\ g \in [0 .. n -> States] /\ g[n] = s /\ g[0] = m
      /\ \A i \in 1 .. n : g[i - 1] = FrameDone(st[i], i, g[i])
  BY <1>3 DEF Unwinding
<1>5. s = FrameDone(f, n + 1, e)
  OBVIOUS
<1> HIDE DEF n
<1>6. /\ h(g) \in [0 .. n + 1 -> States] /\ h(g)[n + 1] = e
      /\ \A i \in 0 .. n : h(g)[i] = g[i]
  BY <1>1, <1>4
<1>7. h(g)[0] = m
  BY <1>1, <1>4, <1>6
<1> HIDE DEF h
<1>8. ASSUME NEW i \in 1 .. n + 1 PROVE h(g)[i - 1] = FrameDone(u[i], i, h(g)[i])
  <2>1. i - 1 \in 0 .. n
    BY <1>1
  <2>2. CASE i = n + 1
    <3>1. i - 1 = n
      BY <1>1, <2>2
    <3> QED BY <1>2, <1>4, <1>5, <1>6, <2>1, <2>2, <3>1
  <2>3. CASE i # n + 1
    <3>1. i \in 1 .. n /\ i \in 0 .. n
      BY <1>1, <2>3
    <3> QED BY <1>2, <1>4, <1>6, <2>1, <3>1
  <2> QED BY <2>2, <2>3
<1>9. Unwinding(u, e, m, h(g))
  BY <1>2, <1>6, <1>7, <1>8 DEF Unwinding
<1> QED BY <1>9 DEF Unwinds, u

LEMMA UnwindPop ==
    ASSUME NEW st \in Seq(Frame), st # <<>>, NEW s, NEW m, Unwinds(st, s, m)
    PROVE  Unwinds(Front(st), FrameDone(st[Len(st)], Len(st), s), m)
<1> DEFINE n == Len(st)
           h(g) == [i \in 0 .. n - 1 |-> g[i]]
           u == Front(st)
<1>1. n \in Nat \ {0} /\ n \in 1 .. n /\ n - 1 \in 0 .. n - 1 /\ 0 \in 0 .. n - 1
  <2>1. Len(st) \in Nat /\ Len(st) # 0
    BY LenProperties, EmptySeq
  <2> QED BY <2>1
<1>2. u \in Seq(Frame) /\ Len(u) = n - 1 /\ \A i \in 1 .. n - 1 : u[i] = st[i]
  BY FrontType
<1>3. PICK g : Unwinding(st, s, m, g)
  BY DEF Unwinds
<1> HIDE DEF u
<1>4. /\ g \in [0 .. n -> States] /\ g[n] = s /\ g[0] = m
      /\ \A i \in 1 .. n : g[i - 1] = FrameDone(st[i], i, g[i])
  BY <1>3 DEF Unwinding
<1> HIDE DEF n
<1>5. /\ h(g) \in [0 .. n - 1 -> States]
      /\ \A i \in 0 .. n - 1 : h(g)[i] = g[i]
  BY <1>1, <1>4
<1> HIDE DEF h
<1>6. h(g)[n - 1] = FrameDone(st[n], n, s) /\ h(g)[0] = m
  BY <1>1, <1>4, <1>5
<1>7. ASSUME NEW i \in 1 .. n - 1 PROVE h(g)[i - 1] = FrameDone(u[i], i, h(g)[i])
  <2>1. i - 1 \in 0 .. n - 1 /\ i \in 0 .. n - 1 /\ i \in 1 .. n
    BY <1>1
  <2> QED BY <1>2, <1>4, <1>5, <2>1
<1>8. Unwinding(u, FrameDone(st[n], n, s), m, h(g))
  BY <1>2, <1>5, <1>6, <1>7 DEF Unwinding
<1> QED BY <1>8 DEF Unwinds, u, n

\* Nothing is read once the shell has exited, or when no script is open.
LEMMA UnwindExited ==
    ASSUME NEW st \in Seq(Frame), \A i \in 1 .. Len(st) : FrameFits(st[i]),
           Len(st) <= ScriptDepthMax, NEW s, NEW m, Unwinds(st, s, m),
           st = <<>> \/ s.exited
    PROVE  m = s
<1> DEFINE n == Len(st)
<1>1. n \in Nat /\ ScriptDepthMax \in Nat
  BY LenProperties, ProgramsAssumption
<1>2. PICK g : Unwinding(st, s, m, g)
  BY DEF Unwinds
<1>3. /\ g \in [0 .. n -> States] /\ g[n] = s /\ g[0] = m
      /\ \A i \in 1 .. n : g[i - 1] = FrameDone(st[i], i, g[i])
  BY <1>2 DEF Unwinding
<1>4. CASE st = <<>>
  BY <1>3, <1>4
<1>5. CASE s.exited
  <2> DEFINE T == { k \in 0 .. n : g[n - k] = s }
  <2>1. \A k \in 0 .. n : k \in T
    <3> HIDE DEF n
    <3>1. 0 \in T
      <4>1. n - 0 = n /\ 0 \in 0 .. n
        BY <1>1
      <4> QED BY <1>3, <4>1
    <3>2. ASSUME NEW k \in 0 .. n - 1, k \in T PROVE k + 1 \in T
      <4>1. /\ n - k \in 1 .. n /\ n - k \in 0 .. n /\ n - (k + 1) = (n - k) - 1
            /\ k + 1 \in 0 .. n /\ n - k \in 1 .. ScriptDepthMax
        BY <1>1 DEF n
      <4>2. g[n - k] = s /\ s \in States /\ g[(n - k) - 1] = FrameDone(st[n - k], n - k, s)
        BY <1>3, <3>2, <4>1
      <4>3. FrameDone(st[n - k], n - k, s) = s
        <5>1. FrameFits(st[n - k])
          BY <4>1 DEF n
        <5> QED BY <1>5, <4>1, <4>2, <5>1, FrameDoneIs
      <4> QED BY <4>1, <4>2, <4>3
    <3> HIDE DEF T
    <3> QED BY <1>1, <3>1, <3>2, Counted
  <2>2. n \in 0 .. n /\ n - n = 0
    BY <1>1
  <2> HIDE DEF n
  <2> QED BY <1>3, <2>1, <2>2
<1> QED BY <1>4, <1>5

-----------------------------------------------------------------------------
(* The machine follows the meaning                                         *)

Here == State(env, out, FALSE)

\* Where a script that is begun, or refused, leads; x is what it means.
Goes(frames, x) ==
    /\ stack' = frames
    /\ pc' = "wait" \/ pc' = IF frames = <<>> THEN "prompt" ELSE "script"
    /\ IF frames = <<>> THEN out' = out ELSE x = State(env', out', FALSE)

Exits(x) == Exit /\ x = [Here EXCEPT !.exited = TRUE]

Begins(frames, x) ==
    \E f : /\ FrameFits(f) /\ Len(frames) + 1 <= ScriptDepthMax
           /\ stack' = Append(frames, f) /\ pc' = "script"
           /\ UNCHANGED <<env, out>>
           /\ x = FrameDone(f, Len(frames) + 1, Here)

Leaves == pc' = "replaced" /\ stack' = <<>> /\ UNCHANGED out

LEMMA HereType == TypeOK /\ out \in Seq(Values \cup {NotSet}) => Here \in States
BY DEF TypeOK, Here, State, States

\* x is what the script at p means with frames open, and then the exit.
LEMMA DoScriptMeans ==
    ASSUME Here \in States, NEW frames, Frames(frames), NEW p, NEW thenExit \in BOOLEAN,
           DoScript(p, thenExit, frames), NEW x,
           x = IF thenExit
               THEN [Script(p, Here, Scripts[ScriptDepthMax - Len(frames)]) EXCEPT !.exited = TRUE]
               ELSE Script(p, Here, Scripts[ScriptDepthMax - Len(frames)])
    PROVE  Goes(frames, x) \/ Exits(x) \/ Begins(frames, x)
<1> DEFINE d == Len(frames)
           n == ScriptDepthMax - d
<1>1. /\ d \in Nat /\ d <= ScriptDepthMax /\ ScriptDepthMax \in Nat /\ depth = d
      /\ n \in 0 .. ScriptDepthMax
  BY LenProperties, ProgramsAssumption DEF Frames
<1>2. CASE depth >= ScriptDepthMax \/ ~Exists(p)
  <2>1. Script(p, Here, Scripts[n]) = Here
    <3>1. CASE ~Exists(p)
      BY <3>1 DEF Script
    <3>2. CASE Exists(p)
      <4>1. n = 0
        BY <1>1, <1>2, <3>2
      <4>2. Scripts[0][p] = [s \in States |-> s]
        BY <1>1, <3>2, <4>1, ScriptsIs DEF Level, Exists
      <4> HIDE DEF n
      <4> QED BY <3>2, <4>1, <4>2 DEF Script
    <3> QED BY <3>1, <3>2
  <2>2. CASE thenExit
    <3>1. Exit
      BY <1>2, <2>2 DEF DoScript
    <3> HIDE DEF n
    <3>2. x = [Here EXCEPT !.exited = TRUE]
      BY <2>1, <2>2 DEF n
    <3> QED BY <3>1, <3>2 DEF Exits
  <2>3. CASE ~thenExit
    <3>1. Continue(frames) /\ UNCHANGED <<env, out>>
      BY <1>2, <2>3 DEF DoScript
    <3>2. x = Here
      BY <2>1, <2>3
    <3> QED BY <3>1, <3>2 DEF Goes, Continue, Here
  <2> QED BY <2>2, <2>3
<1>3. CASE ~(depth >= ScriptDepthMax \/ ~Exists(p))
  <2> DEFINE f == [file |-> p, next |-> 1, thenExit |-> thenExit]
  <2>1. stack' = Append(frames, f) /\ pc' = "script" /\ UNCHANGED <<env, out>>
    BY <1>3 DEF DoScript
  <2>2. d \in 0 .. ScriptDepthMax - 1 /\ p \in DOMAIN Files /\ d + 1 <= ScriptDepthMax
    BY <1>1, <1>3 DEF Exists
  <2>3. /\ FrameFits(f)
        /\ FrameDone(f, d + 1, Here) =
              IF thenExit THEN [Scripts[n][p][Here] EXCEPT !.exited = TRUE]
              ELSE Scripts[n][p][Here]
    <3> HIDE DEF d
    <3> QED BY <2>2, NewFrameDone
  <2>4. Script(p, Here, Scripts[n]) = Scripts[n][p][Here]
    BY <1>3 DEF Script
  <2>5. x = FrameDone(f, d + 1, Here)
    <3> HIDE DEF f
    <3> QED BY <2>3, <2>4
  <2> HIDE DEF f
  <2> QED BY <2>1, <2>2, <2>3, <2>5 DEF Begins
<1> QED BY <1>2, <1>3

\* A command, also one of a script, does what it means.
LEMMA DispatchMeans ==
    ASSUME TypeOK, out \in Seq(Values \cup {NotSet}), NEW frames, Frames(frames),
           NEW c \in AllCommands, Dispatch(c, frames), NEW x,
           x = Effect(c, Here, Scripts[ScriptDepthMax - Len(frames)])
    PROVE  Goes(frames, x) \/ Exits(x) \/ Begins(frames, x) \/ Leaves
<1> DEFINE script == Scripts[ScriptDepthMax - Len(frames)]
<1>0. Here \in States /\ Here.vars = env /\ Here.out = out
  BY HereType DEF Here, State
<1> HIDE DEF script
<1>1. x = Effect(c, Here, script)
  BY DEF script
<1>2. CASE Variables(c, frames)
  <2>1. stack' = frames /\ pc' = IF frames = <<>> THEN "prompt" ELSE "script"
    BY <1>2 DEF Variables, Continue
  <2>2. CASE c.do = "export" /\ Export(c.key, c.val) /\ UNCHANGED out
    <3>1. env' = With(env, c.key, c.val)
      BY <2>2, TableIs
    <3>2. x = [Here EXCEPT !.vars = With(env, c.key, c.val)]
      BY <1>0, <1>1, <2>2 DEF Effect
    <3>3. x = State(env', out', FALSE)
      BY <2>2, <3>1, <3>2 DEF Here, State
    <3> QED BY <2>1, <2>2, <3>3 DEF Goes
  <2>3. CASE c.do = "unset" /\ Unset(c.key) /\ UNCHANGED out
    <3>1. env' = Without(env, c.key)
      BY <2>3, TableIs
    <3>2. x = [Here EXCEPT !.vars = Without(env, c.key)]
      BY <1>0, <1>1, <2>3 DEF Effect
    <3>3. x = State(env', out', FALSE)
      BY <2>3, <3>1, <3>2 DEF Here, State
    <3> QED BY <2>1, <2>3, <3>3 DEF Goes
  <2>4. CASE /\ c.do = "echo" /\ UNCHANGED env
             /\ out' = IF frames = <<>> THEN out ELSE Append(out, Lookup(c.key))
    <3>1. Get(env, c.key) = Lookup(c.key)
      BY TableIs
    <3>2. x = [Here EXCEPT !.out = Append(out, Lookup(c.key))]
      BY <1>0, <1>1, <2>4, <3>1 DEF Effect
    <3>3. frames # <<>> => x = State(env', out', FALSE)
      BY <2>4, <3>2 DEF Here, State
    <3> QED BY <2>1, <2>4, <3>3 DEF Goes
  <2> QED BY <1>2, <2>2, <2>3, <2>4 DEF Variables
<1>3. CASE c.do = "exit" /\ Exit
  BY <1>1, <1>3 DEF Exits, Effect
<1>4. CASE c.do = "source" /\ DoScript(Resolved(c.word), FALSE, frames)
  <2>1. x = Script(Resolved(c.word), Here, script)
    BY <1>1, <1>4 DEF Effect
  <2> QED BY <1>0, <1>4, <2>1, DoScriptMeans DEF script
<1>5. ASSUME x = Here, Continue(frames), UNCHANGED <<env, out>>
      PROVE  Goes(frames, x)
  BY <1>5 DEF Goes, Continue, Here
<1>6. CASE c.do = "exec" /\ ExecProgram(c, frames)
  <2>1. Place(Here.vars, c.word) = ResolveCmd(c.word)
    BY <1>0, PlaceIs
  <2>2. CASE Interp(ResolveCmd(c.word)) = Osh
    <3>1. x = [Script(ResolveCmd(c.word), Here, script) EXCEPT !.exited = TRUE]
      BY <1>1, <1>6, <2>1, <2>2 DEF Effect
    <3>2. DoScript(ResolveCmd(c.word), TRUE, frames)
      BY <1>6, <2>2 DEF ExecProgram
    <3> QED BY <1>0, <3>1, <3>2, DoScriptMeans DEF script
  <2>3. CASE Interp(ResolveCmd(c.word)) # Osh
    <3>1. x = Here
      BY <1>1, <1>6, <2>1, <2>3 DEF Effect
    <3>2. Leaves \/ (Continue(frames) /\ UNCHANGED <<env, out>>)
      BY <1>6, <2>3 DEF ExecProgram, Leaves
    <3> QED BY <1>5, <3>1, <3>2
  <2> QED BY <2>2, <2>3
<1>7. CASE c.do = "run" /\ RunProgram(c, frames)
  <2>1. x = Here
    BY <1>1, <1>7 DEF Effect
  <2>2. \/ pc' = "wait" /\ stack' = frames /\ UNCHANGED <<env, out>>
        \/ Continue(frames) /\ UNCHANGED <<env, out>>
    BY <1>7 DEF RunProgram
  <2>3. x = State(env', out', FALSE) \/ ~UNCHANGED <<env, out>>
    BY <2>1 DEF Here
  <2> QED BY <1>5, <2>1, <2>2, <2>3 DEF Goes
<1> QED BY <1>2, <1>3, <1>4, <1>6, <1>7 DEF Dispatch

MeaningOf(b) == Meaning(b.command, State(b.env, <<>>, FALSE))

\* As long as no read has failed, what is left of the scripts being read
\* leads to what the command that began them means.
MeaningInv ==
    /\ out \in Seq(Values \cup {NotSet})
    /\ stack = <<>> /\ pc \notin {"exited", "replaced"} => out = <<>>
    /\ \A i \in 1 .. Len(stack) : FrameFits(stack[i])
    /\ stack # <<>> /\ ~failed => \A b \in begun : Unwinds(stack, Here, MeaningOf(b))

\* The frames once the innermost script's position has advanced.
Advanced == [stack EXCEPT ![Len(stack)].next = @ + 1]

LEMMA AdvancedIs ==
    ASSUME Nesting, pc = "script"
    PROVE  /\ stack \in Seq(Frame) /\ Len(stack) \in 1 .. ScriptDepthMax /\ Top = stack[Len(stack)]
           /\ Top \in Frame /\ [Top EXCEPT !.next = @ + 1] \in Frame
           /\ Advanced = [stack EXCEPT ![Len(stack)] = [Top EXCEPT !.next = @ + 1]]
           /\ Frames(Advanced) /\ Len(Advanced) = Len(stack) /\ Advanced # <<>>
<1>1. /\ stack \in Seq(Frame) /\ Len(stack) \in Nat /\ Len(stack) # 0
      /\ depth = Len(stack) /\ depth <= ScriptDepthMax
  BY LenProperties, EmptySeq DEF Nesting
<1>2. Top = stack[Len(stack)] /\ Top \in Frame /\ Frames(Advanced)
  BY TopFrame DEF Top, Last, Advanced
<1>3. [Top EXCEPT !.next = @ + 1] \in Frame
  BY <1>2 DEF Frame
<1>4. Advanced = [stack EXCEPT ![Len(stack)] = [Top EXCEPT !.next = @ + 1]]
  BY <1>2 DEF Advanced
<1>5. Len(Advanced) = Len(stack) /\ Advanced # <<>>
  <2>1. Advanced \in Seq(Frame) /\ Len(Advanced) = depth
    BY <1>2 DEF Frames
  <2> QED BY <1>1, <2>1, EmptySeq
<1>6. Len(stack) \in 1 .. ScriptDepthMax
  BY <1>1, ProgramsAssumption
<1> QED BY <1>1, <1>2, <1>3, <1>4, <1>5, <1>6

\* Frames that fit after a push and after a pop.
LEMMA PushedFit ==
    ASSUME NEW st \in Seq(Frame), \A i \in 1 .. Len(st) : FrameFits(st[i]), NEW f, FrameFits(f)
    PROVE  /\ Append(st, f) \in Seq(Frame) /\ Append(st, f) # <<>>
           /\ \A i \in 1 .. Len(Append(st, f)) : FrameFits(Append(st, f)[i])
<1>1. f \in Frame /\ Len(st) \in Nat
  BY LenProperties DEF FrameFits
<1>2. /\ Append(st, f) \in Seq(Frame) /\ Len(Append(st, f)) = Len(st) + 1
      /\ Append(st, f)[Len(st) + 1] = f
      /\ \A i \in 1 .. Len(st) : Append(st, f)[i] = st[i]
  BY <1>1, AppendProperties
<1> DEFINE u == Append(st, f)
<1> HIDE DEF u
<1>3. u # <<>>
  BY <1>1, <1>2, EmptySeq DEF u
<1>4. ASSUME NEW i \in 1 .. Len(st) + 1 PROVE FrameFits(Append(st, f)[i])
  <2>1. i = Len(st) + 1 \/ i \in 1 .. Len(st)
    BY <1>1
  <2> QED BY <1>2, <2>1
<1> QED BY <1>2, <1>3, <1>4 DEF u

\* The next line of a script: what was left is done up to it.
LEMMA LineMeans ==
    ASSUME TypeOK, Nesting, MeaningInv, NextLine
    PROVE  LET c == Files[Top.file].lines[Top.next]
               x == Effect(c, Here, Scripts[ScriptDepthMax - Len(stack)])
           IN  /\ x \in States
               /\ Goes(Advanced, x) \/ Exits(x) \/ Begins(Advanced, x) \/ Leaves
               /\ \A i \in 1 .. Len(Advanced) : FrameFits(Advanced[i])
               /\ \A m : Unwinds(stack, Here, m) => Unwinds(Advanced, x, m)
<1> DEFINE c == Files[Top.file].lines[Top.next]
           x == Effect(c, Here, Scripts[ScriptDepthMax - Len(stack)])
           g == [Top EXCEPT !.next = @ + 1]
<1>1. pc = "script" /\ ~AtEnd /\ Dispatch(c, Advanced)
  BY DEF NextLine, Advanced
<1>2. /\ stack \in Seq(Frame) /\ Len(stack) \in 1 .. ScriptDepthMax /\ Top = stack[Len(stack)]
      /\ Top \in Frame /\ g \in Frame
      /\ Advanced = [stack EXCEPT ![Len(stack)] = g]
      /\ Frames(Advanced) /\ Len(Advanced) = Len(stack) /\ Advanced # <<>>
  BY <1>1, AdvancedIs
<1>3. Len(stack) \in 1 .. Len(stack) /\ stack # <<>>
  <2>1. Len(stack) \in Nat /\ Len(stack) >= 1
    BY <1>2
  <2> QED BY <1>2, <2>1, EmptySeq
<1>4. FrameFits(Top)
  BY <1>2, <1>3 DEF MeaningInv
<1>5. Here \in States /\ Here.exited = FALSE
  BY HereType DEF MeaningInv, Here, State
<1>6. /\ FrameFits(g) /\ c \in AllCommands /\ x \in States
      /\ FrameDone(Top, Len(stack), Here) = FrameDone(g, Len(stack), x)
  <2>1. ~(Top.next > Len(Files[Top.file].lines))
    BY <1>1 DEF AtEnd
  <2> QED BY <1>2, <1>4, <1>5, <2>1, FrameDoneIs
<1> HIDE DEF x, g, c
<1>7. Goes(Advanced, x) \/ Exits(x) \/ Begins(Advanced, x) \/ Leaves
  <2>1. x = Effect(c, Here, Scripts[ScriptDepthMax - Len(Advanced)])
    BY <1>2 DEF x
  <2>2. out \in Seq(Values \cup {NotSet})
    BY DEF MeaningInv
  <2> QED BY <1>1, <1>2, <1>6, <2>1, <2>2, DispatchMeans
<1>8. \A i \in 1 .. Len(Advanced) : FrameFits(Advanced[i])
  <2> TAKE i \in 1 .. Len(Advanced)
  <2>1. i \in 1 .. Len(stack) /\ FrameFits(stack[i])
    BY <1>2 DEF MeaningInv
  <2>2. Advanced[i] = IF i = Len(stack) THEN g ELSE stack[i]
    BY <1>2, <2>1, ExceptSeq
  <2> QED BY <1>6, <2>1, <2>2
<1>9. ASSUME NEW m, Unwinds(stack, Here, m) PROVE Unwinds(Advanced, x, m)
  BY <1>2, <1>3, <1>6, <1>9, UnwindTop
<1> QED BY <1>6, <1>7, <1>8, <1>9 DEF x, c

LEMMA PoppedFit ==
    ASSUME Nesting, MeaningInv, pc = "script"
    PROVE  /\ Front(stack) \in Seq(Frame) /\ Len(Front(stack)) <= ScriptDepthMax
           /\ \A i \in 1 .. Len(Front(stack)) : FrameFits(Front(stack)[i])
<1>1. stack \in Seq(Frame) /\ stack # <<>> /\ Len(stack) \in Nat /\ Len(stack) <= ScriptDepthMax
  BY LenProperties DEF Nesting
<1>2. /\ Front(stack) \in Seq(Frame) /\ Len(Front(stack)) = Len(stack) - 1
      /\ \A i \in 1 .. Len(stack) - 1 : Front(stack)[i] = stack[i]
  BY <1>1, FrontType
<1>3. \A i \in 1 .. Len(Front(stack)) : FrameFits(Front(stack)[i])
  <2> TAKE i \in 1 .. Len(Front(stack))
  <2>1. i \in 1 .. Len(stack) - 1 /\ i \in 1 .. Len(stack)
    BY <1>1, <1>2
  <2> QED BY <1>2, <2>1 DEF MeaningInv
<1> QED BY <1>1, <1>2, <1>3, ProgramsAssumption

\* The end of a script.
LEMMA EndMeans ==
    ASSUME TypeOK, Nesting, MeaningInv, pc = "script", AtEnd
    PROVE  LET x == IF Top.thenExit THEN [Here EXCEPT !.exited = TRUE] ELSE Here
           IN  /\ x \in States
               /\ Front(stack) \in Seq(Frame) /\ Len(Front(stack)) <= ScriptDepthMax
               /\ \A i \in 1 .. Len(Front(stack)) : FrameFits(Front(stack)[i])
               /\ \A m : Unwinds(stack, Here, m) => Unwinds(Front(stack), x, m)
<1> DEFINE x == IF Top.thenExit THEN [Here EXCEPT !.exited = TRUE] ELSE Here
<1>1. /\ stack \in Seq(Frame) /\ Len(stack) \in 1 .. ScriptDepthMax /\ Top = stack[Len(stack)]
  BY AdvancedIs
<1>2. Len(stack) \in 1 .. Len(stack) /\ stack # <<>> /\ Len(stack) \in Nat
  <2>1. Len(stack) \in Nat /\ Len(stack) >= 1
    BY <1>1
  <2> QED BY <1>1, <2>1, EmptySeq
<1>3. FrameFits(Top)
  BY <1>1, <1>2 DEF MeaningInv
<1>4. Here \in States
  BY HereType DEF MeaningInv
<1>5. x \in States
  BY <1>4, StateFields
<1>6. FrameDone(Top, Len(stack), Here) = x
  <2>1. Top.next > Len(Files[Top.file].lines)
    BY DEF AtEnd
  <2> HIDE DEF x
  <2> QED BY <1>1, <1>3, <1>4, <2>1, FrameDoneIs DEF x
<1> HIDE DEF x
<1>7. ASSUME NEW m, Unwinds(stack, Here, m) PROVE Unwinds(Front(stack), x, m)
  BY <1>1, <1>2, <1>6, <1>7, UnwindPop
<1> QED BY <1>5, <1>7, PoppedFit DEF x

\* A command entered at the prompt, or the argument of the shell.
LEMMA BeginMeans ==
    ASSUME TypeOK, Nesting, MeaningInv, pc \in {"start", "prompt"}, NEW c,
           Begins(<<>>, Meaning(c, Here)), begun' = {[command |-> c, env |-> env]}
    PROVE  MeaningInv'
<1>1. out = <<>> /\ UNCHANGED <<env, out>> /\ Here \in States
  BY HereType DEF MeaningInv, Nesting, Begins
<1>2. PICK f : /\ FrameFits(f) /\ stack' = Append(<<>>, f)
               /\ Meaning(c, Here) = FrameDone(f, Len(<<>>) + 1, Here)
               /\ Len(<<>>) + 1 <= ScriptDepthMax
  BY DEF Begins
<1>3. <<>> \in Seq(Frame) /\ Len(<<>>) = 0 /\ f \in Frame
  BY <1>2, EmptySeq DEF FrameFits
<1>4. stack' \in Seq(Frame) /\ stack' # <<>> /\ \A i \in 1 .. Len(stack') : FrameFits(stack'[i])
  <2>1. \A i \in 1 .. Len(<<>>) : FrameFits(<<>>[i])
    BY <1>3
  <2> QED BY <1>2, <1>3, <2>1, PushedFit
<1>5. Unwinds(stack', Here, Meaning(c, Here))
  <2>1. FrameDone(f, 1, Here) \in States
    <3>1. 1 \in 1 .. ScriptDepthMax
      BY ProgramsAssumption
    <3> QED BY <1>1, <1>2, <3>1, FrameDoneIs
  <2>2. Unwinds(<<>>, Meaning(c, Here), Meaning(c, Here))
    BY <1>2, <1>3, <2>1, UnwindNothing
  <2> QED BY <1>1, <1>2, <1>3, <2>2, UnwindPush
<1>6. Here' = Here
  BY <1>1 DEF Here
<1>7. \A b \in begun' : MeaningOf(b) = Meaning(c, Here)
  <2> TAKE b \in begun'
  <2>1. b.command = c /\ b.env = env
    OBVIOUS
  <2>2. State(b.env, <<>>, FALSE) = Here
    BY <1>1, <2>1 DEF Here
  <2> QED BY <2>1, <2>2 DEF MeaningOf
<1> QED BY <1>1, <1>4, <1>5, <1>6, <1>7 DEF MeaningInv

LEMMA InitMeans == ProgInit => MeaningInv
BY EmptySeq DEF ProgInit, MeaningInv

\* What holds when no script is being read.
LEMMA NothingMeant ==
    ASSUME stack' = <<>>, out' \in Seq(Values \cup {NotSet}),
           pc' \notin {"exited", "replaced"} => out' = <<>>
    PROVE  MeaningInv'
BY DEF MeaningInv

\* The first command: a script was begun, or no script is being read.
LEMMA FirstMeans ==
    ASSUME TypeOK, Nesting, MeaningInv, pc \in {"start", "prompt"}, NEW c,
           LET x == Meaning(c, Here)
           IN  Goes(<<>>, x) \/ Exits(x) \/ Begins(<<>>, x) \/ Leaves,
           begun' = IF stack' = <<>> THEN {} ELSE {[command |-> c, env |-> env]}
    PROVE  MeaningInv'
<1>1. out = <<>> /\ out \in Seq(Values \cup {NotSet})
  BY DEF MeaningInv, Nesting
<1>2. CASE Goes(<<>>, Meaning(c, Here)) \/ Exits(Meaning(c, Here)) \/ Leaves
  <2>1. stack' = <<>> /\ out' = out
    BY <1>2 DEF Goes, Exits, Exit, Leaves
  <2> QED BY <1>1, <2>1, NothingMeant
<1>3. CASE Begins(<<>>, Meaning(c, Here))
  <2>1. PICK f : FrameFits(f) /\ stack' = Append(<<>>, f)
    BY <1>3 DEF Begins
  <2>2. <<>> \in Seq(Frame) /\ \A i \in 1 .. Len(<<>>) : FrameFits(<<>>[i])
    BY EmptySeq
  <2>3. stack' # <<>>
    BY <2>1, <2>2, PushedFit
  <2> QED BY <1>3, <2>3, BeginMeans
<1> QED BY <1>2, <1>3

LEMMA NextMeans ==
    TypeOK /\ Nesting /\ MeaningInv /\ [ProgNext]_progVars => MeaningInv'
<1> SUFFICES ASSUME TypeOK, Nesting, MeaningInv, [ProgNext]_progVars PROVE MeaningInv'
  OBVIOUS
<1>0. /\ stack \in Seq(Frame) /\ out \in Seq(Values \cup {NotSet}) /\ Here \in States
      /\ <<>> \in Seq(Values \cup {NotSet})
  BY HereType, EmptySeq DEF Nesting, MeaningInv
<1>1. pc \in {"start", "home", "prompt"} => stack = <<>> /\ out = <<>> /\ Frames(<<>>)
  BY EmptySeq DEF Nesting, MeaningInv, Frames
<1>2. CASE StartHome \/ StartPath
  <2>1. stack' = <<>> /\ out' = <<>>
    BY <1>1, <1>2 DEF StartHome, StartPath
  <2> QED BY <1>0, <2>1, NothingMeant
<1>3. ScriptDepthMax - Len(<<>>) = ScriptDepthMax
  <2>1. Len(<<>>) = 0
    BY EmptySeq
  <2> QED BY <2>1, ProgramsAssumption
<1>4. ASSUME NEW p \in DOMAIN Files, StartScript(p) PROVE MeaningInv'
  <2> DEFINE x == Meaning(Main(p), Here)
  <2>1. pc = "start" /\ DoScript(p, TRUE, <<>>) /\ begun' = {[command |-> Main(p), env |-> env]}
    BY <1>4 DEF StartScript
  <2>2. x = [Script(p, Here, Scripts[ScriptDepthMax]) EXCEPT !.exited = TRUE]
    BY DEF Meaning, Effect, Main
  <2> HIDE DEF x
  <2>3. Goes(<<>>, x) \/ Exits(x) \/ Begins(<<>>, x)
    BY <1>0, <1>1, <1>3, <2>1, <2>2, DoScriptMeans
  <2>4. CASE Begins(<<>>, x)
    BY <2>1, <2>4, BeginMeans DEF x
  <2>5. CASE Goes(<<>>, x) \/ Exits(x)
    <3>1. stack' = <<>> /\ out' = out
      BY <2>5 DEF Goes, Exits, Exit
    <3> QED BY <1>0, <1>1, <2>1, <3>1, NothingMeant
  <2> QED BY <2>3, <2>4, <2>5
<1>5. ASSUME NEW c \in Commands, Enter(c) PROVE MeaningInv'
  <2> DEFINE x == Meaning(c, Here)
  <2>1. /\ pc = "prompt" /\ Dispatch(c, <<>>) /\ c \in AllCommands
        /\ begun' = IF stack' = <<>> THEN {} ELSE {[command |-> c, env |-> env]}
    BY <1>5 DEF Enter, AllCommands
  <2>2. x = Effect(c, Here, Scripts[ScriptDepthMax - Len(<<>>)])
    BY <1>3 DEF Meaning
  <2> HIDE DEF x
  <2>3. Goes(<<>>, x) \/ Exits(x) \/ Begins(<<>>, x) \/ Leaves
    BY <1>0, <1>1, <2>1, <2>2, DispatchMeans
  <2> QED BY <2>1, <2>3, FirstMeans DEF x
<1>6. CASE NextLine
  <2> DEFINE c == Files[Top.file].lines[Top.next]
             x == Effect(c, Here, Scripts[ScriptDepthMax - Len(stack)])
  <2>1. /\ x \in States
        /\ Goes(Advanced, x) \/ Exits(x) \/ Begins(Advanced, x) \/ Leaves
        /\ \A i \in 1 .. Len(Advanced) : FrameFits(Advanced[i])
        /\ \A m : Unwinds(stack, Here, m) => Unwinds(Advanced, x, m)
    BY <1>6, LineMeans
  <2> HIDE DEF x
  <2>2. pc = "script" /\ stack # <<>> /\ Forget
    BY <1>6 DEF NextLine, Nesting
  <2>3. Advanced \in Seq(Frame) /\ Advanced # <<>>
    BY <2>2, AdvancedIs DEF Frames
  <2>4. ASSUME stack' # <<>>
        PROVE  /\ ~failed' => ~failed
               /\ begun' = begun
               /\ ~failed' => \A b \in begun' : Unwinds(Advanced, x, MeaningOf(b))
    <3>1. (~failed' => ~failed) /\ begun' = begun
      BY <2>2, <2>4 DEF Forget
    <3> QED BY <2>1, <2>2, <3>1 DEF MeaningInv
  <2>5. CASE Goes(Advanced, x)
    <3>1. stack' = Advanced /\ x = Here'
      BY <2>3, <2>5 DEF Goes, Here
    <3>2. out' \in Seq(Values \cup {NotSet})
      <4>1. x.out = out'
        BY <3>1 DEF Here, State
      <4> QED BY <2>1, <4>1, StateFields
    <3> QED BY <2>1, <2>3, <2>4, <3>1, <3>2 DEF MeaningInv
  <2>6. CASE Exits(x) \/ Leaves
    <3>1. stack' = <<>> /\ out' = out /\ pc' \in {"exited", "replaced"}
      BY <2>6 DEF Exits, Exit, Leaves
    <3> QED BY <1>0, <3>1, NothingMeant
  <2>7. CASE Begins(Advanced, x)
    <3>1. PICK f : /\ FrameFits(f) /\ stack' = Append(Advanced, f)
                   /\ UNCHANGED <<env, out>> /\ x = FrameDone(f, Len(Advanced) + 1, Here)
      BY <2>7 DEF Begins
    <3>2. /\ stack' # <<>>
          /\ \A i \in 1 .. Len(stack') : FrameFits(stack'[i])
      BY <2>1, <2>3, <3>1, PushedFit
    <3>3. Here' = Here
      BY <3>1 DEF Here
    <3>4. \A m : Unwinds(Advanced, x, m) => Unwinds(stack', Here, m)
      <4>1. f \in Frame
        BY <3>1 DEF FrameFits
      <4> QED BY <1>0, <2>3, <3>1, <4>1, UnwindPush
    <3> QED BY <1>0, <2>4, <3>1, <3>2, <3>3, <3>4 DEF MeaningInv
  <2> QED BY <2>1, <2>5, <2>6, <2>7
<1>7. CASE EndOfScript \/ ReadFails
  <2>1. pc = "script" /\ PopScript /\ stack # <<>> /\ UNCHANGED env
    BY <1>7 DEF EndOfScript, ReadFails, Nesting, PopScript
  <2>2. out' = (IF stack' = <<>> THEN <<>> ELSE out) /\ out' \in Seq(Values \cup {NotSet})
    BY <1>0, <2>1 DEF PopScript
  <2>3. CASE stack' = <<>>
    BY <2>2, <2>3, NothingMeant
  <2>4. CASE stack' # <<>>
    <3>1. ~Top.thenExit /\ stack' = Front(stack) /\ begun' = begun /\ out' = out
      BY <2>1, <2>4 DEF PopScript
    <3>2. \A i \in 1 .. Len(stack') : FrameFits(stack'[i])
      BY <2>1, <3>1, PoppedFit
    <3>3. Here' = Here
      BY <2>1, <3>1 DEF Here
    <3>4. ASSUME ~failed', NEW b \in begun' PROVE Unwinds(stack', Here, MeaningOf(b))
      <4>1. EndOfScript /\ ~failed
        BY <1>7, <2>4, <3>4 DEF EndOfScript, ReadFails
      <4>2. Unwinds(stack, Here, MeaningOf(b))
        BY <2>1, <3>1, <4>1 DEF MeaningInv
      <4>3. AtEnd
        BY <4>1 DEF EndOfScript
      <4> QED BY <2>1, <3>1, <4>2, <4>3, EndMeans
    <3> QED BY <2>2, <2>4, <3>1, <3>2, <3>3, <3>4 DEF MeaningInv
  <2> QED BY <2>3, <2>4
<1>8. CASE RunReturns
  <2>1. pc = "wait" /\ UNCHANGED <<stack, env, out, begun, failed>>
    BY <1>8 DEF RunReturns, Continue
  <2>2. Here' = Here
    BY <2>1 DEF Here
  <2> QED BY <2>1, <2>2 DEF MeaningInv
<1>9. CASE UNCHANGED progVars
  BY <1>9 DEF progVars, MeaningInv, Here
<1> QED BY <1>2, <1>4, <1>5, <1>6, <1>7, <1>8, <1>9 DEF ProgNext, Start, User

\* A step that ends the script outside all others has done what it means.
LEMMA StepsMean ==
    ASSUME TypeOK, Nesting, MeaningInv, NEW b \in begun,
           stack' = <<>>, pc' \in {"prompt", "exited"}, ~failed, NextLine \/ EndOfScript
    PROVE  LET m == MeaningOf(b)
           IN  out = m.out /\ env' = m.vars /\ (pc' = "exited" <=> m.exited)
<1>1. pc = "script" /\ stack # <<>> /\ Unwinds(stack, Here, MeaningOf(b))
  BY DEF NextLine, EndOfScript, Nesting, MeaningInv
<1>2. Here.out = out /\ Here.vars = env /\ Here.exited = FALSE /\ Here \in States
  BY HereType DEF Here, State, MeaningInv
<1>3. LET x == [Here EXCEPT !.exited = TRUE]
      IN  x.out = out /\ x.vars = env /\ x.exited = TRUE
  BY <1>2 DEF States
<1>4. CASE NextLine
  <2> DEFINE c == Files[Top.file].lines[Top.next]
             x == Effect(c, Here, Scripts[ScriptDepthMax - Len(stack)])
  <2>1. /\ x \in States
        /\ Goes(Advanced, x) \/ Exits(x) \/ Begins(Advanced, x) \/ Leaves
        /\ \A i \in 1 .. Len(Advanced) : FrameFits(Advanced[i])
        /\ \A m : Unwinds(stack, Here, m) => Unwinds(Advanced, x, m)
    BY <1>4, LineMeans
  <2> HIDE DEF x
  <2>2. Advanced \in Seq(Frame) /\ Advanced # <<>> /\ Len(Advanced) <= ScriptDepthMax
    BY <1>1, AdvancedIs, ProgramsAssumption DEF Frames
  <2>3. Exits(x)
    <3>1. ~Goes(Advanced, x)
      BY <2>2 DEF Goes
    <3>2. ~Leaves
      BY DEF Leaves
    <3>3. ~Begins(Advanced, x)
      <4>1. \A f : FrameFits(f) => Append(Advanced, f) # <<>>
        BY <2>1, <2>2, PushedFit
      <4> QED BY <4>1 DEF Begins
    <3> QED BY <2>1, <3>1, <3>2, <3>3
  <2>4. x = [Here EXCEPT !.exited = TRUE] /\ pc' = "exited" /\ UNCHANGED env
    BY <2>3 DEF Exits, Exit
  <2>5. MeaningOf(b) = x
    <3>1. x.exited
      BY <1>3, <2>4
    <3>2. Unwinds(Advanced, x, MeaningOf(b))
      BY <1>1, <2>1
    <3> QED BY <2>1, <2>2, <3>1, <3>2, UnwindExited
  <2> QED BY <1>3, <2>4, <2>5
<1>5. CASE EndOfScript
  <2> DEFINE x == IF Top.thenExit THEN [Here EXCEPT !.exited = TRUE] ELSE Here
  <2>1. AtEnd /\ PopScript /\ UNCHANGED env
    BY <1>5 DEF EndOfScript, PopScript
  <2>2. /\ x \in States
        /\ Front(stack) \in Seq(Frame) /\ Len(Front(stack)) <= ScriptDepthMax
        /\ \A i \in 1 .. Len(Front(stack)) : FrameFits(Front(stack)[i])
        /\ \A m : Unwinds(stack, Here, m) => Unwinds(Front(stack), x, m)
    BY <1>1, <2>1, EndMeans
  <2>3. Front(stack) = <<>> \/ x.exited
    BY <1>3, <2>1 DEF PopScript
  <2>4. MeaningOf(b) = x
    <3> HIDE DEF x
    <3> QED BY <1>1, <2>2, <2>3, UnwindExited
  <2>5. pc' = "exited" <=> Top.thenExit
    BY <2>1 DEF PopScript
  <2>6. x.out = out /\ x.vars = env /\ (x.exited <=> Top.thenExit)
    BY <1>2, <1>3
  <2> HIDE DEF x
  <2> QED BY <2>1, <2>4, <2>5, <2>6
<1> QED BY <1>4, <1>5

\* A script, however its lines source others and itself and however deep,
\* does what its lines mean, one after the other (do_script_inner, main).
THEOREM ScriptsDoWhatTheyMean == ProgSpec => ScriptsMeanTheirLines
<1>1. TypeOK /\ Nesting /\ MeaningInv =>
        [\A b \in begun :
            (stack' = <<>> /\ pc' \in {"prompt", "exited"} /\ ~failed /\ (NextLine \/ EndOfScript)) =>
                LET m == Meaning(b.command, State(b.env, <<>>, FALSE))
                IN  out = m.out /\ env' = m.vars /\ (pc' = "exited" <=> m.exited)]_progVars
  BY StepsMean DEF MeaningOf
<1>2. Spec => []TypeOK
  BY TypeCorrect
<1> QED BY <1>1, <1>2, ProgramsUseEnvironment, InitNests, NextNests, InitMeans, NextMeans, PTL
        DEF ProgSpec, ScriptsMeanTheirLines

-----------------------------------------------------------------------------
(* Scripts come to an end                                                  *)

\* What is left to do in the script at a level of nesting: its lines, and
\* to close it; nothing if there is no script.
LeftAt(i) ==
    IF i \in 1 .. Len(stack) THEN Len(Files[stack[i].file].lines) + 2 - stack[i].next ELSE 0

\* Less is left at some level, and the same at all levels outside.
LessLeft ==
    \E i \in 1 .. ScriptDepthMax :
        /\ LeftAt(i)' < LeftAt(i)
        /\ \A j \in 1 .. i - 1 : LeftAt(j)' = LeftAt(j)

LEMMA LeftOfFrame ==
    ASSUME NEW f, FrameFits(f)
    PROVE  /\ Len(Files[f.file].lines) + 2 - f.next \in Nat \ {0}
           /\ LET g == [f EXCEPT !.next = @ + 1]
              IN  Len(Files[g.file].lines) + 2 - g.next < Len(Files[f.file].lines) + 2 - f.next
<1>1. f.file \in DOMAIN Files /\ f.next \in Nat \ {0} /\ f.next <= Len(Files[f.file].lines) + 1
  BY DEF FrameFits, Frame
<1>2. Len(Files[f.file].lines) \in Nat
  BY <1>1, CommandsAssumption, LenProperties
<1>3. [f EXCEPT !.next = @ + 1].file = f.file /\ [f EXCEPT !.next = @ + 1].next = f.next + 1
  BY DEF FrameFits, Frame
<1> QED BY <1>1, <1>2, <1>3, SMTT(30)

\* The innermost script is closed, or all are.
LEMMA LessAfterPop ==
    ASSUME Nesting, MeaningInv, pc = "script", stack' = <<>> \/ stack' = Front(stack)
    PROVE  LessLeft
<1>0. PICK n \in 1 .. ScriptDepthMax : n = Len(stack)
  BY AdvancedIs
<1>1. stack \in Seq(Frame) /\ n \in 1 .. ScriptDepthMax
  BY AdvancedIs
<1>2. n \in Nat /\ 1 \in 1 .. ScriptDepthMax /\ 1 \in 1 .. n /\ n \in 1 .. n
  BY <1>1, ProgramsAssumption
<1>3. ASSUME NEW i \in 1 .. n PROVE LeftAt(i) \in Nat \ {0}
  BY <1>0, <1>3, LeftOfFrame DEF MeaningInv, LeftAt
<1>4. CASE stack' = <<>>
  <2>1. LeftAt(1)' = 0
    BY <1>4, EmptySeq DEF LeftAt
  <2>2. LeftAt(1)' < LeftAt(1)
    BY <1>2, <1>3, <2>1
  <2>3. 1 .. 1 - 1 = {}
    OBVIOUS
  <2> QED BY <1>2, <2>2, <2>3 DEF LessLeft
<1>5. CASE stack' = Front(stack)
  <2>1. /\ Len(stack') = n - 1
        /\ \A j \in 1 .. n - 1 : stack'[j] = stack[j]
    BY <1>0, <1>1, <1>2, <1>5, FrontType, EmptySeq
  <2>2. LeftAt(n)' = 0
    <3>1. n \notin 1 .. n - 1
      BY <1>2
    <3> QED BY <2>1, <3>1 DEF LeftAt
  <2>3. LeftAt(n)' < LeftAt(n)
    BY <1>2, <1>3, <2>2
  <2>4. ASSUME NEW j \in 1 .. n - 1 PROVE LeftAt(j)' = LeftAt(j)
    <3>1. j \in 1 .. n
      BY <1>2
    <3> QED BY <1>0, <2>1, <3>1 DEF LeftAt
  <2> QED BY <1>1, <2>3, <2>4 DEF LessLeft
<1> QED BY <1>4, <1>5

\* The innermost script has gone on by a line, which may have begun another.
LEMMA LessAfterLine ==
    ASSUME Nesting, MeaningInv, pc = "script",
           stack' = Advanced \/ \E f : stack' = Append(Advanced, f)
    PROVE  LessLeft
<1> DEFINE g == [Top EXCEPT !.next = @ + 1]
<1>0. PICK n \in 1 .. ScriptDepthMax : n = Len(stack)
  BY AdvancedIs
<1>1. /\ stack \in Seq(Frame) /\ n \in 1 .. ScriptDepthMax /\ Top = stack[n]
      /\ g \in Frame /\ Advanced = [stack EXCEPT ![n] = g]
      /\ Frames(Advanced) /\ Len(Advanced) = n
  BY <1>0, AdvancedIs
<1>2. n \in Nat /\ n \in 1 .. n /\ FrameFits(Top)
  <2>1. n \in Nat /\ n \in 1 .. n
    BY <1>1
  <2> QED BY <1>0, <1>1, <2>1 DEF MeaningInv
<1>3. Advanced[n] = g /\ \A j \in 1 .. n - 1 : Advanced[j] = stack[j]
  <2>1. DOMAIN stack = 1 .. n
    BY <1>0, <1>1, LenProperties
  <2> HIDE DEF g
  <2>2. \A j \in 1 .. n - 1 : j \in 1 .. n /\ j # n
    BY <1>2
  <2> QED BY <1>1, <1>2, <2>1, <2>2
<1>4. Advanced \in Seq(Frame)
  BY <1>1 DEF Frames
<1>5. \A j \in 1 .. n : j \in 1 .. Len(stack') /\ stack'[j] = Advanced[j]
  <2>1. CASE stack' = Advanced
    BY <1>1, <2>1
  <2>2. ASSUME NEW f, stack' = Append(Advanced, f)
        PROVE  \A j \in 1 .. n : j \in 1 .. Len(stack') /\ stack'[j] = Advanced[j]
    <3> DEFINE S == Frame \cup {f}
    <3>1. Advanced \in Seq(S) /\ f \in S
      <4>1. \A j \in 1 .. Len(Advanced) : Advanced[j] \in S
        BY <1>4, ElementOfSeq
      <4> HIDE DEF S
      <4> QED BY <1>4, <4>1 DEF S
    <3> HIDE DEF S
    <3>2. /\ Len(stack') = n + 1
          /\ \A j \in 1 .. n : stack'[j] = Advanced[j]
      BY <1>1, <2>2, <3>1, AppendProperties
    <3> QED BY <1>2, <3>2
  <2> QED BY <2>1, <2>2
<1>6. LeftAt(n)' < LeftAt(n)
  <2>1. LeftAt(n)' = Len(Files[g.file].lines) + 2 - g.next
    <3>1. n \in 1 .. Len(stack)' /\ stack'[n] = g
      BY <1>2, <1>3, <1>5
    <3> HIDE DEF g
    <3> QED BY <3>1 DEF LeftAt
  <2>2. LeftAt(n) = Len(Files[Top.file].lines) + 2 - Top.next
    BY <1>0, <1>1, <1>2 DEF LeftAt
  <2> QED BY <1>2, <2>1, <2>2, LeftOfFrame
<1>7. ASSUME NEW j \in 1 .. n - 1 PROVE LeftAt(j)' = LeftAt(j)
  <2> HIDE DEF g
  <2>1. j \in 1 .. n
    BY <1>2
  <2> QED BY <1>0, <1>3, <1>5, <2>1 DEF LeftAt
<1> QED BY <1>1, <1>6, <1>7 DEF LessLeft

LEMMA ReadingLeavesLess ==
    ASSUME TypeOK, Nesting, MeaningInv, NextLine \/ EndOfScript \/ ReadFails
    PROVE  LessLeft
<1>1. pc = "script"
  BY DEF NextLine, EndOfScript, ReadFails
<1>2. CASE NextLine
  <2>1. PICK x : Goes(Advanced, x) \/ Exits(x) \/ Begins(Advanced, x) \/ Leaves
    BY <1>2, LineMeans
  <2>2. stack' = <<>> \/ stack' = Advanced \/ \E f : stack' = Append(Advanced, f)
    BY <2>1 DEF Goes, Exits, Exit, Begins, Leaves
  <2> QED BY <1>1, <2>2, LessAfterPop, LessAfterLine
<1>3. CASE EndOfScript \/ ReadFails
  <2>1. stack' = <<>> \/ stack' = Front(stack)
    BY <1>3 DEF EndOfScript, ReadFails, PopScript
  <2> QED BY <1>1, <2>1, LessAfterPop
<1> QED BY <1>2, <1>3

\* Scripts that source one another, or themselves, cannot go on for ever:
\* every line, every end and every failed read leaves less to do at some
\* level of nesting and as much as before at the levels outside, of which
\* there are SCRIPT_DEPTH_MAX (do_script_inner).
THEOREM ReadingIsBounded ==
    ProgSpec => /\ [](\A i \in 1 .. ScriptDepthMax : LeftAt(i) \in Nat)
                /\ [][NextLine \/ EndOfScript \/ ReadFails => LessLeft]_progVars
<1>1. MeaningInv => \A i \in 1 .. ScriptDepthMax : LeftAt(i) \in Nat
  BY LeftOfFrame DEF MeaningInv, LeftAt
<1>2. TypeOK /\ Nesting /\ MeaningInv =>
        [NextLine \/ EndOfScript \/ ReadFails => LessLeft]_progVars
  BY ReadingLeavesLess
<1>3. Spec => []TypeOK
  BY TypeCorrect
<1> QED BY <1>1, <1>2, <1>3, ProgramsUseEnvironment, InitNests, NextNests, InitMeans, NextMeans, PTL
        DEF ProgSpec
=============================================================================
