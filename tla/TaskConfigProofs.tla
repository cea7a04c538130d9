-------------------------- MODULE TaskConfigProofs --------------------------
(***************************************************************************)
(* What the list of environment entries means, for every list.             *)
(***************************************************************************)
EXTENDS TaskConfig, TLAPS, WellFoundedInduction, SequenceTheorems

\* A set of naturals that is not empty has a least element.
LEMMA Least ==
    ASSUME NEW S, S \subseteq Nat, S # {}
    PROVE  \E i \in S : \A j \in S : i <= j
  <1>1. PICK i \in S : \A j \in S : ~(<<j, i>> \in OpToRel(<, Nat))
    BY WFMin, NatLessThanWellFounded, Zenon
  <1>2. ASSUME NEW j \in S, j < i PROVE <<j, i>> \in OpToRel(<, Nat)
    <2>1. <<j, i>> \in Nat \X Nat /\ <<j, i>>[1] < <<j, i>>[2]
      BY <1>2
    <2> QED
      BY <2>1, Zenon DEF OpToRel
  <1>3. \A j \in S : ~(j < i)
    BY <1>1, <1>2
  <1> QED
    BY <1>3

\* A set of positions that is not empty has a first and a last one.
LEMMA Extremes ==
    ASSUME NEW n \in Nat, NEW S, S \subseteq 1 .. n, S # {}
    PROVE  /\ Min(S) \in S /\ \A i \in S : Min(S) <= i
           /\ Max(S) \in S /\ \A i \in S : i <= Max(S)
  <1>0. S \subseteq Nat
    OBVIOUS
  <1>1. \E i \in S : \A j \in S : i <= j
    BY <1>0, Least
  <1>2. \E i \in S : \A j \in S : i >= j
    <2> DEFINE T == {m \in Nat : n - m \in S}
    <2>1. \A j \in S : j \in Nat /\ n - j \in Nat /\ n - (n - j) = j
      OBVIOUS
    <2>2. \A j \in S : n - j \in T
      BY <2>1
    <2>3. PICK m \in T : \A j \in T : m <= j
      BY <2>2, Least
    <2>4. \A j \in S : n - m >= j
      BY <2>1, <2>2, <2>3
    <2> QED
      BY <2>3, <2>4
  <1> QED
    BY <1>1, <1>2 DEF Min, Max

-----------------------------------------------------------------------------

\* What an entry of a list holds.
LEMMA EntryFields ==
    ASSUME NEW env \in Seq(Entries), NEW i \in DOMAIN env
    PROVE  env[i].key \in Keys /\ env[i].val \in Values /\ Var[env[i].key] \in Vars
  <1>1. env[i] \in Entries
    OBVIOUS
  <1>2. env[i].key \in Keys /\ env[i].val \in Values
    BY <1>1 DEF Entries
  <1> QED
    BY <1>2 DEF Vars

\* with_env changes or adds the key's entry and no other, and never makes a
\* second one: what with_env of task.rs does to any list it has made.
THEOREM WithEnvUpserts ==
    ASSUME NEW env \in Seq(Entries), NEW k \in Keys, NEW v \in Values
    PROVE  LET new == with_env(env, k, v) IN
           /\ new \in Seq(Entries)
           /\ OneEntryEach(env) => OneEntryEach(new)
           /\ \E i \in DOMAIN new : new[i] = Entry(k, v)
           /\ \A i \in DOMAIN new : new[i] = Entry(k, v) \/ (i \in DOMAIN env /\ new[i] = env[i])
           /\ \A i \in DOMAIN env : i \in DOMAIN new /\ new[i].key = env[i].key
  <1> DEFINE e == Entry(k, v)
  <1>1. e \in Entries /\ e.key = k
    BY DEF Entry, Entries
  <1>2. DOMAIN env = 1 .. Len(env) /\ Len(env) \in Nat
    OBVIOUS
  <1>3. CASE Hits(env, k) = {}
    <2>1. \A i \in DOMAIN env : env[i].key # k
      BY <1>3 DEF Hits
    <2>2. with_env(env, k, v) = Append(env, e)
      BY <1>3 DEF with_env
    <2> HIDE DEF e
    <2>3. /\ Append(env, e) \in Seq(Entries) /\ DOMAIN Append(env, e) = 1 .. Len(env) + 1
          /\ Append(env, e)[Len(env) + 1] = e
          /\ \A i \in 1 .. Len(env) : Append(env, e)[i] = env[i]
      BY <1>1
    <2>4. OneEntryEach(env) => OneEntryEach(Append(env, e))
      BY <1>1, <1>2, <2>1, <2>3 DEF OneEntryEach
    <2> QED
      BY <1>1, <1>2, <2>2, <2>3, <2>4 DEF e
  <1>4. CASE Hits(env, k) # {}
    <2> DEFINE m == Min(Hits(env, k))
               new == [env EXCEPT ![m] = e]
    <2>1. m \in DOMAIN env /\ env[m].key = k
      <3>1. Hits(env, k) \subseteq 1 .. Len(env)
        BY <1>2 DEF Hits
      <3>2. m \in Hits(env, k)
        BY <1>2, <1>4, <3>1, Extremes
      <3> QED
        BY <3>2 DEF Hits
    <2>2. with_env(env, k, v) = new
      BY <1>4 DEF with_env
    <2> HIDE DEF e, m
    <2>3. /\ new \in Seq(Entries) /\ DOMAIN new = DOMAIN env
          /\ new[m] = e /\ \A i \in DOMAIN env : i # m => new[i] = env[i]
      BY <1>1, <1>2, <2>1
    <2> HIDE DEF new
    <2>4. \A i \in DOMAIN new : new[i].key = env[i].key
      BY <1>1, <2>1, <2>3
    <2>5. OneEntryEach(env) => OneEntryEach(new)
      BY <2>3, <2>4 DEF OneEntryEach
    <2> QED
      BY <2>1, <2>2, <2>3, <2>4, <2>5 DEF e
  <1> QED
    BY <1>3, <1>4

\* The entry that counts for a variable is one that names it.
LEMMA LastNaming ==
    ASSUME NEW env \in Seq(Entries), NEW x, Naming(env, x) # {}
    PROVE  Max(Naming(env, x)) \in Naming(env, x)
  <1>1. Naming(env, x) \subseteq 1 .. Len(env) /\ Len(env) \in Nat
    BY DEF Naming
  <1> QED
    BY <1>1, Extremes

\* The child's environment gives every variable a value, or none.
LEMMA ChildEnvTyped ==
    ASSUME NEW env \in Seq(Entries), NEW clear
    PROVE  ChildEnv(env, clear) \in [Vars -> Values \union {None, Inherited}]
  <1>1. ASSUME NEW x \in Vars, Naming(env, x) # {}
        PROVE  env[Max(Naming(env, x))].val \in Values
    <2> DEFINE m == Max(Naming(env, x))
    <2>1. m \in DOMAIN env
      BY <1>1, LastNaming DEF Naming
    <2> HIDE DEF m
    <2>2. env[m].val \in Values
      BY <2>1, EntryFields
    <2> QED
      BY <2>2 DEF m
  <1>2. \A x \in Vars : ChildEnv(env, clear)[x] \in Values \union {None, Inherited}
    BY <1>1 DEF ChildEnv
  <1> QED
    BY <1>2 DEF ChildEnv
=============================================================================
