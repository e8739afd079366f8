--------------------------- MODULE Platform_proofs ----------------------------
(***************************************************************************)
(* The platform.  Accounts, the caches of their keys and of their credit,  *)
(* the cache of completions, what requests are billed and what the prices  *)
(* are, for any number of identities, orgs, keys, API threads, gateway     *)
(* processes, requests that overlap, screens and sizes of the providers;   *)
(* then its stateful sessions and their usage queue.                       *)
(***************************************************************************)
EXTENDS Gateway, PlatformSessions, FiniteSetTheorems, WellFoundedInduction, TLAPS

-----------------------------------------------------------------------------
(* Sums over finite sets *)

(* A sum counts units: x is worth f[x] of them. *)
Worth(f, x) == {x} \X (1 .. f[x])
Units(f, S) == UNION {Worth(f, x) : x \in S}

(* What the code sums is natural and there are finitely many of it *)
Summable(f, S) == IsFiniteSet(S) /\ \A x \in S : f[x] \in Nat

LEMMA WorthCounts ==
    ASSUME NEW f, NEW x, f[x] \in Nat
    PROVE  IsFiniteSet(Worth(f, x)) /\ Cardinality(Worth(f, x)) = f[x]
<1> DEFINE n == f[x]
           b == [i \in 1 .. n |-> <<x, i>>]
<1>1. IsFiniteSet(1 .. n) /\ Cardinality(1 .. n) = n
  BY FS_Interval, SMTT(30)
<1>2. b \in Bijection(1 .. n, {x} \X (1 .. n))
  <2>1. b \in [1 .. n -> {x} \X (1 .. n)]
    OBVIOUS
  <2>2. \A i, j \in 1 .. n : b[i] = b[j] => i = j
    OBVIOUS
  <2>3. \A t \in {x} \X (1 .. n) : \E i \in 1 .. n : b[i] = t
    OBVIOUS
  <2> HIDE DEF b
  <2> QED BY <2>1, <2>2, <2>3 DEF Bijection, Injection, Surjection, IsInjective
<1>3. ExistsBijection(1 .. n, {x} \X (1 .. n))
  BY <1>2 DEF ExistsBijection
<1> QED BY <1>1, <1>3, FS_Bijection DEF Worth

LEMMA InUnits ==
    ASSUME NEW f, NEW S
    PROVE  \A p : p \in Units(f, S) <=> \E x \in S : p \in Worth(f, x)
BY DEF Units

LEMMA UnitsFinite ==
    ASSUME NEW f, NEW S, Summable(f, S)
    PROVE  IsFiniteSet(Units(f, S)) /\ Cardinality(Units(f, S)) \in Nat
<1> DEFINE W == {Worth(f, x) : x \in S}
<1>1. IsFiniteSet(W)
  <2> DEFINE w == [x \in S |-> Worth(f, x)]
  <2>1. w \in Surjection(S, W)
    BY DEF Surjection
  <2> QED BY <2>1, FS_Surjection DEF Summable
<1>2. \A T \in W : IsFiniteSet(T)
  BY WorthCounts DEF Summable
<1>3. IsFiniteSet(UNION W)
  BY <1>1, <1>2, FS_UNION
<1> QED BY <1>3, FS_CardinalityType DEF Units

(* One element more adds its units *)
LEMMA UnitsSplit ==
    ASSUME NEW f, NEW S, Summable(f, S), NEW x \in S
    PROVE  Cardinality(Units(f, S)) = f[x] + Cardinality(Units(f, S \ {x}))
<1> DEFINE A == Units(f, S \ {x})
           B == Worth(f, x)
<1>1. Units(f, S) = A \cup B
  BY InUnits
<1>2. A \cap B = {}
  BY InUnits DEF Worth
<1>3. IsFiniteSet(B) /\ Cardinality(B) = f[x]
  BY WorthCounts DEF Summable
<1>4. Summable(f, S \ {x})
  BY FS_RemoveElement DEF Summable
<1>5. IsFiniteSet(A) /\ Cardinality(A) \in Nat
  BY <1>4, UnitsFinite
<1>6. Cardinality(A \cup B) = Cardinality(A) + Cardinality(B) - Cardinality(A \cap B)
  BY <1>3, <1>5, FS_Union
<1>7. Cardinality(A \cap B) = 0
  BY <1>2, FS_EmptySet
<1>8. f[x] \in Nat
  BY DEF Summable
<1> HIDE DEF A, B
<1>9. Cardinality(A \cup B) = f[x] + Cardinality(A)
  BY <1>3, <1>5, <1>6, <1>7, <1>8
<1> QED BY <1>1, <1>9 DEF A

(* A sum is the number of its units, in whatever order it is taken *)
LEMMA SumIsCount ==
    ASSUME NEW f, NEW S, Summable(f, S)
    PROVE  SumFunctionOnSet(f, S) = Cardinality(Units(f, S))
<1> DEFINE first(s) == CHOOSE x \in s : TRUE
           Adds(it) == it = [s \in SUBSET S |-> IF s = {} THEN 0
                                               ELSE f[first(s)] + it[s \ {first(s)}]]
           count == [s \in SUBSET S |-> Cardinality(Units(f, s))]
<1>0. \A s \in SUBSET S : Summable(f, s)
  BY FS_Subset DEF Summable
<1>1. ASSUME NEW s \in SUBSET S, s # {}
      PROVE  count[s] = f[first(s)] + count[s \ {first(s)}]
  <2>1. first(s) \in s
    BY <1>1
  <2> HIDE DEF first
  <2>2. Summable(f, s)
    BY <1>0
  <2> QED BY <2>1, <2>2, UnitsSplit
<1>2. count[{}] = 0
  <2>1. Units(f, {}) = {}
    BY InUnits
  <2> QED BY <2>1, FS_EmptySet
<1>3. Adds(count)
  <2> HIDE DEF first
  <2>1. \A s \in SUBSET S : count[s] = IF s = {} THEN 0 ELSE f[first(s)] + count[s \ {first(s)}]
    BY <1>1, <1>2
  <2>2. count = [s \in SUBSET S |-> count[s]]
    OBVIOUS
  <2> HIDE DEF count
  <2> QED BY <2>1, <2>2
<1>4. ASSUME NEW it, Adds(it) PROVE it[S] = count[S]
  <2> DEFINE D == {s \in SUBSET S : it[s] # count[s]}
             R == StrictSubsetOrdering(S)
  <2> SUFFICES D = {}
    OBVIOUS
  <2>1. IsWellFoundedOn(R, SUBSET S)
    BY FS_StrictSubsetOrderingWellFounded, FS_FiniteSubsetsOfFinite DEF Summable
  <2>2. ASSUME D # {} PROVE FALSE
    <3> HIDE DEF R
    <3>0. D \subseteq SUBSET S
      OBVIOUS
    <3>1. PICK s \in D : \A t \in D : ~(<<t, s>> \in R)
      <4> HIDE DEF D
      <4> QED BY <2>1, <2>2, <3>0, WFMin
    <3>2. s # {}
      BY <1>2, <1>4
    <3>3. first(s) \in s
      BY <3>2
    <3> HIDE DEF first
    <3>4. <<s \ {first(s)}, s>> \in R
      BY <3>3 DEF R, StrictSubsetOrdering
    <3>5. it[s \ {first(s)}] = count[s \ {first(s)}]
      BY <3>1, <3>4
    <3>6. it[s] = f[first(s)] + it[s \ {first(s)}]
      BY <1>4, <3>2
    <3> HIDE DEF count
    <3> QED BY <1>1, <3>1, <3>2, <3>5, <3>6
  <2> QED BY <2>2
<1>5. SumFunctionOnSet(f, S) = (CHOOSE it : Adds(it))[S]
  BY DEF SumFunctionOnSet, FoldFunctionOnSet, MapThenFoldSet
<1> HIDE DEF Adds, count
<1>6. Adds(CHOOSE it : Adds(it))
  BY <1>3
<1>7. (CHOOSE it : Adds(it))[S] = count[S]
  BY <1>4, <1>6
<1> QED BY <1>5, <1>7 DEF count

\* The sum over no rows.
LEMMA SumEmpty == \A f : SumFunctionOnSet(f, {}) = 0
<1> TAKE f
<1>1. Summable(f, {})
  BY FS_EmptySet DEF Summable
<1>2. Units(f, {}) = {}
  BY InUnits
<1> QED BY <1>1, <1>2, SumIsCount, FS_EmptySet

\* The sum of a finite set of rows is a natural number that one row adds to.
LEMMA SumSplit ==
    ASSUME NEW f, NEW S, Summable(f, S)
    PROVE  /\ SumFunctionOnSet(f, S) \in Nat
           /\ \A x \in S : /\ Summable(f, S \ {x})
                          /\ SumFunctionOnSet(f, S \ {x}) \in Nat
                          /\ SumFunctionOnSet(f, S) = f[x] + SumFunctionOnSet(f, S \ {x})
<1>1. SumFunctionOnSet(f, S) \in Nat
  BY SumIsCount, UnitsFinite
<1>2. ASSUME NEW x \in S
      PROVE  /\ Summable(f, S \ {x})
             /\ SumFunctionOnSet(f, S \ {x}) \in Nat
             /\ SumFunctionOnSet(f, S) = f[x] + SumFunctionOnSet(f, S \ {x})
  <2>1. Summable(f, S \ {x})
    BY FS_RemoveElement DEF Summable
  <2>2. SumFunctionOnSet(f, S \ {x}) = Cardinality(Units(f, S \ {x}))
    BY <2>1, SumIsCount
  <2>3. Cardinality(Units(f, S \ {x})) \in Nat
    BY <2>1, UnitsFinite
  <2> QED BY <2>1, <2>2, <2>3, SumIsCount, UnitsSplit
<1> QED BY <1>1, <1>2

\* A sum depends on the rows it is over alone.
LEMMA SumSame ==
    ASSUME NEW f, NEW g, NEW S, Summable(f, S), \A x \in S : g[x] = f[x]
    PROVE  /\ Summable(g, S)
           /\ SumFunctionOnSet(g, S) = SumFunctionOnSet(f, S)
<1>1. Summable(g, S)
  BY DEF Summable
<1>2. Units(g, S) = Units(f, S)
  BY DEF Units, Worth
<1> QED BY <1>1, <1>2, SumIsCount

\* It grows with its rows.
LEMMA SumMonotone ==
    ASSUME NEW f, NEW g, NEW S, Summable(f, S), Summable(g, S), \A x \in S : f[x] <= g[x]
    PROVE  SumFunctionOnSet(f, S) <= SumFunctionOnSet(g, S)
<1>1. Units(f, S) \subseteq Units(g, S)
  <2> SUFFICES ASSUME NEW x \in S PROVE Worth(f, x) \subseteq Worth(g, x)
    BY InUnits
  <2>1. f[x] \in Nat /\ g[x] \in Nat /\ f[x] <= g[x]
    BY DEF Summable
  <2> QED BY <2>1 DEF Worth
<1>2. Cardinality(Units(f, S)) <= Cardinality(Units(g, S))
  BY <1>1, UnitsFinite, FS_Subset
<1> QED BY <1>2, SumIsCount

-----------------------------------------------------------------------------
(* Accounts and keys *)

Revoked(k) == keys[k].revoked_at # NoRow

(* What the rows of the tables and the API threads hold *)
RowTypes ==
    /\ clock \in Nat
    /\ users \in [Identities -> Orgs \cup {NoRow}]
    /\ DOMAIN orgs = Orgs
    /\ DOMAIN keys = Keys
    /\ \A k \in Keys : Minted(k) => keys[k] \in [org : Orgs, revoked_at : Nat \cup {NoRow}]
    /\ DOMAIN thread = Threads
    /\ \A t \in Threads :
          /\ thread[t].op = "signup" => thread[t].identity \in Identities
          /\ thread[t].op = "manage" => thread[t].org \in Orgs

(* The foreign keys between the tables, and what a thread read of them *)
AccountInv ==
    /\ RowTypes
    /\ \A o \in Orgs : orgs[o] # NoRow =>
          orgs[o].granted = FreeCredit /\ \E i \in Identities : users[i] = o
    /\ \A i, j \in Identities : users[i] # NoRow /\ users[i] = users[j] => i = j
    /\ \A i \in Identities : users[i] # NoRow => orgs[users[i]] # NoRow
    /\ \A k \in Keys : Minted(k) => orgs[keys[k].org] # NoRow
    /\ \A t \in Threads : thread[t].op = "manage" => orgs[thread[t].org] # NoRow

(* The steps of the gateway and of the edge leave accounts and keys alone *)
LEMMA OnlyControlWrites ==
    ASSUME [Next]_vars
    PROVE  \/ ControlNext \/ ControlAlone
           \/ UNCHANGED <<users, orgs, keys, thread>> /\ (clock' = clock \/ clock' = clock + 1)
<1>1. ASSUME NEW r \in Requests, NEW p \in Procs, NEW s \in Secrets,
             ArriveAccounts(r, p, s) \/ ArriveStatic(r, p, s)
      PROVE  UNCHANGED cpVars
  BY <1>1 DEF ArriveAccounts, ArriveStatic
<1>2. ASSUME NEW r \in Requests, NEW raw, NEW img, NEW text, Body(r, raw, img, text)
      PROVE  UNCHANGED cpVars
  BY <1>2 DEF Body
<1>3. ASSUME NEW r \in Requests, BackendAnswers(r) \/ BackendFails(r) PROVE UNCHANGED cpVars
  BY <1>3 DEF BackendAnswers, BackendFails
<1>4. ASSUME NEW r \in Requests, Record(r)
      PROVE  UNCHANGED <<users, orgs, keys, thread, clock>>
  BY <1>4 DEF Record
<1>5. ASSUME EdgeNext PROVE UNCHANGED <<users, orgs, keys, thread, clock>>
  BY <1>5 DEF EdgeNext, EdgeKey, EdgeKeyPut, EdgeCredit, EdgeCreditPut, EdgeDone,
              GatewayCharges, cpVars, tables
<1>6. ASSUME Tick PROVE UNCHANGED <<users, orgs, keys, thread>> /\ clock' = clock + 1
  BY <1>6 DEF Tick, tables
<1> QED BY <1>1, <1>2, <1>3, <1>4, <1>5, <1>6 DEF Next, vars, cpVars, tables

(* A key that is minted belongs to the org it is minted for *)
LEMMA MintedBelongs ==
    ASSUME NEW table, NEW org, NEW table2 \in MintedKeys(table, org)
    PROVE  \E k \in DOMAIN table : table2 = [table EXCEPT ![k] = [org |-> org, revoked_at |-> NoRow]]
  BY DEF MintedKeys, Unused

LEMMA SignupKeepsAccounts ==
    ASSUME AccountInv, NEW t \in Threads, SignupCommit(t) PROVE AccountInv'
<1> DEFINE i == thread[t].identity
<1>1. i \in Identities /\ UNCHANGED clock
  BY DEF SignupCommit, AccountInv, RowTypes
<1>2. CASE users[i] # NoRow
  BY <1>2 DEF SignupCommit, AccountInv, RowTypes, Idle, Minted
<1>3. CASE users[i] = NoRow
  <2>1. PICK n \in Names, o \in Unused(orgs) :
          /\ orgs' = [orgs EXCEPT ![o] = [name |-> n, granted |-> FreeCredit]]
          /\ users' = [users EXCEPT ![i] = o]
          /\ keys' \in MintedKeys(keys, o)
    BY <1>3 DEF SignupCommit
  <2>2. o \in Orgs /\ orgs[o] = NoRow /\ o # NoRow
    BY ControlAssumption DEF Unused, AccountInv, RowTypes
  <2>3. PICK k \in Keys : keys' = [keys EXCEPT ![k] = [org |-> o, revoked_at |-> NoRow]]
    BY <2>1, MintedBelongs DEF AccountInv, RowTypes
  <2>4. thread' = [thread EXCEPT ![t] = Idle]
    BY DEF SignupCommit
  <2>5. orgs'[o] # NoRow /\ orgs'[o].granted = FreeCredit
    BY <2>1, <2>2, ControlAssumption DEF AccountInv, RowTypes
  <2>6. RowTypes'
    BY <1>1, <2>1, <2>2, <2>3, <2>4 DEF AccountInv, RowTypes, Minted, Idle
  <2>7. \A x \in Orgs : orgs[x] # NoRow => orgs'[x] = orgs[x] /\ x # o
    BY <2>1, <2>2 DEF AccountInv, RowTypes
  <2>8. \A j \in Identities : j # i => users'[j] = users[j] /\ users[j] # o
    BY <1>1, <2>1, <2>2 DEF AccountInv, RowTypes
  <2>9. users'[i] = o
    BY <1>1, <2>1 DEF AccountInv, RowTypes
  <2>10. \A x \in Orgs : orgs'[x] # NoRow =>
            orgs'[x].granted = FreeCredit /\ \E j \in Identities : users'[j] = x
    <3> SUFFICES ASSUME NEW x \in Orgs, orgs'[x] # NoRow
                 PROVE  orgs'[x].granted = FreeCredit /\ \E j \in Identities : users'[j] = x
      OBVIOUS
    <3>1. CASE x = o
      BY <3>1, <1>1, <2>5, <2>9
    <3>2. CASE x # o
      <4>1. orgs'[x] = orgs[x]
        BY <3>2, <2>1 DEF AccountInv, RowTypes
      <4>2. PICK j \in Identities : users[j] = x
        BY <4>1 DEF AccountInv
      <4>3. j # i
        BY <4>2, <1>3, ControlAssumption
      <4> QED BY <4>1, <4>2, <4>3, <2>8 DEF AccountInv
    <3> QED BY <3>1, <3>2
  <2>11. \A x, y \in Identities : users'[x] # NoRow /\ users'[x] = users'[y] => x = y
    BY <2>8, <2>9 DEF AccountInv
  <2>12. \A x \in Identities : users'[x] # NoRow => orgs'[users'[x]] # NoRow
    BY <2>5, <2>7, <2>8, <2>9 DEF AccountInv, RowTypes
  <2>13. \A x \in Keys : keys'[x] # NoRow => orgs'[keys'[x].org] # NoRow
    BY <2>3, <2>5, <2>7 DEF AccountInv, RowTypes, Minted
  <2>14. \A u \in Threads : thread'[u].op = "manage" => orgs'[thread'[u].org] # NoRow
    BY <2>4, <2>7 DEF AccountInv, RowTypes, Idle
  <2> QED BY <2>6, <2>10, <2>11, <2>12, <2>13, <2>14 DEF AccountInv, Minted
<1> QED BY <1>2, <1>3

(* Creating, rotating and revoking keys *)
LEMMA KeysKeepAccounts ==
    ASSUME AccountInv, NEW t \in Threads, NEW k \in Keys,
           CreateKey(t) \/ RevokeKey(t, k) \/ RotateKey(t, k)
    PROVE  AccountInv'
<1>1. /\ thread' = [thread EXCEPT ![t] = Idle] /\ UNCHANGED <<users, orgs, clock>>
      /\ thread[t].org \in Orgs /\ orgs[thread[t].org] # NoRow
  BY DEF CreateKey, RevokeKey, RotateKey, AccountInv, RowTypes
<1>2. /\ DOMAIN keys' = Keys
      /\ \A x \in Keys : keys'[x] # NoRow =>
            /\ keys'[x] \in [org : Orgs, revoked_at : Nat \cup {NoRow}]
            /\ orgs[keys'[x].org] # NoRow
  <2> DEFINE stamped == [keys EXCEPT ![k].revoked_at = clock]
  <2>1. ASSUME Minted(k)
        PROVE  /\ DOMAIN stamped = Keys
               /\ \A x \in Keys : stamped[x] # NoRow =>
                     /\ stamped[x] \in [org : Orgs, revoked_at : Nat \cup {NoRow}]
                     /\ orgs[stamped[x].org] # NoRow
    BY <2>1 DEF AccountInv, RowTypes, Minted
  <2>2. ASSUME NEW table, DOMAIN table = Keys,
               \A x \in Keys : table[x] # NoRow =>
                     /\ table[x] \in [org : Orgs, revoked_at : Nat \cup {NoRow}]
                     /\ orgs[table[x].org] # NoRow,
               keys' \in MintedKeys(table, thread[t].org)
        PROVE  <1>2!:
    <3>1. PICK x \in Keys :
            keys' = [table EXCEPT ![x] = [org |-> thread[t].org, revoked_at |-> NoRow]]
      BY <2>2, MintedBelongs
    <3> QED BY <3>1, <2>2, <1>1
  <2>3. CASE CreateKey(t)
    BY <2>2, <2>3 DEF CreateKey, AccountInv, RowTypes, Minted
  <2>4. CASE RevokeKey(t, k)
    BY <2>1, <2>4 DEF RevokeKey, AccountInv, RowTypes, Minted
  <2>5. CASE RotateKey(t, k)
    <3>1. CASE keys[k].org = thread[t].org
      <4>1. Minted(k) /\ keys' \in MintedKeys(stamped, thread[t].org)
        BY <2>5, <3>1 DEF RotateKey
      <4> HIDE DEF stamped
      <4> QED BY <4>1, <2>1, <2>2
    <3>2. CASE keys[k].org # thread[t].org
      BY <2>5, <3>2 DEF RotateKey, AccountInv, RowTypes, Minted
    <3> QED BY <3>1, <3>2
  <2> QED BY <2>3, <2>4, <2>5
<1> QED BY <1>1, <1>2 DEF AccountInv, RowTypes, Minted, Idle

LEMMA AccountInvInit == Init => AccountInv
  BY ControlAssumption DEF Init, InitControl, AccountInv, RowTypes, Minted, Idle

LEMMA AccountInvNext == AccountInv /\ [Next]_vars => AccountInv'
<1> SUFFICES ASSUME AccountInv, [Next]_vars PROVE AccountInv'
  OBVIOUS
<1>1. ASSUME UNCHANGED <<users, orgs, keys, thread>>, clock' = clock \/ clock' = clock + 1
      PROVE  AccountInv'
  BY <1>1 DEF AccountInv, RowTypes, Minted
<1>2. ASSUME NEW t \in Threads, NEW i \in Identities, SignupSelect(t, i) PROVE AccountInv'
  BY <1>2 DEF SignupSelect, tables, AccountInv, RowTypes, Minted
<1>3. ASSUME NEW t \in Threads, NEW k \in Keys, OrgFromKey(t, k) PROVE AccountInv'
  BY <1>3 DEF OrgFromKey, Active, tables, AccountInv, RowTypes, Minted
<1>4. ASSUME NEW t \in Threads, CreateKey(t) PROVE AccountInv'
  <2>1. PICK k \in Keys : TRUE
    BY <1>4, MintedBelongs DEF CreateKey, AccountInv, RowTypes
  <2> QED BY <1>4, <2>1, KeysKeepAccounts
<1>5. ControlNext \/ ControlAlone => AccountInv'
  BY <1>2, <1>3, <1>4, SignupKeepsAccounts, KeysKeepAccounts DEF ControlNext, ControlAlone
<1> QED BY <1>1, <1>5, OnlyControlWrites

(* Sign-ups racing on one identity, whatever else goes on, leave one org   *)
(* and one free grant per identity, and no key without an org              *)
(* (accounts.py, signup_oauth, create_key, rotate_key).                    *)
THEOREM SignupsAreUnique == Spec => []OneAccountPerIdentity
<1>1. ASSUME AccountInv PROVE OneAccountPerIdentity
  <2>1. ASSUME NEW o \in Orgs, orgs[o] # NoRow
        PROVE  Cardinality({i \in Identities : users[i] = o}) = 1
    <3>1. PICK i \in Identities : users[i] = o
      BY <1>1, <2>1 DEF AccountInv
    <3>2. {j \in Identities : users[j] = o} = {i}
      BY <1>1, <3>1, ControlAssumption DEF AccountInv
    <3> QED BY <3>2, FS_Singleton
  <2> QED BY <1>1, <2>1 DEF AccountInv, OneAccountPerIdentity
<1> QED BY <1>1, AccountInvInit, AccountInvNext, PTL DEF Spec

-----------------------------------------------------------------------------
(* How long a revoked key lives *)

(* A process caches a key until TTL after it looked it up, hence until TTL *)
(* after the revocation at the latest.                                     *)
ResolverInv ==
    /\ DOMAIN resolved = Procs
    /\ \A p \in Procs : DOMAIN resolved[p] = Secrets
    /\ \A p \in Procs, s \in Secrets : resolved[p][s] # NoRow =>
          LET e == resolved[p][s] IN
          /\ e.expires \in Nat /\ e.expires <= clock + TTL
          /\ e.key # NoRow =>
                /\ e.key \in Keys /\ Minted(e.key)
                /\ Revoked(e.key) => e.expires <= keys[e.key].revoked_at + TTL

(* The edge caches it up to a request after it was read ...               *)
EdgeCacheInv ==
    /\ DOMAIN kv = {"key", "credit"} /\ DOMAIN kv.key = Secrets
    /\ \A s \in Secrets : kv.key[s] # NoRow =>
          LET e == kv.key[s] IN
          /\ e.expires \in Nat /\ e.expires <= clock + TTL
          /\ e.key # NoRow =>
                /\ e.key \in Keys /\ Minted(e.key)
                /\ Revoked(e.key) => e.expires <= keys[e.key].revoked_at + TTL + Lag

(* ... and admits the request that uses it up to a request later.          *)
AdmissionInv ==
    /\ DOMAIN req = Requests
    /\ \A r \in Requests : Admitting(r) =>
          LET q == req[r] IN
          /\ q.since \in Nat /\ q.since <= clock /\ clock <= q.since + Lag
          /\ q.pc = "key put" => q.asked \in Keys
          /\ q.pc # "key put" => q.key # NoRow
          /\ q.key # NoRow =>
                /\ q.key \in Keys /\ Minted(q.key)
                /\ Revoked(q.key) => q.since < keys[q.key].revoked_at + TTL + Lag
          /\ q.pc = "key put" /\ q.key # NoRow /\ Revoked(q.key) =>
                q.since <= keys[q.key].revoked_at

KeyInv == AccountInv /\ ResolverInv /\ EdgeCacheInv /\ AdmissionInv

(* Keys are minted for good, and a revocation is stamped with the time *)
LEMMA KeysAge ==
    ASSUME AccountInv, [Next]_vars
    PROVE  \A k \in Keys : Minted(k) =>
              /\ Minted(k)' /\ keys'[k].org = keys[k].org
              /\ Revoked(k)' => \/ Revoked(k) /\ keys'[k].revoked_at = keys[k].revoked_at
                                \/ keys'[k].revoked_at = clock /\ clock' = clock
<1>1. ASSUME NEW t \in Threads, NEW x \in Keys, NEW k \in Keys, Minted(k),
             SignupCommit(t) \/ CreateKey(t) \/ RevokeKey(t, x) \/ RotateKey(t, x)
      PROVE  /\ Minted(k)' /\ clock' = clock /\ keys'[k].org = keys[k].org
             /\ \/ keys'[k].revoked_at = keys[k].revoked_at
                \/ keys'[k].revoked_at = clock
  <2> DEFINE stamped == [keys EXCEPT ![x].revoked_at = clock]
  <2>0. DOMAIN keys = Keys /\ clock \in Nat /\ clock' = clock
    BY <1>1 DEF SignupCommit, CreateKey, RevokeKey, RotateKey, AccountInv, RowTypes
  <2>1. Minted(x) => stamped[x] # NoRow
    BY <2>0, ControlAssumption DEF AccountInv, RowTypes
  <2>2. ASSUME NEW table, NEW org, DOMAIN table = Keys, table[k] # NoRow,
               keys' \in MintedKeys(table, org)
        PROVE  keys'[k] = table[k]
    BY <2>2 DEF MintedKeys, Unused
  <2>3. CASE SignupCommit(t)
    <3>1. keys' = keys \/ \E o \in Orgs : keys' \in MintedKeys(keys, o)
      BY <2>3 DEF SignupCommit, Unused, AccountInv, RowTypes
    <3> QED BY <1>1, <2>0, <2>2, <3>1 DEF Minted
  <2>4. CASE CreateKey(t)
    BY <1>1, <2>0, <2>2, <2>4 DEF CreateKey, Minted
  <2>5. CASE RevokeKey(t, x)
    BY <1>1, <2>0, <2>1, <2>5 DEF RevokeKey, Minted, AccountInv, RowTypes
  <2>6. CASE RotateKey(t, x)
    <3>1. CASE keys' = keys
      BY <1>1, <2>0, <3>1 DEF Minted
    <3>2. CASE keys' # keys
      <4>1. Minted(x) /\ keys' \in MintedKeys(stamped, thread[t].org)
        BY <2>6, <3>2 DEF RotateKey
      <4>2. /\ DOMAIN stamped = Keys /\ stamped[k] # NoRow /\ stamped[k].org = keys[k].org
            /\ stamped[k].revoked_at = keys[k].revoked_at \/ stamped[k].revoked_at = clock
        BY <1>1, <2>0, <2>1, <4>1 DEF Minted, AccountInv, RowTypes
      <4>3. keys'[k] = stamped[k]
        <5> HIDE DEF stamped
        <5> QED BY <4>1, <4>2, <2>2
      <4> QED BY <2>0, <4>2, <4>3 DEF Minted
    <3> QED BY <3>1, <3>2
  <2> QED BY <1>1, <2>3, <2>4, <2>5, <2>6
<1>2. ASSUME NEW t \in Threads, NEW i \in Identities, NEW x \in Keys,
             SignupSelect(t, i) \/ OrgFromKey(t, x)
      PROVE  UNCHANGED keys
  BY <1>2 DEF SignupSelect, OrgFromKey, tables
<1> SUFFICES ASSUME NEW k \in Keys, Minted(k)
             PROVE  /\ Minted(k)' /\ keys'[k].org = keys[k].org
                    /\ Revoked(k)' => \/ Revoked(k) /\ keys'[k].revoked_at = keys[k].revoked_at
                                      \/ keys'[k].revoked_at = clock /\ clock' = clock
  OBVIOUS
<1>3. CASE UNCHANGED keys
  BY <1>3 DEF Minted, Revoked
<1>4. CASE ControlNext \/ ControlAlone
  <2>1. PICK t \in Threads :
           \/ \E x \in Keys : SignupCommit(t) \/ CreateKey(t) \/ RevokeKey(t, x) \/ RotateKey(t, x)
           \/ \E i \in Identities, x \in Keys : SignupSelect(t, i) \/ OrgFromKey(t, x)
           \/ \E x \in Keys : OrgFromKey(t, x)
    BY <1>4 DEF ControlNext, ControlAlone
  <2>2. CASE \E x \in Keys : OrgFromKey(t, x)
    BY <2>2, <1>3 DEF OrgFromKey, tables
  <2>3. CASE \E i \in Identities, x \in Keys : SignupSelect(t, i) \/ OrgFromKey(t, x)
    BY <2>3, <1>2, <1>3
  <2>4. ASSUME NEW x \in Keys,
               SignupCommit(t) \/ CreateKey(t) \/ RevokeKey(t, x) \/ RotateKey(t, x)
        PROVE  /\ Minted(k)' /\ clock' = clock /\ keys'[k].org = keys[k].org
               /\ \/ keys'[k].revoked_at = keys[k].revoked_at
                  \/ keys'[k].revoked_at = clock
    BY <2>4, <1>1
  <2> QED BY <2>1, <2>2, <2>3, <2>4 DEF Revoked
<1> QED BY <1>3, <1>4, OnlyControlWrites

(* What a step of the control plane does to the caches: nothing, and a key *)
(* it revokes was cached for TTL from now at most                          *)
LEMMA ControlKeepsKeyInv ==
    ASSUME KeyInv, [Next]_vars, UNCHANGED <<resolved, kv, req, clock>>
    PROVE  ResolverInv' /\ EdgeCacheInv' /\ AdmissionInv'
<1> USE GatewayAssumption
<1>1. clock \in Nat /\ \A k \in Keys : Minted(k) => keys[k].revoked_at \in Nat \cup {NoRow}
  BY DEF KeyInv, AccountInv, RowTypes
<1>2. ResolverInv'
  <2> SUFFICES ASSUME NEW p \in Procs, NEW s \in Secrets, resolved[p][s] # NoRow,
                      resolved[p][s].key # NoRow
               PROVE  LET e == resolved[p][s] IN
                      /\ Minted(e.key)'
                      /\ Revoked(e.key)' => e.expires <= keys'[e.key].revoked_at + TTL
    BY DEF KeyInv, ResolverInv, Revoked, Minted
  <2> DEFINE e == resolved[p][s]
  <2>1. /\ e.key \in Keys /\ Minted(e.key) /\ e.expires \in Nat /\ e.expires <= clock + TTL
        /\ Revoked(e.key) => e.expires <= keys[e.key].revoked_at + TTL
    BY DEF KeyInv, ResolverInv
  <2> QED BY <2>1, KeysAge DEF KeyInv, Revoked, Minted
<1>3. EdgeCacheInv'
  <2> SUFFICES ASSUME NEW s \in Secrets, kv.key[s] # NoRow, kv.key[s].key # NoRow
               PROVE  LET e == kv.key[s] IN
                      /\ Minted(e.key)'
                      /\ Revoked(e.key)' => e.expires <= keys'[e.key].revoked_at + TTL + Lag
    BY DEF KeyInv, EdgeCacheInv, Revoked, Minted
  <2> DEFINE e == kv.key[s]
  <2>1. /\ e.key \in Keys /\ Minted(e.key) /\ e.expires \in Nat /\ e.expires <= clock + TTL
        /\ Revoked(e.key) => e.expires <= keys[e.key].revoked_at + TTL + Lag
    BY DEF KeyInv, EdgeCacheInv
  <2> QED BY <1>1, <2>1, KeysAge DEF KeyInv, Revoked, Minted
<1>4. AdmissionInv'
  <2> SUFFICES ASSUME NEW r \in Requests, Admitting(r), req[r].key # NoRow
               PROVE  LET q == req[r] IN
                      /\ Minted(q.key)'
                      /\ Revoked(q.key)' =>
                            /\ q.since < keys'[q.key].revoked_at + TTL + Lag
                            /\ q.pc = "key put" => q.since <= keys'[q.key].revoked_at
    BY DEF KeyInv, AdmissionInv, Admitting, Revoked, Minted
  <2> DEFINE q == req[r]
  <2>1. /\ q.key \in Keys /\ Minted(q.key) /\ q.since \in Nat /\ q.since <= clock
        /\ Revoked(q.key) => q.since < keys[q.key].revoked_at + TTL + Lag
        /\ q.pc = "key put" /\ Revoked(q.key) => q.since <= keys[q.key].revoked_at
    BY DEF KeyInv, AdmissionInv
  <2>2. /\ Minted(q.key)'
        /\ Revoked(q.key)' => \/ Revoked(q.key) /\ keys'[q.key].revoked_at = keys[q.key].revoked_at
                              \/ keys'[q.key].revoked_at = clock
    BY <2>1, KeysAge DEF KeyInv, Revoked, Minted
  <2>3. keys[q.key].revoked_at \in Nat \cup {NoRow}
    BY <1>1, <2>1
  <2>4. ASSUME Revoked(q.key)'
        PROVE  /\ q.since < keys'[q.key].revoked_at + TTL + Lag
               /\ q.pc = "key put" => q.since <= keys'[q.key].revoked_at
    <3> HIDE DEF q
    <3>1. CASE Revoked(q.key) /\ keys'[q.key].revoked_at = keys[q.key].revoked_at
      BY <3>1, <2>1
    <3>2. CASE keys'[q.key].revoked_at = clock
      <4>1. q.since \in Nat /\ q.since <= clock /\ clock \in Nat
        BY <1>1, <2>1
      <4>2. q.since < clock + TTL + Lag
        BY <4>1
      <4> QED BY <3>2, <4>1, <4>2
    <3> QED BY <2>2, <2>4, <3>1, <3>2
  <2> QED BY <2>2, <2>4 DEF Revoked, Minted
<1> QED BY <1>2, <1>3, <1>4

(* A request that leaves the gate, or was never in it *)
LEMMA OutsideKeepsKeyInv ==
    ASSUME KeyInv, UNCHANGED <<users, orgs, keys, thread, clock, kv>>,
           NEW r \in Requests, NEW x, req' = [req EXCEPT ![r] = x],
           x.pc \notin {"key put", "credit", "credit put"}
    PROVE  EdgeCacheInv' /\ AdmissionInv'
<1>1. EdgeCacheInv'
  BY DEF KeyInv, EdgeCacheInv, Revoked, Minted
<1>2. \A s \in Requests : Admitting(s)' => Admitting(s) /\ req'[s] = req[s]
  BY DEF Admitting, KeyInv, AdmissionInv
<1>3. AdmissionInv'
  BY <1>2 DEF KeyInv, AdmissionInv, Admitting, Revoked, Minted
<1> QED BY <1>1, <1>3

LEMMA ResolverUnchanged ==
    ASSUME KeyInv, UNCHANGED <<keys, clock, resolved>>
    PROVE  ResolverInv'
  BY DEF KeyInv, ResolverInv, Revoked, Minted

(* An admission to the gateway: the cached key is fresh or looked up now *)
LEMMA ArrivalIsTimely ==
    ASSUME KeyInv, NEW r \in Requests, NEW p \in Procs, NEW s \in Secrets,
           ArriveAccounts(r, p, s)
    PROVE  ResolverInv' /\ EdgeCacheInv' /\ AdmissionInv' /\ KeyWindow
<1> USE GatewayAssumption, ControlAssumption
<1> DEFINE found == Resolve(p, s)
<1>1. /\ UNCHANGED <<users, orgs, keys, thread, clock, kv>> /\ s \in Keys /\ Minted(s)
      /\ req[r] = Free /\ clock \in Nat /\ resolved' = found.cache /\ DOMAIN req = Requests
      /\ DOMAIN resolved = Procs /\ DOMAIN resolved[p] = Secrets
  BY DEF ArriveAccounts, cpVars, tables, edgeVars, KeyInv, AccountInv, RowTypes, AdmissionInv,
         ResolverInv
<1>2. found.key # NoRow /\ Revoked(found.key) => clock < keys[found.key].revoked_at + TTL
  <2>1. CASE Fresh(p, s)
    <3>1. found.key = resolved[p][s].key
      BY <2>1 DEF Resolve
    <3> QED BY <2>1, <3>1, <1>1 DEF Fresh, KeyInv, AccountInv, RowTypes, ResolverInv, Revoked
  <2>2. CASE ~Fresh(p, s)
    BY <2>2, <1>1 DEF Resolve, Lookup, Active, Revoked
  <2> QED BY <2>1, <2>2
<1>3. ResolverInv'
  <2>1. CASE Fresh(p, s)
    BY <2>1, <1>1, ResolverUnchanged DEF Resolve
  <2>2. CASE ~Fresh(p, s)
    <3> DEFINE e == [expires |-> clock + TTL, key |-> Lookup(s)]
    <3>1. resolved' = [resolved EXCEPT ![p][s] = e]
      BY <2>2, <1>1 DEF Resolve
    <3>2. e.expires = clock + TTL /\ (e.key # NoRow => e.key = s /\ ~Revoked(s))
      BY <1>1 DEF Lookup, Active, Revoked
    <3>3. /\ DOMAIN resolved' = Procs
          /\ \A q \in Procs : DOMAIN resolved'[q] = Secrets
          /\ resolved'[p][s] = e
          /\ \A q \in Procs, x \in Secrets : <<q, x>> # <<p, s>> => resolved'[q][x] = resolved[q][x]
      BY <3>1 DEF KeyInv, ResolverInv
    <3> HIDE DEF e
    <3>4. ASSUME NEW q \in Procs, NEW x \in Secrets, resolved'[q][x] # NoRow
          PROVE  LET d == resolved'[q][x] IN
                 /\ d.expires \in Nat /\ d.expires <= clock + TTL
                 /\ d.key # NoRow =>
                       /\ d.key \in Keys /\ Minted(d.key)
                       /\ Revoked(d.key) => d.expires <= keys[d.key].revoked_at + TTL
      <4>1. CASE <<q, x>> = <<p, s>>
        BY <4>1, <1>1, <3>2, <3>3
      <4>2. CASE <<q, x>> # <<p, s>>
        BY <4>2, <3>3, <3>4 DEF KeyInv, ResolverInv
      <4> QED BY <4>1, <4>2
    <3> QED BY <1>1, <3>3, <3>4 DEF ResolverInv, Revoked, Minted
  <2> QED BY <2>1, <2>2
<1>4. CASE req' = req
  BY <1>1, <1>3, <1>4 DEF KeyWindow, KeyInv, EdgeCacheInv, AdmissionInv, Admitting, Revoked, Minted
<1>5. CASE req' # req
  <2> DEFINE x == [pc |-> "body", proc |-> p, key |-> found.key, tenant |-> AccountTenant(found.key)]
  <2>1. found.key # NoRow /\ req' = [req EXCEPT ![r] = x]
    BY <1>5 DEF ArriveAccounts, Admitted
  <2>2. x.pc = "body" /\ x.key = found.key
    OBVIOUS
  <2> HIDE DEF x, found
  <2>3. EdgeCacheInv' /\ AdmissionInv'
    BY <1>1, <2>1, <2>2, OutsideKeepsKeyInv
  <2>4. KeyWindow
    BY <1>1, <1>2, <2>1, <2>2 DEF KeyWindow, Revoked
  <2> QED BY <1>3, <2>3, <2>4
<1> QED BY <1>4, <1>5

(* A request inside the gate of the edge *)
LEMMA InsideKeepsAdmissionInv ==
    ASSUME KeyInv, UNCHANGED <<keys, clock>>,
           NEW r \in Requests, NEW x, req' = [req EXCEPT ![r] = x],
           x.since \in Nat, x.since <= clock, clock <= x.since + Lag,
           x.pc = "key put" => x.asked \in Keys,
           x.pc # "key put" => x.key # NoRow,
           x.key # NoRow =>
              /\ x.key \in Keys /\ Minted(x.key)
              /\ Revoked(x.key) => x.since < keys[x.key].revoked_at + TTL + Lag,
           x.pc = "key put" /\ x.key # NoRow /\ Revoked(x.key) =>
              x.since <= keys[x.key].revoked_at
    PROVE  AdmissionInv'
<1>1. DOMAIN req' = Requests /\ req'[r] = x /\ \A s \in Requests : s # r => req'[s] = req[s]
  BY DEF KeyInv, AdmissionInv
<1> QED BY <1>1 DEF KeyInv, AdmissionInv, Admitting, Revoked, Minted

(* resolveKey: what is read now is current, what is cached is Lag old *)
LEMMA EdgeKeyIsTimely ==
    ASSUME KeyInv, NEW r \in Requests, NEW s \in Keys, EdgeKey(r, s)
    PROVE  EdgeCacheInv' /\ AdmissionInv' /\ KeyWindow
<1> USE GatewayAssumption, ControlAssumption
<1>1. /\ UNCHANGED <<users, orgs, keys, thread, clock, kv>> /\ Minted(s) /\ req[r] = Free
      /\ clock \in Nat /\ DOMAIN req = Requests /\ s \in Secrets /\ front = "edge"
  BY DEF EdgeKey, cpVars, tables, edgeVars, KeyInv, AccountInv, RowTypes, AdmissionInv, Secrets
<1>2. EdgeCacheInv'
  BY <1>1 DEF KeyInv, EdgeCacheInv, Revoked, Minted
<1>3. CASE ~Unexpired(kv.key[s])
  <2> DEFINE x == [pc |-> "key put", asked |-> s, key |-> EdgeLookup(s), since |-> clock]
  <2>1. req' = [req EXCEPT ![r] = x]
    BY <1>3 DEF EdgeKey
  <2>2. x.key # NoRow => x.key = s /\ ~Revoked(s)
    BY DEF EdgeLookup, Revoked
  <2>3. /\ x.pc = "key put" /\ x.asked = s
        /\ x.since \in Nat /\ x.since <= clock /\ clock <= x.since + Lag
    BY <1>1
  <2> HIDE DEF x
  <2>4. AdmissionInv'
    BY <1>1, <2>1, <2>2, <2>3, InsideKeepsAdmissionInv
  <2>5. KeyWindow
    BY <1>1, <2>1, <2>3 DEF KeyWindow, accounts
  <2> QED BY <1>2, <2>4, <2>5
<1>4. CASE Unexpired(kv.key[s]) /\ kv.key[s].key # NoRow
  <2> DEFINE x == [pc |-> "credit", key |-> kv.key[s].key, since |-> clock]
  <2>1. req' = [req EXCEPT ![r] = x]
    BY <1>4 DEF EdgeKey
  <2>2. /\ x.pc = "credit" /\ x.since = clock /\ x.key # NoRow
        /\ x.key \in Keys /\ Minted(x.key)
        /\ Revoked(x.key) => clock < keys[x.key].revoked_at + TTL + Lag
    BY <1>1, <1>4 DEF Unexpired, KeyInv, EdgeCacheInv, AccountInv, RowTypes, Revoked
  <2>3. x.since \in Nat /\ x.since <= clock /\ clock <= x.since + Lag
    BY <1>1
  <2> HIDE DEF x
  <2>4. AdmissionInv'
    BY <1>1, <2>1, <2>2, <2>3, InsideKeepsAdmissionInv
  <2>5. KeyWindow
    BY <1>1, <2>1, <2>2 DEF KeyWindow, accounts
  <2> QED BY <1>2, <2>4, <2>5
<1>5. CASE Unexpired(kv.key[s]) /\ kv.key[s].key = NoRow
  <2>1. req' = [req EXCEPT ![r] = Free]
    BY <1>5 DEF EdgeKey
  <2>2. DOMAIN req' = Requests /\ \A z \in Requests : req'[z] = req[z]
    BY <2>1, <1>1
  <2> QED BY <1>1, <1>2, <2>2 DEF KeyWindow, KeyInv, AdmissionInv, Admitting, Revoked, Minted
<1> QED BY <1>3, <1>4, <1>5

(* The answer is cached, Lag after it was read at the latest *)
LEMMA EdgeKeyPutIsTimely ==
    ASSUME KeyInv, NEW r \in Requests, EdgeKeyPut(r)
    PROVE  EdgeCacheInv' /\ AdmissionInv' /\ KeyWindow
<1> USE GatewayAssumption, ControlAssumption
<1> DEFINE q == req[r]
           e == [expires |-> clock + TTL, key |-> q.key]
<1>1. /\ UNCHANGED <<users, orgs, keys, thread, clock>> /\ q.pc = "key put"
      /\ kv' = [kv EXCEPT !.key[q.asked] = e] /\ clock \in Nat /\ DOMAIN req = Requests
  BY DEF EdgeKeyPut, cpVars, tables, edgeVars, KeyInv, AccountInv, RowTypes, AdmissionInv
<1>2. /\ q.since \in Nat /\ q.since <= clock /\ clock <= q.since + Lag /\ q.asked \in Secrets
      /\ q.key # NoRow =>
            /\ q.key \in Keys /\ Minted(q.key) /\ keys[q.key].revoked_at \in Nat \cup {NoRow}
            /\ Revoked(q.key) => /\ q.since <= keys[q.key].revoked_at
                                 /\ q.since < keys[q.key].revoked_at + TTL + Lag
  BY <1>1 DEF KeyInv, AdmissionInv, Admitting, AccountInv, RowTypes, Secrets
<1>3. EdgeCacheInv'
  <2>1. /\ DOMAIN kv' = {"key", "credit"} /\ DOMAIN kv'.key = Secrets
        /\ kv'.key[q.asked] = e
        /\ \A s \in Secrets : s # q.asked => kv'.key[s] = kv.key[s]
    BY <1>1, <1>2 DEF KeyInv, EdgeCacheInv
  <2>2. /\ e.expires \in Nat /\ e.expires <= clock + TTL /\ e.key = q.key
        /\ e.key # NoRow /\ Revoked(e.key) => e.expires <= keys[e.key].revoked_at + TTL + Lag
    <3>0. clock \in Nat /\ TTL \in Nat /\ Lag \in Nat
      BY <1>1
    <3>1. e.expires = clock + TTL /\ e.key = q.key
      OBVIOUS
    <3> HIDE DEF e, q
    <3>2. ASSUME q.key # NoRow, Revoked(q.key)
          PROVE  e.expires <= keys[q.key].revoked_at + TTL + Lag
      <4>1. keys[q.key].revoked_at \in Nat /\ q.since <= keys[q.key].revoked_at
        BY <1>2, <3>2 DEF Revoked
      <4>2. q.since \in Nat /\ clock <= q.since + Lag
        BY <1>2
      <4> QED BY <3>0, <3>1, <4>1, <4>2
    <3> QED BY <3>0, <3>1, <3>2
  <2> HIDE DEF e, q
  <2> QED BY <1>1, <1>2, <2>1, <2>2 DEF KeyInv, EdgeCacheInv, Revoked, Minted
<1>4. CASE q.key = NoRow
  <2>1. req' = [req EXCEPT ![r] = Free]
    BY <1>4 DEF EdgeKeyPut
  <2>2. req'[r] = Free /\ Free.pc = "free" /\ \A s \in Requests : s # r => req'[s] = req[s]
    BY <1>1, <2>1 DEF Free
  <2>3. AdmissionInv'
    BY <1>1, <2>1, <2>2 DEF KeyInv, AdmissionInv, Admitting, Revoked, Minted
  <2> QED BY <1>3, <2>2, <2>3 DEF KeyWindow
<1>5. CASE q.key # NoRow
  <2> DEFINE x == [pc |-> "credit", key |-> q.key, since |-> q.since]
  <2>1. req' = [req EXCEPT ![r] = x]
    BY <1>5 DEF EdgeKeyPut
  <2>2. x.pc = "credit" /\ x.key = q.key /\ x.since = q.since
    OBVIOUS
  <2>6. req[r] # Free
    <3>1. Free.pc = "free"
      BY DEF Free
    <3> QED BY <1>1, <3>1
  <2>3. \A s \in Requests : req'[s] = IF s = r THEN x ELSE req[s]
    BY <1>1, <2>1
  <2> HIDE DEF x, q
  <2>4. AdmissionInv'
    BY <1>1, <1>2, <1>5, <2>1, <2>2, InsideKeepsAdmissionInv
  <2>5. KeyWindow
    BY <2>2, <2>3, <2>6 DEF KeyWindow
  <2> QED BY <1>3, <2>4, <2>5
<1> QED BY <1>4, <1>5

(* hasCredit: the request goes on, to the cache or past the gate *)
LEMMA EdgeCreditIsTimely ==
    ASSUME KeyInv, NEW r \in Requests, EdgeCredit(r) \/ EdgeCreditPut(r)
    PROVE  EdgeCacheInv' /\ AdmissionInv' /\ KeyWindow
<1> USE GatewayAssumption, ControlAssumption
<1> DEFINE q == req[r]
<1>1. /\ UNCHANGED <<users, orgs, keys, thread, clock>> /\ q.pc \in {"credit", "credit put"}
      /\ clock \in Nat /\ DOMAIN req = Requests
  BY DEF EdgeCredit, EdgeCreditPut, cpVars, tables, KeyInv, AccountInv, RowTypes, AdmissionInv
<1>2. /\ q.since \in Nat /\ q.since <= clock /\ clock <= q.since + Lag /\ q.key # NoRow
      /\ q.key \in Keys /\ Minted(q.key) /\ keys[q.key].revoked_at \in Nat \cup {NoRow}
      /\ Revoked(q.key) => q.since < keys[q.key].revoked_at + TTL + Lag
  BY <1>1 DEF KeyInv, AdmissionInv, Admitting, AccountInv, RowTypes
<1>3. EdgeCacheInv'
  <2>1. DOMAIN kv' = {"key", "credit"} /\ kv'.key = kv.key
    BY DEF EdgeCredit, EdgeCreditPut, edgeVars, KeyInv, EdgeCacheInv
  <2> QED BY <1>1, <2>1 DEF KeyInv, EdgeCacheInv, Revoked, Minted
<1>4. req[r] # Free
  <2>1. Free.pc = "free"
    BY DEF Free
  <2> QED BY <1>1, <2>1
<1>5. PICK x :
         /\ req' = [req EXCEPT ![r] = x]
         /\ \/ x.pc = "credit put" /\ x.key = q.key /\ x.since = q.since
            \/ x.pc = "forward" /\ x.key = q.key
            \/ x.pc = "free"
  <2>1. \A open : Forwarded(q, open).pc = "forward" /\ Forwarded(q, open).key = q.key
    BY DEF Forwarded
  <2>2. Free.pc = "free"
    BY DEF Free
  <2>3. \A v, f : LET x == [pc |-> "credit put", key |-> q.key, since |-> q.since,
                            value |-> v, failed |-> f]
                  IN  x.pc = "credit put" /\ x.key = q.key /\ x.since = q.since
    OBVIOUS
  <2>4. CASE EdgeCredit(r)
    <3> DEFINE row == kv.credit[keys[q.key].org]
    <3>1. CASE Unexpired(row)
      <4>1. req' = [req EXCEPT ![r] = IF row.value > 0 THEN Forwarded(q, row.failed) ELSE Free]
        BY <2>4, <3>1 DEF EdgeCredit
      <4> HIDE DEF row, q
      <4> QED BY <2>1, <2>2, <4>1
    <3>2. CASE ~Unexpired(row)
      <4>1. PICK failed \in BOOLEAN :
              req' = [req EXCEPT ![r] =
                  [pc |-> "credit put", key |-> q.key, since |-> q.since,
                   value |-> IF failed THEN 1 ELSE EdgeRemaining(keys[q.key].org),
                   failed |-> failed]]
        BY <2>4, <3>2 DEF EdgeCredit
      <4> QED BY <2>3, <4>1, ZenonT(40)
    <3> QED BY <3>1, <3>2
  <2>5. CASE EdgeCreditPut(r)
    <3>1. req' = [req EXCEPT ![r] = IF q.value > 0 THEN Forwarded(q, q.failed) ELSE Free]
      BY <2>5 DEF EdgeCreditPut
    <3> HIDE DEF q
    <3> QED BY <2>1, <2>2, <3>1
  <2> QED BY <2>4, <2>5
<1>6. \A z \in Requests : req'[z] = IF z = r THEN x ELSE req[z]
  BY <1>1, <1>5
<1>7. AdmissionInv'
  <2>1. CASE x.pc = "credit put"
    BY <1>1, <1>2, <1>5, <2>1, InsideKeepsAdmissionInv
  <2>2. CASE x.pc # "credit put"
    <3>1. x.pc \in {"forward", "free"}
      BY <1>5, <2>2
    <3>2. DOMAIN req' = Requests
      BY <1>1, <1>5
    <3> QED BY <1>1, <1>6, <3>1, <3>2 DEF KeyInv, AdmissionInv, Admitting, Revoked, Minted
  <2> QED BY <2>1, <2>2
<1>8. Revoked(q.key) => clock < keys[q.key].revoked_at + TTL + 2 * Lag
  <2> SUFFICES ASSUME Revoked(q.key) PROVE clock < keys[q.key].revoked_at + TTL + 2 * Lag
    OBVIOUS
  <2>1. keys[q.key].revoked_at \in Nat /\ q.since < keys[q.key].revoked_at + TTL + Lag
    BY <1>2 DEF Revoked
  <2>2. q.since \in Nat /\ clock <= q.since + Lag /\ clock \in Nat
    BY <1>1, <1>2
  <2> HIDE DEF q
  <2> QED BY <2>1, <2>2
<1>9. KeyWindow
  <2> HIDE DEF q
  <2> SUFFICES ASSUME NEW z \in Requests, req'[z].pc = "forward", req[z] # req'[z],
                      keys[req'[z].key].revoked_at # NoRow
               PROVE  clock < keys[req'[z].key].revoked_at + TTL + 2 * Lag
    BY <1>4, <1>6 DEF KeyWindow
  <2>1. z = r /\ req'[z].key = q.key
    BY <1>5, <1>6
  <2> QED BY <1>8, <2>1 DEF Revoked
<1> QED BY <1>3, <1>7, <1>9

(* The steps that answer a request do not admit one *)
LEMMA AnsweringKeepsKeyInv ==
    ASSUME KeyInv, NEW r \in Requests, req[r] # Free,
           UNCHANGED <<users, orgs, keys, thread, clock, kv, resolved>>,
           NEW x, req' = [req EXCEPT ![r] = x],
           x.pc \notin {"key put", "credit", "credit put", "forward"}
    PROVE  ResolverInv' /\ EdgeCacheInv' /\ AdmissionInv' /\ KeyWindow
<1>1. \A z \in Requests : req'[z] = IF z = r THEN x ELSE req[z]
  BY DEF KeyInv, AdmissionInv
<1>2. KeyWindow
  BY <1>1 DEF KeyWindow
<1> QED BY <1>2, OutsideKeepsKeyInv, ResolverUnchanged

(* An answer frees the request or moves it along, away from the gate *)
LEMMA AnsweringMoves ==
    ASSUME NEW r \in Requests,
           \/ \E raw, img, text : Body(r, raw, img, text)
           \/ BackendAnswers(r) \/ BackendFails(r) \/ Record(r) \/ EdgeDone(r)
    PROVE  /\ req[r] # Free /\ UNCHANGED <<users, orgs, keys, thread, clock, kv, resolved>>
           /\ UNCHANGED <<front, exhausted>>
           /\ \E x : /\ req' = [req EXCEPT ![r] = x]
                     /\ x.pc \notin {"key put", "credit", "credit put", "forward"}
<1> DEFINE Outside == {"key put", "credit", "credit put", "forward"}
<1>0. Free.pc = "free" /\ "free" \notin Outside
  BY DEF Free
<1>1. /\ req[r] # Free /\ UNCHANGED <<users, orgs, keys, thread, clock, kv, resolved>>
      /\ UNCHANGED <<front, exhausted>>
  BY <1>0 DEF Body, BackendAnswers, BackendFails, Record, EdgeDone, cpVars, tables, edgeVars
<1>2. ASSUME NEW sess, NEW img, NEW text, NEW hit, NEW answer,
             Complete(r, sess, img, text, hit, answer)
      PROVE  \E x : req' = [req EXCEPT ![r] = x] /\ x.pc \notin Outside
  <2>1. CASE accounts
    <3> DEFINE p == req[r].proc
               x == [pc |-> "record", proc |-> p, key |-> req[r].key, day |-> today,
                     usd |-> IF hit THEN 0 ELSE Cost, hit |-> hit, asked |-> <<img, text>>,
                     answer |-> answer, row |-> usage[<<req[r].key, today>>]]
    <3>1. req' = [req EXCEPT ![r] = x]
      BY <1>2, <2>1 DEF Complete
    <3>2. x.pc = "record"
      OBVIOUS
    <3> HIDE DEF x
    <3> QED BY <3>1, <3>2
  <2>2. CASE ~accounts
    <3>1. req' = [req EXCEPT ![r] = Free]
      BY <1>2, <2>2 DEF Complete
    <3> QED BY <1>0, <3>1
  <2> QED BY <2>1, <2>2
<1>3. \E x : req' = [req EXCEPT ![r] = x] /\ x.pc \notin Outside
  <2>1. ASSUME NEW raw, NEW img, NEW text, Body(r, raw, img, text)
        PROVE  \E x : req' = [req EXCEPT ![r] = x] /\ x.pc \notin Outside
    <3> DEFINE p == req[r].proc
               sess == <<req[r].tenant.name, raw>>
               x == [pc |-> "backend", proc |-> p, key |-> req[r].key,
                     sess |-> sess, img |-> img, text |-> text]
    <3>1. \/ \E hit, answer : Complete(r, sess, img, text, hit, answer)
          \/ req' = [req EXCEPT ![r] = x]
      BY <2>1 DEF Body
    <3>2. x.pc \notin Outside
      OBVIOUS
    <3> HIDE DEF x, Outside
    <3> QED BY <3>1, <3>2, <1>2
  <2>2. CASE BackendAnswers(r)
    BY <2>2, <1>2 DEF BackendAnswers
  <2>3. CASE BackendFails(r) \/ Record(r) \/ EdgeDone(r)
    <3>1. req' = [req EXCEPT ![r] = Free]
      BY <2>3 DEF BackendFails, Record, EdgeDone
    <3> QED BY <1>0, <3>1
  <2> QED BY <2>1, <2>2, <2>3
<1> QED BY <1>1, <1>3

LEMMA AnsweringIsNoAdmission ==
    ASSUME KeyInv, NEW r \in Requests,
           \/ \E raw, img, text : Body(r, raw, img, text)
           \/ BackendAnswers(r) \/ BackendFails(r) \/ Record(r) \/ EdgeDone(r)
    PROVE  ResolverInv' /\ EdgeCacheInv' /\ AdmissionInv' /\ KeyWindow
<1>1. /\ req[r] # Free /\ UNCHANGED <<users, orgs, keys, thread, clock, kv, resolved>>
      /\ \E x : /\ req' = [req EXCEPT ![r] = x]
                /\ x.pc \notin {"key put", "credit", "credit put", "forward"}
  BY AnsweringMoves
<1> QED BY <1>1, AnsweringKeepsKeyInv

LEMMA TickKeepsKeyInv ==
    ASSUME KeyInv, Tick
    PROVE  ResolverInv' /\ EdgeCacheInv' /\ AdmissionInv' /\ KeyWindow
<1> USE GatewayAssumption
<1>1. clock \in Nat /\ clock' = clock + 1 /\ UNCHANGED <<keys, resolved, req, kv>>
  BY DEF Tick, tables, gwVars, edgeVars, KeyInv, AccountInv, RowTypes
<1>2. ResolverInv'
  BY <1>1 DEF KeyInv, ResolverInv, Revoked, Minted
<1>3. EdgeCacheInv'
  BY <1>1 DEF KeyInv, EdgeCacheInv, Revoked, Minted
<1>4. AdmissionInv'
  <2>1. \A r \in Requests : Admitting(r) => clock < req[r].since + Lag
    BY DEF Tick
  <2>2. ASSUME NEW r \in Requests, Admitting(r)
        PROVE  /\ req[r].since \in Nat /\ req[r].since <= clock + 1
               /\ clock + 1 <= req[r].since + Lag
    <3>1. req[r].since \in Nat /\ req[r].since <= clock
      BY <2>2 DEF KeyInv, AdmissionInv
    <3> QED BY <1>1, <2>1, <2>2, <3>1
  <2> QED BY <1>1, <2>2 DEF KeyInv, AdmissionInv, Admitting, Revoked, Minted
<1>5. KeyWindow
  BY <1>1 DEF KeyWindow
<1> QED BY <1>2, <1>3, <1>4, <1>5

LEMMA KeyInvInit == Init => KeyInv
<1> SUFFICES ASSUME Init PROVE KeyInv
  OBVIOUS
<1>1. AccountInv
  BY AccountInvInit
<1>2. ResolverInv
  BY DEF Init, ResolverInv
<1>3. EdgeCacheInv
  BY DEF Init, EdgeCacheInv
<1>4. AdmissionInv
  BY DEF Init, AdmissionInv, Admitting, Free
<1> QED BY <1>1, <1>2, <1>3, <1>4 DEF KeyInv

LEMMA KeyInvNext == KeyInv /\ [Next]_vars => KeyInv' /\ KeyWindow
<1> SUFFICES ASSUME KeyInv, [Next]_vars PROVE KeyInv' /\ KeyWindow
  OBVIOUS
<1> DEFINE Goal == ResolverInv' /\ EdgeCacheInv' /\ AdmissionInv' /\ KeyWindow
<1>1. AccountInv'
  BY AccountInvNext DEF KeyInv
<1>2. ASSUME UNCHANGED <<resolved, kv, req, clock>> PROVE Goal
  <2>1. KeyWindow
    BY <1>2 DEF KeyWindow
  <2> QED BY <1>2, <2>1, ControlKeepsKeyInv
<1>3. CASE ControlNext /\ UNCHANGED gwVars
  <2>1. clock' = clock
    BY <1>3 DEF ControlNext, SignupSelect, SignupCommit, OrgFromKey, RevokeKey, RotateKey, CreateKey
  <2> QED BY <1>1, <1>2, <1>3, <2>1 DEF gwVars, edgeVars, KeyInv
<1>4. CASE ControlAlone /\ UNCHANGED gwVars
  <2>1. clock' = clock
    BY <1>4 DEF ControlAlone, SignupSelect, SignupCommit, OrgFromKey, RevokeKey
  <2> QED BY <1>1, <1>2, <1>4, <2>1 DEF gwVars, edgeVars, KeyInv
<1>5. CASE Tick
  BY <1>1, <1>5, TickKeepsKeyInv DEF KeyInv
<1>6. CASE EdgeNext
  <2>1. ASSUME NEW r \in Requests, NEW s \in Keys, EdgeKey(r, s) PROVE Goal
    <3>1. UNCHANGED <<keys, clock, resolved>>
      BY <2>1 DEF EdgeKey, cpVars, tables
    <3> QED BY <2>1, <3>1, EdgeKeyIsTimely, ResolverUnchanged
  <2>2. ASSUME NEW r \in Requests, EdgeKeyPut(r) PROVE Goal
    <3>1. UNCHANGED <<keys, clock, resolved>>
      BY <2>2 DEF EdgeKeyPut, cpVars, tables
    <3> QED BY <2>2, <3>1, EdgeKeyPutIsTimely, ResolverUnchanged
  <2>3. ASSUME NEW r \in Requests, EdgeCredit(r) \/ EdgeCreditPut(r) PROVE Goal
    <3>1. UNCHANGED <<keys, clock, resolved>>
      BY <2>3 DEF EdgeCredit, EdgeCreditPut, cpVars, tables
    <3> QED BY <2>3, <3>1, EdgeCreditIsTimely, ResolverUnchanged
  <2>4. ASSUME NEW r \in Requests, EdgeDone(r) PROVE Goal
    BY <2>4, AnsweringIsNoAdmission
  <2>5. ASSUME NEW k \in Keys, GatewayCharges(k) PROVE Goal
    BY <2>5, <1>2 DEF GatewayCharges
  <2> QED BY <1>1, <1>6, <2>1, <2>2, <2>3, <2>4, <2>5 DEF EdgeNext, KeyInv
<1>7. ASSUME NEW r \in Requests, NEW p \in Procs, NEW s \in Secrets, ArriveAccounts(r, p, s)
      PROVE  Goal
  BY <1>7, ArrivalIsTimely
<1>8. ASSUME NEW r \in Requests, NEW p \in Procs, NEW s \in Secrets, ArriveStatic(r, p, s)
      PROVE  Goal
  <2>1. /\ UNCHANGED <<users, orgs, keys, thread, clock, kv, resolved>> /\ ~accounts
    BY <1>8 DEF ArriveStatic, cpVars, tables, edgeVars, accounts
  <2>2. PICK tenant :
          req' = [req EXCEPT ![r] = [pc |-> "body", proc |-> p, key |-> NoRow, tenant |-> tenant]]
    BY <1>8 DEF ArriveStatic, Admitted
  <2> DEFINE x == [pc |-> "body", proc |-> p, key |-> NoRow, tenant |-> tenant]
  <2>3. x.pc = "body"
    OBVIOUS
  <2> HIDE DEF x
  <2>4. EdgeCacheInv' /\ AdmissionInv'
    BY <2>1, <2>2, <2>3, OutsideKeepsKeyInv DEF x
  <2>5. KeyWindow
    <3>1. \A z \in Requests : req'[z] = IF z = r THEN x ELSE req[z]
      BY <2>2 DEF x, KeyInv, AdmissionInv
    <3> QED BY <2>1, <2>3, <3>1 DEF KeyWindow
  <2> QED BY <2>1, <2>4, <2>5, ResolverUnchanged
<1>9. ASSUME NEW r \in Requests, NEW raw, NEW img, NEW text, Body(r, raw, img, text) PROVE Goal
  BY <1>9, AnsweringIsNoAdmission
<1>10. ASSUME NEW r \in Requests, BackendAnswers(r) \/ BackendFails(r) \/ Record(r) PROVE Goal
  BY <1>10, AnsweringIsNoAdmission
<1>11. CASE UNCHANGED vars
  BY <1>1, <1>2, <1>11 DEF vars, cpVars, gwVars, edgeVars, KeyInv
<1> QED
  BY <1>1, <1>3, <1>4, <1>5, <1>6, <1>7, <1>8, <1>9, <1>10, <1>11 DEF Next, KeyInv

(* A revoked key dies with the caches that hold it: within the TTL at      *)
(* every gateway process, however many there are and in whatever order     *)
(* they look it up, and within the TTL and two requests at the edge        *)
(* (resolver.py, resolve; keys.ts, resolveKey).                            *)
THEOREM RevokedKeysDie == Spec => [][KeyWindow]_vars
<1>1. KeyInv /\ [Next]_vars => KeyInv' /\ [KeyWindow]_vars
  BY KeyInvNext
<1> QED BY <1>1, KeyInvInit, PTL DEF Spec
-----------------------------------------------------------------------------
(* What a cached completion is the answer to *)

(* An org keeps the name it signed up with, which is the tenant's, so a    *)
(* request looks only at entries of sessions that exist.                   *)
CacheInv ==
    /\ DOMAIN cached = Procs
    /\ \A p \in Procs : DOMAIN cached[p] = Sessions
    /\ \A o \in Orgs : orgs[o] # NoRow => orgs[o].name \in Names
    /\ \A r \in Requests : req[r].pc = "body" =>
          req[r].proc \in Procs /\ req[r].tenant.name \in Tenants
    /\ HitIsGenuine

LEMMA NamesStay ==
    ASSUME AccountInv, CacheInv, ControlNext \/ ControlAlone
    PROVE  \A o \in Orgs : orgs'[o] # NoRow => orgs'[o].name \in Names
<1>1. CASE UNCHANGED orgs
  BY <1>1 DEF CacheInv
<1>2. ASSUME NEW t \in Threads, SignupCommit(t)
      PROVE  \A o \in Orgs : orgs'[o] # NoRow => orgs'[o].name \in Names
  <2>1. \/ UNCHANGED orgs
        \/ \E n \in Names, o \in Orgs :
              orgs' = [orgs EXCEPT ![o] = [name |-> n, granted |-> FreeCredit]]
    BY <1>2 DEF SignupCommit, Unused, AccountInv, RowTypes
  <2>2. ASSUME NEW n \in Names, NEW o \in Orgs,
               orgs' = [orgs EXCEPT ![o] = [name |-> n, granted |-> FreeCredit]]
        PROVE  \A x \in Orgs : orgs'[x] # NoRow => orgs'[x].name \in Names
    BY <2>2 DEF CacheInv, AccountInv, RowTypes
  <2> QED BY <1>1, <2>1, <2>2
<1>3. ASSUME NEW t \in Threads, NEW i \in Identities, SignupSelect(t, i)
      PROVE  UNCHANGED orgs
  BY <1>3 DEF SignupSelect, tables
<1>4. ASSUME NEW t \in Threads, NEW k \in Keys, OrgFromKey(t, k) \/ RevokeKey(t, k) \/ RotateKey(t, k)
      PROVE  UNCHANGED orgs
  BY <1>4 DEF OrgFromKey, RevokeKey, RotateKey, tables
<1>5. ASSUME NEW t \in Threads, CreateKey(t) PROVE UNCHANGED orgs
  BY <1>5 DEF CreateKey
<1> QED BY <1>1, <1>2, <1>3, <1>4, <1>5 DEF ControlNext, ControlAlone

(* A request that goes anywhere but into record *)
LEMMA MovesKeepCacheInv ==
    ASSUME KeyInv, CacheInv, UNCHANGED <<orgs, cached>>,
           NEW r \in Requests, NEW x, req' = [req EXCEPT ![r] = x], x.pc # "record",
           x.pc = "body" => x.proc \in Procs /\ x.tenant.name \in Tenants
    PROVE  CacheInv'
<1>1. \A z \in Requests : req'[z] = IF z = r THEN x ELSE req[z]
  BY DEF KeyInv, AdmissionInv
<1> QED BY <1>1 DEF CacheInv, HitIsGenuine

LEMMA CompleteIsGenuine ==
    ASSUME KeyInv, CacheInv, UNCHANGED orgs, NEW r \in Requests, NEW sess, NEW img, NEW text,
           NEW hit, Complete(r, sess, img, text, hit, <<img, text>>)
    PROVE  CacheInv'
<1> DEFINE row == [img |-> img, text |-> text, answer |-> <<img, text>>]
<1>1. /\ DOMAIN cached' = Procs
      /\ \A p \in Procs : DOMAIN cached'[p] = Sessions
      /\ \A p \in Procs, s \in Sessions : cached'[p][s] = cached[p][s] \/ cached'[p][s] = row
  BY DEF Complete, CacheInv
<1>2. \A p \in Procs, s \in Sessions : cached'[p][s] # NoRow =>
          cached'[p][s].answer = <<cached'[p][s].img, cached'[p][s].text>>
  <2>1. row.answer = <<row.img, row.text>>
    OBVIOUS
  <2> HIDE DEF row
  <2> QED BY <1>1, <2>1 DEF CacheInv, HitIsGenuine
<1>3. PICK x : /\ req' = [req EXCEPT ![r] = x]
               /\ x.pc # "body" /\ (x.pc = "record" => x.answer = x.asked)
  <2>1. CASE accounts
    <3> DEFINE x == [pc |-> "record", proc |-> req[r].proc, key |-> req[r].key, day |-> today,
                     usd |-> IF hit THEN 0 ELSE Cost, hit |-> hit, asked |-> <<img, text>>,
                     answer |-> <<img, text>>, row |-> usage[<<req[r].key, today>>]]
    <3>1. req' = [req EXCEPT ![r] = x]
      BY <2>1 DEF Complete
    <3>2. x.pc = "record" /\ x.answer = x.asked
      OBVIOUS
    <3> HIDE DEF x
    <3> QED BY <3>1, <3>2
  <2>2. CASE ~accounts
    <3>1. req' = [req EXCEPT ![r] = Free]
      BY <2>2 DEF Complete
    <3>2. Free.pc = "free"
      BY DEF Free
    <3> QED BY <3>1, <3>2
  <2> QED BY <2>1, <2>2
<1>4. \A z \in Requests : req'[z] = IF z = r THEN x ELSE req[z]
  BY <1>3 DEF KeyInv, AdmissionInv
<1> HIDE DEF row
<1> QED BY <1>1, <1>2, <1>3, <1>4 DEF CacheInv, HitIsGenuine

LEMMA BodyIsGenuine ==
    ASSUME KeyInv, CacheInv, NEW r \in Requests, NEW raw \in RawSessions, NEW img, NEW text,
           Body(r, raw, img, text)
    PROVE  CacheInv'
<1> DEFINE p == req[r].proc
           sess == <<req[r].tenant.name, raw>>
<1>1. p \in Procs /\ sess \in Sessions /\ UNCHANGED orgs
  BY DEF Body, CacheInv, Sessions, cpVars, tables
<1>2. CASE IsHit(p, sess, img, text)
  <2>1. cached[p][sess].answer = <<img, text>>
    BY <1>1, <1>2 DEF IsHit, CacheInv, HitIsGenuine
  <2>2. Complete(r, sess, img, text, TRUE, cached[p][sess].answer)
    BY <1>2 DEF Body
  <2> QED BY <1>1, <2>1, <2>2, CompleteIsGenuine
<1>3. CASE ~IsHit(p, sess, img, text) /\ req[r].tenant.uses_mock
  <2>1. Complete(r, sess, img, text, FALSE, <<img, text>>)
    BY <1>3 DEF Body
  <2> QED BY <1>1, <2>1, CompleteIsGenuine
<1>4. CASE ~IsHit(p, sess, img, text) /\ ~req[r].tenant.uses_mock
  <2> DEFINE x == [pc |-> "backend", proc |-> p, key |-> req[r].key,
                   sess |-> sess, img |-> img, text |-> text]
  <2>1. req' = [req EXCEPT ![r] = x] /\ UNCHANGED cached
    BY <1>4 DEF Body
  <2>2. x.pc = "backend"
    OBVIOUS
  <2> HIDE DEF x
  <2> QED BY <1>1, <2>1, <2>2, MovesKeepCacheInv
<1> QED BY <1>2, <1>3, <1>4

(* A request is admitted for the tenant of an org that exists *)
LEMMA ArrivalIsATenants ==
    ASSUME KeyInv, CacheInv, NEW r \in Requests, NEW p \in Procs, NEW s \in Secrets,
           ArriveAccounts(r, p, s) \/ ArriveStatic(r, p, s)
    PROVE  CacheInv'
<1>1. UNCHANGED <<orgs, cached>>
  BY DEF ArriveAccounts, ArriveStatic, cpVars, tables
<1>2. ASSUME NEW k, NEW tenant, tenant.name \in Tenants, Admitted(r, p, k, tenant)
      PROVE  CacheInv'
  <2> DEFINE x == [pc |-> "body", proc |-> p, key |-> k, tenant |-> tenant]
  <2>1. req' = [req EXCEPT ![r] = x]
    BY <1>2 DEF Admitted
  <2>2. x.pc = "body" /\ x.proc = p /\ x.tenant = tenant
    OBVIOUS
  <2> HIDE DEF x
  <2> QED BY <1>1, <1>2, <2>1, <2>2, MovesKeepCacheInv
<1>3. CASE ArriveAccounts(r, p, s)
  <2> DEFINE k == Resolve(p, s).key
  <2>1. UNCHANGED req \/ (k # NoRow /\ Admitted(r, p, k, AccountTenant(k)))
    BY <1>3 DEF ArriveAccounts
  <2>2. CASE UNCHANGED req
    BY <1>1, <2>2 DEF CacheInv, HitIsGenuine
  <2>3. CASE k # NoRow /\ Admitted(r, p, k, AccountTenant(k))
    <3>1. k \in Keys /\ Minted(k)
      <4>1. CASE Fresh(p, s)
        BY <2>3, <4>1 DEF Resolve, Fresh, KeyInv, ResolverInv
      <4>2. CASE ~Fresh(p, s)
        BY <2>3, <4>2 DEF Resolve, Lookup, Active
      <4> QED BY <4>1, <4>2
    <3>2. keys[k].org \in Orgs /\ orgs[keys[k].org] # NoRow
      BY <3>1 DEF KeyInv, AccountInv, RowTypes
    <3>3. AccountTenant(k).name \in Tenants
      BY <3>2 DEF AccountTenant, CacheInv, Tenants
    <3> QED BY <1>2, <2>3, <3>3
  <2> QED BY <2>1, <2>2, <2>3
<1>4. CASE ArriveStatic(r, p, s)
  <2>1. PICK tenant \in StaticTenants(s) : Admitted(r, p, NoRow, tenant)
    BY <1>4 DEF ArriveStatic
  <2>2. tenant.name \in Tenants
    BY DEF StaticTenants, Tenants
  <2> QED BY <1>2, <2>1, <2>2
<1> QED BY <1>3, <1>4

(* At the edge no request waits for a body or to be recorded *)
LEMMA EdgeKeepsCacheInv ==
    ASSUME KeyInv, CacheInv, EdgeNext PROVE CacheInv'
<1>1. UNCHANGED <<orgs, cached>>
  BY DEF EdgeNext, EdgeKey, EdgeKeyPut, EdgeCredit, EdgeCreditPut, EdgeDone, GatewayCharges,
         cpVars, tables
<1>2. Free.pc = "free" /\ \A q, open : Forwarded(q, open).pc = "forward"
  BY DEF Free, Forwarded
<1>3. ASSUME NEW r \in Requests, NEW x, req' = [req EXCEPT ![r] = x], x.pc \notin {"record", "body"}
      PROVE  CacheInv'
  BY <1>1, <1>3, MovesKeepCacheInv
<1>4. ASSUME NEW r \in Requests, req' = [req EXCEPT ![r] = Free] PROVE CacheInv'
  BY <1>2, <1>3, <1>4
<1>5. ASSUME NEW r \in Requests, NEW s \in Keys, EdgeKey(r, s) PROVE CacheInv'
  <2> DEFINE put == [pc |-> "key put", asked |-> s, key |-> EdgeLookup(s), since |-> clock]
             credit == [pc |-> "credit", key |-> kv.key[s].key, since |-> clock]
  <2>1. \/ req' = [req EXCEPT ![r] = put] \/ req' = [req EXCEPT ![r] = credit]
        \/ req' = [req EXCEPT ![r] = Free]
    <3>1. CASE ~Unexpired(kv.key[s])
      BY <1>5, <3>1 DEF EdgeKey
    <3>2. CASE Unexpired(kv.key[s]) /\ kv.key[s].key # NoRow
      BY <1>5, <3>2 DEF EdgeKey
    <3>3. CASE Unexpired(kv.key[s]) /\ kv.key[s].key = NoRow
      BY <1>5, <3>3 DEF EdgeKey
    <3> QED BY <3>1, <3>2, <3>3
  <2>2. put.pc = "key put" /\ credit.pc = "credit"
    OBVIOUS
  <2> HIDE DEF put, credit
  <2> QED BY <1>3, <1>4, <2>1, <2>2
<1>6. ASSUME NEW r \in Requests, EdgeKeyPut(r) PROVE CacheInv'
  <2> DEFINE credit == [pc |-> "credit", key |-> req[r].key, since |-> req[r].since]
  <2>1. req' = [req EXCEPT ![r] = credit] \/ req' = [req EXCEPT ![r] = Free]
    BY <1>6 DEF EdgeKeyPut
  <2>2. credit.pc = "credit"
    OBVIOUS
  <2> HIDE DEF credit
  <2> QED BY <1>3, <1>4, <2>1, <2>2
<1>7. ASSUME NEW r \in Requests, EdgeCredit(r) PROVE CacheInv'
  <2> DEFINE row == kv.credit[keys[req[r].key].org]
             put(v, f) == [pc |-> "credit put", key |-> req[r].key, since |-> req[r].since,
                           value |-> v, failed |-> f]
  <2>1. \A v, f : put(v, f).pc = "credit put"
    OBVIOUS
  <2>2. CASE Unexpired(row)
    <3>1. req' = [req EXCEPT ![r] = Forwarded(req[r], row.failed)] \/ req' = [req EXCEPT ![r] = Free]
      BY <1>7, <2>2 DEF EdgeCredit
    <3> QED BY <1>2, <1>3, <1>4, <3>1
  <2>3. CASE ~Unexpired(row)
    <3>1. PICK failed \in BOOLEAN : req' = [req EXCEPT ![r] =
             put(IF failed THEN 1 ELSE EdgeRemaining(keys[req[r].key].org), failed)]
      BY <1>7, <2>3 DEF EdgeCredit
    <3> HIDE DEF put
    <3> QED BY <1>3, <2>1, <3>1
  <2> QED BY <2>2, <2>3
<1>8. ASSUME NEW r \in Requests, EdgeCreditPut(r) \/ EdgeDone(r) PROVE CacheInv'
  <2>1. req' = [req EXCEPT ![r] = Forwarded(req[r], req[r].failed)] \/ req' = [req EXCEPT ![r] = Free]
    BY <1>8 DEF EdgeCreditPut, EdgeDone
  <2> QED BY <1>2, <1>3, <1>4, <2>1
<1>9. ASSUME NEW k \in Keys, GatewayCharges(k) PROVE CacheInv'
  BY <1>1, <1>9 DEF GatewayCharges, CacheInv, HitIsGenuine
<1> QED BY <1>5, <1>6, <1>7, <1>8, <1>9 DEF EdgeNext

LEMMA CacheInvNext == KeyInv /\ CacheInv /\ [Next]_vars => CacheInv'
<1> SUFFICES ASSUME KeyInv, CacheInv, [Next]_vars PROVE CacheInv'
  OBVIOUS
<1>1. CASE (ControlNext \/ ControlAlone) /\ UNCHANGED gwVars
  BY <1>1, NamesStay DEF gwVars, KeyInv, CacheInv, HitIsGenuine
<1>2. CASE Tick
  BY <1>2 DEF Tick, tables, gwVars, CacheInv, HitIsGenuine
<1>3. ASSUME NEW r \in Requests, BackendAnswers(r) PROVE CacheInv'
  BY <1>3, CompleteIsGenuine DEF BackendAnswers, cpVars, tables
<1>4. ASSUME NEW r \in Requests, BackendFails(r) \/ Record(r) PROVE CacheInv'
  <2>1. req' = [req EXCEPT ![r] = Free] /\ UNCHANGED <<orgs, cached>>
    BY <1>4 DEF BackendFails, Record, cpVars, tables
  <2>2. Free.pc = "free"
    BY DEF Free
  <2> QED BY <2>1, <2>2, MovesKeepCacheInv
<1>5. CASE UNCHANGED vars
  BY <1>5 DEF vars, cpVars, tables, gwVars, CacheInv, HitIsGenuine
<1> QED BY <1>1, <1>2, <1>3, <1>4, <1>5, BodyIsGenuine, ArrivalIsATenants, EdgeKeepsCacheInv DEF Next

LEMMA CacheInvInit == Init => CacheInv
  BY ControlAssumption DEF Init, InitControl, CacheInv, HitIsGenuine, Free

(* A completion served from the cache was computed for the very screen and *)
(* text it now answers, however the requests of its session overlap, fail  *)
(* or time out (app.py, chat_completions).                                 *)
THEOREM CachedAnswersAreGenuine == Spec => []HitIsGenuine
<1>1. CacheInv => HitIsGenuine
  BY DEF CacheInv
<1> QED BY <1>1, KeyInvInit, KeyInvNext, CacheInvInit, CacheInvNext, PTL DEF Spec

-----------------------------------------------------------------------------
(* The books of the gateway *)

(* A rollup row, and the shape of an aggregate of the in-memory ledger *)
Row == [requests : Nat, cache_hits : Nat, usd : Nat]

LEMMA IncrementedIsRow ==
    ASSUME NEW row \in Row \cup {NoRow}, NEW usd \in Nat, NEW hit
    PROVE  LET old == IF row = NoRow THEN EmptyRow ELSE row
               new == Incremented(row, usd, hit) IN
           /\ old \in Row /\ new \in Row /\ new # NoRow
           /\ new.requests = old.requests + 1 /\ new.usd = old.usd + usd
<1> DEFINE old == IF row = NoRow THEN EmptyRow ELSE row
<1>1. old \in Row
  BY DEF Row, EmptyRow
<1>2. Incremented(row, usd, hit) =
         [requests |-> old.requests + 1,
          cache_hits |-> old.cache_hits + (IF hit THEN 1 ELSE 0), usd |-> old.usd + usd]
  BY DEF Incremented
<1> HIDE DEF old
<1>3. Incremented(row, usd, hit) \in Row
  BY <1>1, <1>2 DEF Row
<1>4. NoRow \notin Row
  BY ControlAssumption DEF Row
<1> QED BY <1>1, <1>2, <1>3, <1>4 DEF old

(* What a request carries while a process answers it *)
Flying(q) == q.pc \in {"body", "backend", "record"}

Carried(q) ==
    /\ q.proc \in Procs /\ front # "edge"
    /\ accounts => q.key \in Keys /\ Minted(q.key)
    /\ q.pc = "backend" => q.sess \in Sessions
    /\ q.pc = "record" =>
          accounts /\ q.usd \in 0 .. Cost /\ q.day \in Days /\ q.row \in Row \cup {NoRow}

BookInv ==
    /\ accounts => clock <= MaxClock
    /\ \A r \in Requests : Flying(req[r]) => Carried(req[r])
    /\ \A r, s \in Requests :
          req[r].pc = "record" /\ req[s].pc = "record" /\ req[r].proc = req[s].proc => r = s
    /\ DOMAIN usage = Keys \X Days
    /\ \A k \in Keys, d \in Days : usage[<<k, d>>] # NoRow => usage[<<k, d>>] \in Row /\ Minted(k)
    /\ served \in [Procs -> [Keys -> Nat]]

LEMMA BookInvInit == Init => BookInv
<1> SUFFICES ASSUME Init PROVE BookInv
  OBVIOUS
<1>1. \A r \in Requests : req[r].pc = "free"
  BY DEF Init, Free
<1>2. clock = 0 /\ MaxClock \in Nat
  BY ControlAssumption DEF Init, InitControl
<1>3. DOMAIN usage = Keys \X Days /\ \A k \in Keys, d \in Days : usage[<<k, d>>] = NoRow
  BY DEF Init, InitControl
<1>4. served \in [Procs -> [Keys -> Nat]]
  BY DEF Init
<1> QED BY <1>1, <1>2, <1>3, <1>4 DEF BookInv, Flying

(* The day is one of the days of the table *)
LEMMA TodayIsADay ==
    ASSUME KeyInv, BookInv, accounts PROVE today \in Days
<1>1. clock \in Nat /\ MaxClock \in Nat /\ DayLength \in Nat \ {0} /\ clock <= MaxClock
  BY ControlAssumption DEF KeyInv, AccountInv, RowTypes, BookInv
<1>2. \A a, b \in Nat, d \in Nat \ {0} : a <= b => a \div d \in 0 .. b \div d
  <2> SUFFICES ASSUME NEW a \in Nat, NEW b \in Nat, NEW d \in Nat \ {0}, a <= b
               PROVE  a \div d \in 0 .. b \div d
    OBVIOUS
  <2> DEFINE p == a \div d
             q == b \div d
  <2>1. p \in Nat /\ q \in Nat /\ p * d <= a /\ b < (q + 1) * d
    OBVIOUS
  <2> HIDE DEF p, q
  <2>2. ASSUME p > q PROVE FALSE
    <3>1. p - (q + 1) \in Nat
      BY <2>1, <2>2
    <3>2. (p - (q + 1)) * d \in Nat
      BY <3>1
    <3>3. p * d = (p - (q + 1)) * d + (q + 1) * d
      BY <2>1
    <3>4. p * d \in Nat /\ (q + 1) * d \in Nat
      BY <2>1
    <3> QED BY <2>1, <3>2, <3>3, <3>4
  <2>3. p \in 0 .. q
    BY <2>1, <2>2
  <2> QED BY <2>3 DEF p, q
<1> QED BY <1>1, <1>2 DEF today, Days

(* How the steps bear on the books.  Quiet ones do not touch them: a      *)
(* request that comes to be answered was let in while its org had credit.  *)
Quiet ==
    /\ UNCHANGED <<usage, served, store, front, exhausted>>
    /\ accounts => clock' <= MaxClock
    /\ \A r \in Requests : Flying(req'[r]) =>
          /\ Carried(req'[r])
          /\ req'[r].pc = "record" => req'[r] = req[r]
          /\ accounts => \/ Flying(req[r]) /\ req'[r].key = req[r].key
                         \/ quota_ok(keys[req'[r].key].org)

(* A completion is about to be recorded in the rollups ... *)
Selects(r) ==
    /\ UNCHANGED <<keys, usage, served, store, front, exhausted, clock>>
    /\ accounts /\ Flying(req[r]) /\ ~Busy(req[r].proc)
    /\ \E x : /\ req' = [req EXCEPT ![r] = x]
             /\ x.pc = "record" /\ x.proc = req[r].proc /\ x.key = req[r].key
             /\ x.usd \in 0 .. Cost /\ x.day = today /\ x.row = usage[<<x.key, x.day>>]

(* ... or is in the ledger *)
Keeps(r) ==
    /\ UNCHANGED <<keys, usage, served, front, exhausted, clock>>
    /\ ~accounts /\ Flying(req[r])
    /\ req' = [req EXCEPT ![r] = Free]
    /\ \E sess \in Sessions, usd \in Nat, hit \in BOOLEAN :
          store' = [store EXCEPT ![req[r].proc] = StoreRecord(@, sess, usd, hit)]

LEMMA MoveIsQuiet ==
    ASSUME KeyInv, BookInv, UNCHANGED <<keys, usage, served, store, front, clock, exhausted>>,
           NEW r \in Requests, NEW x, req' = [req EXCEPT ![r] = x], x.pc # "record",
           Flying(x) => /\ Carried(x)
                        /\ accounts => \/ Flying(req[r]) /\ x.key = req[r].key
                                       \/ quota_ok(keys[x.key].org)
    PROVE  Quiet
<1>1. \A z \in Requests : req'[z] = IF z = r THEN x ELSE req[z]
  BY DEF KeyInv, AdmissionInv
<1> QED BY <1>1 DEF BookInv, Quiet

LEMMA CompleteBooks ==
    ASSUME KeyInv, BookInv, UNCHANGED <<keys, usage, served, front, exhausted, clock>>,
           NEW r \in Requests, NEW sess \in Sessions, NEW img, NEW text, NEW hit \in BOOLEAN,
           NEW answer, Flying(req[r]), ~Busy(req[r].proc),
           Complete(r, sess, img, text, hit, answer)
    PROVE  Selects(r) \/ Keeps(r)
<1>1. CASE ~accounts
  <2> DEFINE usd == IF hit THEN 0 ELSE Cost
  <2>1. usd \in Nat
    BY GatewayAssumption
  <2>2. /\ req' = [req EXCEPT ![r] = Free]
        /\ store' = [store EXCEPT ![req[r].proc] = StoreRecord(@, sess, usd, hit)]
    BY <1>1 DEF Complete
  <2> HIDE DEF usd
  <2> QED BY <1>1, <2>1, <2>2 DEF Keeps
<1>2. CASE accounts
  <2> DEFINE x == [pc |-> "record", proc |-> req[r].proc, key |-> req[r].key, day |-> today,
                   usd |-> IF hit THEN 0 ELSE Cost, hit |-> hit, asked |-> <<img, text>>,
                   answer |-> answer, row |-> usage[<<req[r].key, today>>]]
  <2>1. req' = [req EXCEPT ![r] = x] /\ UNCHANGED store
    BY <1>2 DEF Complete
  <2>2. /\ x.pc = "record" /\ x.proc = req[r].proc /\ x.key = req[r].key /\ x.day = today
        /\ x.usd = (IF hit THEN 0 ELSE Cost) /\ x.row = usage[<<x.key, x.day>>]
    OBVIOUS
  <2> HIDE DEF x
  <2>3. x.usd \in 0 .. Cost
    BY <2>2, GatewayAssumption
  <2> QED BY <1>2, <2>1, <2>2, <2>3 DEF Selects
<1> QED BY <1>1, <1>2

LEMMA BodyBooks ==
    ASSUME KeyInv, CacheInv, BookInv, NEW r \in Requests, NEW raw \in RawSessions,
           NEW img, NEW text, Body(r, raw, img, text)
    PROVE  Quiet \/ Selects(r) \/ Keeps(r)
<1> DEFINE p == req[r].proc
           sess == <<req[r].tenant.name, raw>>
<1>1. /\ UNCHANGED <<keys, usage, served, front, exhausted, clock>>
      /\ req[r].pc = "body" /\ Flying(req[r]) /\ ~Busy(p)
  BY DEF Body, cpVars, tables, edgeVars, Flying
<1>2. sess \in Sessions
  BY <1>1 DEF CacheInv, Sessions
<1>3. CASE \E hit \in BOOLEAN : \E answer : Complete(r, sess, img, text, hit, answer)
  BY <1>1, <1>2, <1>3, CompleteBooks
<1>4. CASE ~\E hit \in BOOLEAN : \E answer : Complete(r, sess, img, text, hit, answer)
  <2> DEFINE x == [pc |-> "backend", proc |-> p, key |-> req[r].key,
                   sess |-> sess, img |-> img, text |-> text]
  <2>1. req' = [req EXCEPT ![r] = x] /\ UNCHANGED store
    BY <1>4 DEF Body
  <2>2. x.pc = "backend" /\ x.proc = p /\ x.key = req[r].key /\ x.sess = sess
    OBVIOUS
  <2> HIDE DEF x, p, sess
  <2>3. Carried(req[r])
    BY <1>1 DEF BookInv
  <2>4. Carried(x)
    BY <1>2, <2>2, <2>3 DEF Carried, p
  <2> QED BY <1>1, <2>1, <2>2, <2>4, MoveIsQuiet
<1> QED BY <1>3, <1>4

LEMMA ResolvedIsMinted ==
    ASSUME KeyInv, NEW p \in Procs, NEW s \in Secrets, Resolve(p, s).key # NoRow
    PROVE  Resolve(p, s).key \in Keys /\ Minted(Resolve(p, s).key)
<1>1. CASE Fresh(p, s)
  BY <1>1 DEF Resolve, Fresh, KeyInv, ResolverInv
<1>2. CASE ~Fresh(p, s)
  BY <1>2 DEF Resolve, Lookup, Active
<1> QED BY <1>1, <1>2

LEMMA ArrivalBooks ==
    ASSUME KeyInv, BookInv, NEW r \in Requests, NEW p \in Procs, NEW s \in Secrets,
           ArriveAccounts(r, p, s) \/ ArriveStatic(r, p, s)
    PROVE  Quiet
<1>1. UNCHANGED <<keys, usage, served, store, front, clock, exhausted>> /\ front # "edge"
  BY DEF ArriveAccounts, ArriveStatic, accounts, cpVars, tables, edgeVars
<1>2. ASSUME NEW k, NEW tenant, Admitted(r, p, k, tenant),
             accounts => k \in Keys /\ Minted(k) /\ quota_ok(keys[k].org)
      PROVE  Quiet
  <2> DEFINE x == [pc |-> "body", proc |-> p, key |-> k, tenant |-> tenant]
  <2>1. req' = [req EXCEPT ![r] = x]
    BY <1>2 DEF Admitted
  <2>2. x.pc = "body" /\ x.proc = p /\ x.key = k
    OBVIOUS
  <2> HIDE DEF x
  <2>3. Carried(x)
    BY <1>1, <1>2, <2>2 DEF Carried
  <2> QED BY <1>1, <1>2, <2>1, <2>2, <2>3, MoveIsQuiet
<1>3. CASE ArriveAccounts(r, p, s)
  <2> DEFINE k == Resolve(p, s).key
  <2>1. \/ UNCHANGED req
        \/ k # NoRow /\ quota_ok(keys[k].org) /\ Admitted(r, p, k, AccountTenant(k))
    BY <1>3 DEF ArriveAccounts
  <2>2. CASE UNCHANGED req
    BY <1>1, <2>2 DEF BookInv, Quiet
  <2> QED BY <1>2, <2>1, <2>2, ResolvedIsMinted
<1>4. CASE ArriveStatic(r, p, s)
  BY <1>2, <1>4 DEF ArriveStatic, accounts
<1> QED BY <1>3, <1>4

(* At the edge nothing flies, and no move of a request touches the books *)
LEMMA EdgeBooks ==
    ASSUME KeyInv, BookInv, EdgeNext
    PROVE  Quiet \/ \E k \in Keys : GatewayCharges(k)
<1>1. ASSUME NEW r \in Requests, NEW s \in Keys, EdgeKey(r, s) PROVE Quiet
  <2> DEFINE put == [pc |-> "key put", asked |-> s, key |-> EdgeLookup(s), since |-> clock]
             credit == [pc |-> "credit", key |-> kv.key[s].key, since |-> clock]
  <2>1. \E x \in {put, credit, Free} : req' = [req EXCEPT ![r] = x]
    <3>1. CASE ~Unexpired(kv.key[s])
      <4>1. req' = [req EXCEPT ![r] = put]
        BY <1>1, <3>1 DEF EdgeKey
      <4> QED BY <4>1
    <3>2. CASE Unexpired(kv.key[s]) /\ kv.key[s].key # NoRow
      <4>1. req' = [req EXCEPT ![r] = credit]
        BY <1>1, <3>2 DEF EdgeKey
      <4> QED BY <4>1
    <3>3. CASE Unexpired(kv.key[s]) /\ kv.key[s].key = NoRow
      <4>1. req' = [req EXCEPT ![r] = Free]
        BY <1>1, <3>3 DEF EdgeKey
      <4> QED BY <4>1
    <3> QED BY <3>1, <3>2, <3>3
  <2>2. put.pc = "key put" /\ credit.pc = "credit" /\ Free.pc = "free"
    BY DEF Free
  <2>3. UNCHANGED <<keys, usage, served, store, front, clock, exhausted>>
    BY <1>1 DEF EdgeKey, cpVars, tables, edgeVars
  <2> HIDE DEF put, credit
  <2> QED BY <2>1, <2>2, <2>3, MoveIsQuiet DEF Flying
<1>2. ASSUME NEW r \in Requests, EdgeKeyPut(r) \/ EdgeDone(r) PROVE Quiet
  <2> DEFINE credit == [pc |-> "credit", key |-> req[r].key, since |-> req[r].since]
  <2>1. \E x \in {credit, Free} : req' = [req EXCEPT ![r] = x]
    BY <1>2 DEF EdgeKeyPut, EdgeDone
  <2>2. \A x \in {credit, Free} : x.pc \in {"credit", "free"}
    BY DEF Free
  <2>3. UNCHANGED <<keys, usage, served, store, front, clock, exhausted>>
    BY <1>2 DEF EdgeKeyPut, EdgeDone, cpVars, tables, edgeVars
  <2> HIDE DEF credit
  <2> QED BY <2>1, <2>2, <2>3, MoveIsQuiet DEF Flying
<1>3. ASSUME NEW r \in Requests, EdgeCredit(r) \/ EdgeCreditPut(r) PROVE Quiet
  <2> DEFINE put(v, f) == [pc |-> "credit put", key |-> req[r].key, since |-> req[r].since,
                           value |-> v, failed |-> f]
  <2>1. PICK x : /\ req' = [req EXCEPT ![r] = x]
                 /\ x = Free \/ (\E v, f : x = put(v, f)) \/ \E f : x = Forwarded(req[r], f)
    <3>1. CASE EdgeCredit(r)
      <4> DEFINE row == kv.credit[keys[req[r].key].org]
      <4>1. CASE Unexpired(row)
        BY <3>1, <4>1 DEF EdgeCredit
      <4>2. CASE ~Unexpired(row)
        <5>1. PICK failed \in BOOLEAN : req' = [req EXCEPT ![r] =
                 put(IF failed THEN 1 ELSE EdgeRemaining(keys[req[r].key].org), failed)]
          BY <3>1, <4>2 DEF EdgeCredit
        <5> HIDE DEF put
        <5> QED BY <5>1
      <4> QED BY <4>1, <4>2
    <3>2. CASE EdgeCreditPut(r)
      BY <3>2 DEF EdgeCreditPut
    <3> QED BY <1>3, <3>1, <3>2
  <2>2. \A v, f : put(v, f).pc = "credit put" /\ Forwarded(req[r], f).pc = "forward"
    BY DEF Forwarded
  <2>3. Free.pc = "free"
    BY DEF Free
  <2>4. UNCHANGED <<keys, usage, served, store, front, clock, exhausted>>
    BY <1>3 DEF EdgeCredit, EdgeCreditPut, cpVars, tables, edgeVars
  <2> HIDE DEF put
  <2>5. x.pc \in {"free", "credit put", "forward"}
    BY <2>1, <2>2, <2>3
  <2> QED BY <2>1, <2>4, <2>5, MoveIsQuiet DEF Flying
<1> QED BY <1>1, <1>2, <1>3 DEF EdgeNext

LEMMA StepsOfTheBooks ==
    ASSUME KeyInv, CacheInv, BookInv, [Next]_vars
    PROVE  \/ Quiet
           \/ \E r \in Requests : Selects(r) \/ Keeps(r) \/ Record(r)
           \/ \E k \in Keys : GatewayCharges(k)
<1>1. ASSUME UNCHANGED <<usage, served, store, front, exhausted, req>>,
             accounts => clock' <= MaxClock
      PROVE  Quiet
  BY <1>1 DEF BookInv, Quiet
<1>2. CASE (ControlNext \/ ControlAlone) /\ UNCHANGED gwVars
  <2>1. UNCHANGED <<usage, clock>>
    BY <1>2 DEF ControlNext, ControlAlone, SignupSelect, SignupCommit, OrgFromKey, CreateKey,
                RevokeKey, RotateKey, tables
  <2> QED BY <1>1, <1>2, <2>1 DEF gwVars, edgeVars, BookInv
<1>3. CASE Tick
  <2>1. accounts => clock' <= MaxClock
    BY <1>3, ControlAssumption DEF Tick, KeyInv, AccountInv, RowTypes
  <2> QED BY <1>1, <1>3, <2>1 DEF Tick, tables, gwVars, edgeVars
<1>4. ASSUME NEW r \in Requests, BackendAnswers(r) PROVE Selects(r) \/ Keeps(r)
  <2>1. /\ UNCHANGED <<keys, usage, served, front, exhausted, clock>>
        /\ req[r].pc = "backend" /\ Flying(req[r]) /\ ~Busy(req[r].proc)
    BY <1>4 DEF BackendAnswers, cpVars, tables, edgeVars, Flying
  <2>2. req[r].sess \in Sessions
    BY <2>1 DEF BookInv, Carried
  <2> QED BY <1>4, <2>1, <2>2, CompleteBooks DEF BackendAnswers
<1>5. ASSUME NEW r \in Requests, BackendFails(r) PROVE Quiet
  <2>1. /\ UNCHANGED <<keys, usage, served, store, front, clock, exhausted>>
        /\ req' = [req EXCEPT ![r] = Free]
    BY <1>5 DEF BackendFails, cpVars, tables, edgeVars
  <2>2. Free.pc = "free"
    BY DEF Free
  <2> QED BY <2>1, <2>2, MoveIsQuiet DEF Flying
<1>6. CASE UNCHANGED vars
  BY <1>1, <1>6 DEF vars, cpVars, tables, gwVars, edgeVars, BookInv
<1> QED BY <1>2, <1>3, <1>4, <1>5, <1>6, BodyBooks, ArrivalBooks, EdgeBooks DEF Next

LEMMA MintedStay ==
    ASSUME KeyInv, [Next]_vars
    PROVE  \A k \in Keys : Minted(k) => Minted(k)' /\ keys'[k].org = keys[k].org
  BY KeysAge DEF KeyInv

LEMMA BookInvNext == KeyInv /\ CacheInv /\ BookInv /\ [Next]_vars => BookInv'
<1> SUFFICES ASSUME KeyInv, CacheInv, BookInv, [Next]_vars PROVE BookInv'
  OBVIOUS
<1>1. ASSUME UNCHANGED front, NEW q, Carried(q) PROVE Carried(q)'
  BY <1>1, MintedStay DEF Carried, accounts
<1>2. CASE Quiet
  <2>1. \A r \in Requests : (Flying(req[r]) => Carried(req[r]))'
    BY <1>1, <1>2 DEF Quiet
  <2>2. \A r, s \in Requests :
           req'[r].pc = "record" /\ req'[s].pc = "record" /\ req'[r].proc = req'[s].proc => r = s
    BY <1>2 DEF Quiet, BookInv, Flying
  <2> QED BY <1>2, <2>1, <2>2, MintedStay DEF Quiet, BookInv, accounts
<1>3. ASSUME NEW r \in Requests, Selects(r) PROVE BookInv'
  <2>1. PICK x : /\ req' = [req EXCEPT ![r] = x]
                 /\ x.pc = "record" /\ x.proc = req[r].proc /\ x.key = req[r].key
                 /\ x.usd \in 0 .. Cost /\ x.day = today /\ x.row = usage[<<x.key, x.day>>]
    BY <1>3 DEF Selects
  <2>2. accounts /\ Carried(req[r])
    BY <1>3 DEF Selects, BookInv
  <2>3. /\ x.proc \in Procs /\ front # "edge" /\ x.key \in Keys /\ Minted(x.key)
        /\ x.day \in Days
    BY <2>1, <2>2, TodayIsADay DEF Carried
  <2>4. x.row \in Row \cup {NoRow}
    BY <2>1, <2>3 DEF BookInv
  <2>5. Carried(x)
    BY <2>1, <2>2, <2>3, <2>4 DEF Carried
  <2>6. \A z \in Requests : req'[z] = IF z = r THEN x ELSE req[z]
    BY <2>1 DEF KeyInv, AdmissionInv
  <2>7. UNCHANGED front
    BY <1>3 DEF Selects
  <2>8. \A z \in Requests : (Flying(req[z]) => Carried(req[z]))'
    BY <1>1, <2>5, <2>6, <2>7 DEF BookInv
  <2>9. \A z, s \in Requests :
           req'[z].pc = "record" /\ req'[s].pc = "record" /\ req'[z].proc = req'[s].proc => z = s
    BY <1>3, <2>1, <2>6 DEF Selects, BookInv, Busy
  <2> QED BY <1>3, <2>8, <2>9 DEF Selects, BookInv, accounts, Minted
<1>4. ASSUME NEW r \in Requests, req' = [req EXCEPT ![r] = Free], UNCHANGED <<front, clock>>,
             DOMAIN usage' = Keys \X Days,
             \A k \in Keys, d \in Days : usage'[<<k, d>>] # NoRow =>
                usage'[<<k, d>>] \in Row /\ Minted(k),
             served' \in [Procs -> [Keys -> Nat]]
      PROVE  BookInv'
  <2>1. \A z \in Requests : req'[z] = IF z = r THEN Free ELSE req[z]
    BY <1>4 DEF KeyInv, AdmissionInv
  <2>2. ~Flying(Free) /\ Free.pc # "record"
    BY DEF Flying, Free
  <2>3. \A z \in Requests : (Flying(req[z]) => Carried(req[z]))'
    BY <1>1, <1>4, <2>1, <2>2 DEF BookInv
  <2> QED BY <1>4, <2>1, <2>2, <2>3, MintedStay DEF BookInv, accounts
<1>5. ASSUME NEW r \in Requests, Keeps(r) PROVE BookInv'
  BY <1>4, <1>5 DEF Keeps, BookInv
<1>6. ASSUME NEW r \in Requests, Record(r) PROVE BookInv'
  <2> DEFINE q == req[r]
             kd == <<q.key, q.day>>
  <2>1. Carried(q) /\ q.pc = "record"
    BY <1>6 DEF Record, BookInv, Flying
  <2>2. /\ q.proc \in Procs /\ q.key \in Keys /\ q.day \in Days /\ Minted(q.key)
        /\ q.usd \in Nat /\ q.row \in Row \cup {NoRow}
    BY <2>1, GatewayAssumption DEF Carried
  <2>3. UNCHANGED <<front, clock>> /\ req' = [req EXCEPT ![r] = Free]
    BY <1>6 DEF Record
  <2>4. CASE UNCHANGED <<usage, served>>
    BY <1>4, <2>3, <2>4 DEF BookInv
  <2>5. CASE ~UNCHANGED <<usage, served>>
    <3> DEFINE new == Incremented(q.row, q.usd, q.hit)
    <3>1. /\ usage' = [usage EXCEPT ![kd] = new]
          /\ served' = [served EXCEPT ![q.proc][q.key] = @ + 1]
      BY <1>6, <2>5 DEF Record
    <3>2. new \in Row
      BY <2>2, IncrementedIsRow
    <3> HIDE DEF new, q
    <3>3. DOMAIN usage' = Keys \X Days
      BY <3>1 DEF BookInv
    <3>4. \A k \in Keys, d \in Days : usage'[<<k, d>>] # NoRow =>
             usage'[<<k, d>>] \in Row /\ Minted(k)
      BY <2>2, <3>1, <3>2 DEF BookInv
    <3>5. served' \in [Procs -> [Keys -> Nat]]
      BY <2>2, <3>1 DEF BookInv
    <3> QED BY <1>4, <2>3, <3>3, <3>4, <3>5
  <2> QED BY <2>4, <2>5
<1>7. ASSUME NEW k \in Keys, GatewayCharges(k) PROVE BookInv'
  <2> DEFINE new == Incremented(NoRow, Cost, FALSE)
  <2>1. /\ usage' = [usage EXCEPT ![<<k, 0>>] = new] /\ Minted(k) /\ front = "edge"
        /\ UNCHANGED <<keys, clock, front, req, served>>
    BY <1>7 DEF GatewayCharges
  <2>2. new \in Row
    BY IncrementedIsRow, GatewayAssumption
  <2> HIDE DEF new
  <2>3. DOMAIN usage' = Keys \X Days
    BY <2>1 DEF BookInv
  <2>4. \A j \in Keys, d \in Days : usage'[<<j, d>>] # NoRow => usage'[<<j, d>>] \in Row /\ Minted(j)
    BY <2>1, <2>2 DEF BookInv
  <2>5. \A z \in Requests : (Flying(req[z]) => Carried(req[z]))'
    BY <1>1, <2>1 DEF BookInv
  <2> QED BY <2>1, <2>3, <2>4, <2>5 DEF BookInv, accounts, Minted
<1> QED BY <1>2, <1>3, <1>5, <1>6, <1>7, StepsOfTheBooks

-----------------------------------------------------------------------------
(* The ledger of the static gateway *)

Rows(ledger) == {s \in Sessions : ledger.by_session[s] # NoRow}
Requested(ledger) == [s \in Rows(ledger) |-> ledger.by_session[s].requests]
Paid(ledger) == [s \in Rows(ledger) |-> ledger.by_session[s].usd]

Balanced(ledger) ==
    /\ DOMAIN ledger = {"total", "by_session"} /\ ledger.total \in Row
    /\ DOMAIN ledger.by_session = Sessions
    /\ IsFiniteSet(Rows(ledger))
    /\ \A s \in Rows(ledger) : ledger.by_session[s] \in Row
    /\ ledger.total.requests = SumFunction(Requested(ledger))
    /\ ledger.total.usd = SumFunction(Paid(ledger))

StoreInv == DOMAIN store = Procs /\ \A p \in Procs : Balanced(store[p])

LEMMA RowTypeIsNat ==
    \A row \in Row : row.requests \in Nat /\ row.usd \in Nat /\ row # NoRow
  BY ControlAssumption DEF Row

LEMMA SumsOfAFunction ==
    ASSUME NEW f PROVE SumFunction(f) = SumFunctionOnSet(f, DOMAIN f)
  BY DEF SumFunction

(* g is f with one row more, or with more in one row *)
RowAdds(f, g, x, n) ==
    /\ IsFiniteSet(DOMAIN f) /\ n \in Nat
    /\ \A y \in DOMAIN f : f[y] \in Nat
    /\ DOMAIN g = DOMAIN f \cup {x}
    /\ \A y \in DOMAIN f \ {x} : g[y] = f[y]
    /\ g[x] = n + (IF x \in DOMAIN f THEN f[x] ELSE 0)

LEMMA SumGrows ==
    ASSUME NEW f, NEW g, NEW x, NEW n, RowAdds(f, g, x, n)
    PROVE  SumFunction(f) \in Nat /\ SumFunction(g) = SumFunction(f) + n
<1> DEFINE S == DOMAIN f
<1> USE DEF RowAdds
<1> DEFINE R == S \ {x}
           T == S \cup {x}
           old == IF x \in S THEN f[x] ELSE 0
<1>1. Summable(f, S) /\ old \in Nat /\ g[x] = n + old /\ g[x] \in Nat
  BY DEF Summable
<1>2. T \ {x} = R /\ x \in T
  OBVIOUS
<1>3. Summable(f, R)
  BY <1>1, FS_RemoveElement, FS_Subset DEF Summable
<1>4. IsFiniteSet(T)
  BY FS_AddElement
<1>5. Summable(g, T)
  BY <1>1, <1>4 DEF Summable
<1>6. SumFunctionOnSet(g, R) = SumFunctionOnSet(f, R) /\ SumFunctionOnSet(f, R) \in Nat
  BY <1>3, SumSame, SumSplit
<1>7. SumFunctionOnSet(g, T) = g[x] + SumFunctionOnSet(g, R)
  BY <1>2, <1>5, SumSplit
<1>8. SumFunctionOnSet(f, S) = old + SumFunctionOnSet(f, R)
  <2>1. CASE x \in S
    BY <1>1, <2>1, SumSplit
  <2>2. CASE x \notin S
    <3>1. R = S /\ old = 0
      BY <2>2
    <3>2. SumFunctionOnSet(f, S) = SumFunctionOnSet(f, R)
      BY <3>1
    <3> QED BY <1>6, <3>1, <3>2
  <2> QED BY <2>1, <2>2
<1>9. SumFunction(f) = SumFunctionOnSet(f, S) /\ SumFunction(g) = SumFunctionOnSet(g, T)
  BY SumsOfAFunction
<1> HIDE DEF R, T, old
<1> QED BY <1>1, <1>6, <1>7, <1>8, <1>9

LEMMA RecordBalances ==
    ASSUME NEW ledger, Balanced(ledger), NEW sess \in Sessions, NEW usd \in Nat,
           NEW hit \in BOOLEAN
    PROVE  Balanced(StoreRecord(ledger, sess, usd, hit))
<1> DEFINE l2 == StoreRecord(ledger, sess, usd, hit)
           old == ledger.by_session[sess]
           new == Incremented(old, usd, hit)
           was == IF old = NoRow THEN EmptyRow ELSE old
           S == Rows(ledger)
           T == Rows(l2)
<1>1. old \in Row \cup {NoRow}
  BY DEF Balanced, Rows
<1>2. /\ was \in Row /\ new \in Row /\ new # NoRow
      /\ new.requests = was.requests + 1 /\ new.usd = was.usd + usd
  BY <1>1, IncrementedIsRow
<1>3. /\ Incremented(ledger.total, usd, hit) \in Row
      /\ Incremented(ledger.total, usd, hit).requests = ledger.total.requests + 1
      /\ Incremented(ledger.total, usd, hit).usd = ledger.total.usd + usd
  BY IncrementedIsRow, RowTypeIsNat DEF Balanced
<1>4. /\ DOMAIN l2 = {"total", "by_session"}
      /\ l2.total = Incremented(ledger.total, usd, hit)
      /\ l2.by_session = [ledger.by_session EXCEPT ![sess] = new]
  BY DEF StoreRecord, Balanced
<1> HIDE DEF l2, new
<1>5. T = S \cup {sess} /\ sess \in T
  BY <1>2, <1>4 DEF Rows, Balanced
<1>6. l2.by_session[sess] = new /\ \A s \in S \ {sess} : l2.by_session[s] = ledger.by_session[s]
  BY <1>4 DEF Rows, Balanced
<1>7. \A s \in S : ledger.by_session[s] \in Row
  BY DEF Balanced
<1>8. \A s \in T : l2.by_session[s] \in Row
  BY <1>2, <1>5, <1>6, <1>7
<1>9. IsFiniteSet(T)
  BY <1>5, FS_AddElement DEF Balanced
<1>10. sess \in S <=> old # NoRow
  BY DEF Rows
<1>11. l2.total.requests = SumFunction(Requested(l2))
  <2> DEFINE f == Requested(ledger)
             g == Requested(l2)
  <2>1. DOMAIN f = S /\ DOMAIN g = T /\ (\A s \in S : f[s] = ledger.by_session[s].requests)
        /\ \A s \in T : g[s] = l2.by_session[s].requests
    BY DEF Requested
  <2>2. ledger.total.requests = SumFunction(f) /\ IsFiniteSet(S)
    BY DEF Balanced
  <2> HIDE DEF f, g, S, T
  <2>3. (\A s \in S : f[s] \in Nat) /\ \A s \in S \ {sess} : g[s] = f[s]
    BY <1>5, <1>6, <1>7, <2>1, RowTypeIsNat
  <2>4. g[sess] = 1 + was.requests
    BY <1>2, <1>5, <1>6, <2>1, RowTypeIsNat
  <2>5. was.requests = IF sess \in S THEN f[sess] ELSE 0
    BY <1>10, <2>1 DEF EmptyRow
  <2>6. SumFunction(g) = SumFunction(f) + 1
    <3> HIDE DEF was, old
    <3>1. RowAdds(f, g, sess, 1)
      BY <1>5, <2>1, <2>2, <2>3, <2>4, <2>5 DEF RowAdds
    <3> QED BY <3>1, SumGrows
  <2> QED BY <1>3, <1>4, <2>2, <2>6 DEF g
<1>12. l2.total.usd = SumFunction(Paid(l2))
  <2> DEFINE f == Paid(ledger)
             g == Paid(l2)
  <2>1. DOMAIN f = S /\ DOMAIN g = T /\ (\A s \in S : f[s] = ledger.by_session[s].usd)
        /\ \A s \in T : g[s] = l2.by_session[s].usd
    BY DEF Paid
  <2>2. ledger.total.usd = SumFunction(f) /\ IsFiniteSet(S)
    BY DEF Balanced
  <2> HIDE DEF f, g, S, T
  <2>3. (\A s \in S : f[s] \in Nat) /\ \A s \in S \ {sess} : g[s] = f[s]
    BY <1>5, <1>6, <1>7, <2>1, RowTypeIsNat
  <2>4. g[sess] = usd + was.usd
    BY <1>2, <1>5, <1>6, <2>1, RowTypeIsNat
  <2>5. was.usd = IF sess \in S THEN f[sess] ELSE 0
    BY <1>10, <2>1 DEF EmptyRow
  <2>6. SumFunction(g) = SumFunction(f) + usd
    <3> HIDE DEF was, old
    <3>1. RowAdds(f, g, sess, usd)
      BY <1>5, <2>1, <2>2, <2>3, <2>4, <2>5 DEF RowAdds
    <3> QED BY <3>1, SumGrows
  <2> QED BY <1>3, <1>4, <2>2, <2>6 DEF g
<1> HIDE DEF old, was
<1>13. Balanced(l2)
  BY <1>3, <1>4, <1>8, <1>9, <1>11, <1>12 DEF Balanced
<1> QED BY <1>13 DEF l2

LEMMA StoreInvInit == Init => StoreInv
<1> SUFFICES ASSUME Init, NEW p \in Procs PROVE DOMAIN store = Procs /\ Balanced(store[p])
  BY DEF Init, StoreInv
<1> DEFINE l == store[p]
<1>1. DOMAIN store = Procs /\ l = [total |-> EmptyAgg, by_session |-> [s \in Sessions |-> NoRow]]
  BY DEF Init
<1>2. Rows(l) = {} /\ l.total \in Row /\ l.total.requests = 0 /\ l.total.usd = 0
  BY <1>1 DEF Rows, EmptyAgg, Row
<1>3. DOMAIN Requested(l) = {} /\ DOMAIN Paid(l) = {}
  BY <1>2 DEF Requested, Paid
<1>4. SumFunction(Requested(l)) = 0 /\ SumFunction(Paid(l)) = 0
  BY <1>3, SumsOfAFunction, SumEmpty
<1>5. DOMAIN l = {"total", "by_session"} /\ DOMAIN l.by_session = Sessions
  BY <1>1
<1> HIDE DEF l
<1>6. Balanced(l)
  BY <1>2, <1>4, <1>5, FS_EmptySet DEF Balanced
<1> QED BY <1>1, <1>6 DEF l

LEMMA StoreInvNext == KeyInv /\ CacheInv /\ BookInv /\ StoreInv /\ [Next]_vars => StoreInv'
<1> SUFFICES ASSUME KeyInv, CacheInv, BookInv, StoreInv, [Next]_vars PROVE StoreInv'
  OBVIOUS
<1>1. CASE UNCHANGED store
  BY <1>1 DEF StoreInv
<1>2. ASSUME NEW r \in Requests, Keeps(r) PROVE StoreInv'
  <2> DEFINE p == req[r].proc
  <2>1. p \in Procs
    BY <1>2 DEF Keeps, BookInv, Carried
  <2>2. PICK sess \in Sessions, usd \in Nat, hit \in BOOLEAN :
           store' = [store EXCEPT ![p] = StoreRecord(store[p], sess, usd, hit)]
    BY <1>2 DEF Keeps
  <2> HIDE DEF p
  <2>3. Balanced(StoreRecord(store[p], sess, usd, hit))
    BY <2>1, RecordBalances DEF StoreInv
  <2> QED BY <2>1, <2>2, <2>3 DEF StoreInv
<1> QED BY <1>1, <1>2, StepsOfTheBooks DEF Quiet, Selects, Record, GatewayCharges

LEMMA StoreInvBalances == StoreInv => StoreBalances
<1> SUFFICES ASSUME StoreInv, NEW p \in Procs
             PROVE  /\ store[p].total.requests = SumFunction([s \in Rows(store[p]) |-> store[p].by_session[s].requests])
                    /\ store[p].total.usd = SumFunction([s \in Rows(store[p]) |-> store[p].by_session[s].usd])
  BY DEF StoreBalances, Rows
<1> QED BY DEF StoreInv, Balanced, Requested, Paid

-----------------------------------------------------------------------------
(* The rollups *)

\* A part of a sum is no more than the whole.
LEMMA SumPart ==
    ASSUME NEW f, NEW S, Summable(f, S), NEW T \in SUBSET S
    PROVE  Summable(f, T) /\ SumFunctionOnSet(f, T) <= SumFunctionOnSet(f, S)
<1>1. Summable(f, T)
  BY FS_Subset DEF Summable
<1>2. Units(f, T) \subseteq Units(f, S)
  BY DEF Units
<1>3. Cardinality(Units(f, T)) <= Cardinality(Units(f, S))
  BY <1>2, UnitsFinite, FS_Subset
<1> QED BY <1>1, <1>3, SumIsCount

\* A sum of nothing but zeros.
LEMMA SumOfZeros ==
    ASSUME NEW S, IsFiniteSet(S)
    PROVE  SumFunction([x \in S |-> 0]) = 0
<1> DEFINE f == [x \in S |-> 0]
<1>1. Summable(f, S) /\ DOMAIN f = S
  BY DEF Summable
<1>2. Units(f, S) = {}
  BY DEF Units, Worth
<1> HIDE DEF f
<1>3. SumFunctionOnSet(f, S) = 0
  BY <1>1, <1>2, SumIsCount, FS_EmptySet
<1> QED BY <1>1, <1>3, SumsOfAFunction DEF f

LEMMA OnlyOne ==
    ASSUME NEW A, IsFiniteSet(A), Cardinality(A) <= 1, NEW p \in A, NEW q \in A
    PROVE  p = q
<1>1. Cardinality({p}) = 1 /\ {p} \in SUBSET A /\ Cardinality({p}) <= Cardinality(A)
  BY FS_Singleton, FS_Subset
<1>2. Cardinality(A) = 1
  BY <1>1, FS_CardinalityType
<1>3. {p} = A
  BY <1>1, <1>2, FS_Subset
<1> QED BY <1>3

LEMMA DaysFinite == IsFiniteSet(Days)
<1>1. MaxClock \div DayLength \in Int
  BY ControlAssumption
<1> QED BY <1>1, FS_Interval DEF Days

Serving(k) == {p \in Procs : served[p][k] > 0}
ServedFor(k) == [p \in Procs |-> served[p][k]]
RequestsOn(k) == [d \in UsedOn(k) |-> usage[<<k, d>>].requests]

(* h bounds the requests of the rows of k, stored or about to be written,  *)
(* by the completions of their days: what is read before another process   *)
(* writes can only be lost, not counted twice.                             *)
BoundsRows(h, k) ==
    /\ h \in [Days -> Nat] /\ SumFunction(h) <= SumFunction(ServedFor(k))
    /\ \A d \in Days : usage[<<k, d>>] # NoRow => usage[<<k, d>>].requests <= h[d]
    /\ \A r \in Requests : req[r].pc = "record" /\ req[r].key = k /\ req[r].row # NoRow =>
          req[r].row.requests <= h[req[r].day]

(* A process that has served k alone has read the row as it still is.      *)
Current(k) ==
    \A r \in Requests :
        /\ req[r].pc = "record" /\ req[r].key = k
        /\ \A p \in Procs \ {req[r].proc} : served[p][k] = 0
        => req[r].row = usage[<<k, req[r].day>>]

KeyIsMetered(k) ==
    /\ \E h : BoundsRows(h, k)
    /\ Cardinality(Serving(k)) <= 1 => SumFunction(RequestsOn(k)) = SumFunction(ServedFor(k))
    /\ Current(k)

MeterInv == front # "edge" => \A k \in Keys : KeyIsMetered(k)

LEMMA MeterTypes ==
    ASSUME BookInv, NEW k \in Keys
    PROVE  /\ Summable(ServedFor(k), Procs) /\ DOMAIN ServedFor(k) = Procs
           /\ SumFunction(ServedFor(k)) \in Nat
           /\ Summable(RequestsOn(k), UsedOn(k)) /\ DOMAIN RequestsOn(k) = UsedOn(k)
           /\ SumFunction(RequestsOn(k)) \in Nat
           /\ UsedOn(k) \in SUBSET Days
<1>1. DOMAIN ServedFor(k) = Procs /\ \A p \in Procs : ServedFor(k)[p] \in Nat
  BY DEF BookInv, ServedFor
<1>2. Summable(ServedFor(k), Procs)
  BY <1>1, GatewayAssumption DEF Summable
<1>3. UsedOn(k) \in SUBSET Days
  BY DEF UsedOn
<1>4. DOMAIN RequestsOn(k) = UsedOn(k) /\ \A d \in UsedOn(k) : RequestsOn(k)[d] \in Nat
  BY RowTypeIsNat DEF BookInv, RequestsOn, UsedOn
<1>5. Summable(RequestsOn(k), UsedOn(k))
  BY <1>3, <1>4, DaysFinite, FS_Subset DEF Summable
<1> QED BY <1>1, <1>2, <1>3, <1>4, <1>5, SumsOfAFunction, SumSplit

LEMMA MeterInvInit == Init => MeterInv
<1> SUFFICES ASSUME Init, NEW k \in Keys PROVE KeyIsMetered(k)
  BY DEF MeterInv
<1>1. /\ \A r \in Requests : req[r].pc = "free"
      /\ \A d \in Days : usage[<<k, d>>] = NoRow
      /\ \A p \in Procs : served[p][k] = 0
  BY DEF Init, InitControl, Free
<1>2. SumFunction(ServedFor(k)) = 0
  <2>1. ServedFor(k) = [p \in Procs |-> 0]
    BY <1>1 DEF ServedFor
  <2> QED BY <2>1, SumOfZeros, GatewayAssumption
<1>3. SumFunction(RequestsOn(k)) = 0
  <2>1. DOMAIN RequestsOn(k) = {}
    BY <1>1 DEF RequestsOn, UsedOn
  <2> QED BY <2>1, SumsOfAFunction, SumEmpty
<1>4. BoundsRows([d \in Days |-> 0], k)
  <2>1. SumFunction([d \in Days |-> 0]) = 0
    BY SumOfZeros, DaysFinite
  <2> QED BY <1>1, <1>2, <2>1 DEF BoundsRows
<1> QED BY <1>1, <1>2, <1>3, <1>4 DEF KeyIsMetered, Current

(* A step that adds no row *)
LEMMA UnmeteredKeeps ==
    ASSUME NEW k \in Keys, KeyIsMetered(k), UNCHANGED <<usage, served>>,
           \A r \in Requests : req'[r].pc = "record" /\ req'[r].key = k =>
              \/ req'[r] = req[r]
              \/ req'[r].day \in Days /\ req'[r].row = usage[<<k, req'[r].day>>]
    PROVE  KeyIsMetered(k)'
<1>1. /\ ServedFor(k)' = ServedFor(k) /\ RequestsOn(k)' = RequestsOn(k)
      /\ Serving(k)' = Serving(k)
  BY DEF ServedFor, RequestsOn, UsedOn, Serving
<1>2. PICK h : BoundsRows(h, k)
  BY DEF KeyIsMetered
<1>3. BoundsRows(h, k)'
  BY <1>1, <1>2 DEF BoundsRows
<1>4. Current(k)'
  BY DEF KeyIsMetered, Current
<1> QED BY <1>1, <1>3, <1>4 DEF KeyIsMetered

LEMMA RecordMeters ==
    ASSUME KeyInv, BookInv, MeterInv, NEW r \in Requests, Record(r)
    PROVE  MeterInv'
<1> DEFINE q == req[r]
           p == q.proc
           kd == <<q.key, q.day>>
           old == IF q.row = NoRow THEN EmptyRow ELSE q.row
           new == Incremented(q.row, q.usd, q.hit)
<1>1. Carried(q) /\ q.pc = "record"
  BY DEF Record, BookInv, Flying
<1>2. /\ p \in Procs /\ q.key \in Keys /\ q.day \in Days
      /\ q.usd \in Nat /\ q.row \in Row \cup {NoRow} /\ front # "edge"
  BY <1>1, GatewayAssumption DEF Carried
<1>3. \A k \in Keys : KeyIsMetered(k)
  BY <1>2 DEF MeterInv
<1>4. \A z \in Requests : req'[z].pc = "record" => z # r /\ req'[z] = req[z]
  <2>1. \A z \in Requests : req'[z] = IF z = r THEN Free ELSE req[z]
    BY DEF Record, KeyInv, AdmissionInv
  <2> QED BY <2>1 DEF Free
<1>5. CASE UNCHANGED <<usage, served>>
  BY <1>3, <1>4, <1>5, UnmeteredKeeps DEF MeterInv
<1>6. CASE ~UNCHANGED <<usage, served>>
  <2>1. /\ usage' = [usage EXCEPT ![kd] = new]
        /\ served' = [served EXCEPT ![p][q.key] = @ + 1]
    BY <1>6 DEF Record
  <2>2. old \in Row /\ new \in Row /\ new # NoRow /\ new.requests = old.requests + 1
    <3>1. PICK row, usd, hit : row = q.row /\ usd = q.usd /\ hit = q.hit
      OBVIOUS
    <3> HIDE DEF q, kd
    <3>2. row \in Row \cup {NoRow} /\ usd \in Nat
      BY <1>2, <3>1
    <3>3. LET was == IF row = NoRow THEN EmptyRow ELSE row
               now == Incremented(row, usd, hit) IN
          was \in Row /\ now \in Row /\ now # NoRow /\ now.requests = was.requests + 1
      BY <3>2, IncrementedIsRow
    <3> QED BY <3>1, <3>3
  <2>3. old.requests = IF q.row = NoRow THEN 0 ELSE q.row.requests
    BY DEF EmptyRow
  <2> HIDE DEF new, q, p, old
  <2>4. \A k \in Keys, d \in Days :
           usage'[<<k, d>>] = IF k = q.key /\ d = q.day THEN new ELSE usage[<<k, d>>]
    BY <2>1, <1>2 DEF BookInv
  <2>5. \A z \in Procs, k \in Keys :
           served'[z][k] = IF z = p /\ k = q.key THEN served[z][k] + 1 ELSE served[z][k]
    BY <2>1, <1>2 DEF BookInv
  <2>6. \A z \in Procs, k \in Keys : served[z][k] \in Nat
    BY DEF BookInv
  <2>7. ASSUME NEW k \in Keys, k # q.key PROVE KeyIsMetered(k)'
    <3>1. /\ ServedFor(k)' = ServedFor(k) /\ RequestsOn(k)' = RequestsOn(k)
          /\ Serving(k)' = Serving(k)
      BY <2>4, <2>5, <2>7 DEF ServedFor, RequestsOn, UsedOn, Serving
    <3>2. PICK h : BoundsRows(h, k)
      BY <1>3 DEF KeyIsMetered
    <3>3. BoundsRows(h, k)'
      BY <1>4, <2>4, <2>7, <3>1, <3>2 DEF BoundsRows
    <3>4. Current(k)
      BY <1>3 DEF KeyIsMetered
    <3>5. ASSUME NEW z \in Requests, req'[z].pc = "record", req'[z].key = k,
                 \A y \in Procs \ {req'[z].proc} : served'[y][k] = 0
          PROVE  req'[z].row = usage'[<<k, req'[z].day>>]
      <4>1. req'[z] = req[z]
        BY <1>4, <3>5
      <4>2. req[z].day \in Days
        BY <3>5, <4>1 DEF BookInv, Flying, Carried
      <4>3. \A y \in Procs \ {req[z].proc} : served[y][k] = 0
        BY <2>5, <2>7, <3>5, <4>1
      <4>4. req[z].row = usage[<<k, req[z].day>>]
        BY <3>4, <3>5, <4>1, <4>3 DEF Current
      <4> QED BY <2>4, <2>7, <4>1, <4>2, <4>4
    <3>6. Current(k)'
      BY <3>5 DEF Current
    <3> QED BY <1>3, <3>1, <3>3, <3>6 DEF KeyIsMetered
  <2>8. ASSUME NEW k \in Keys, k = q.key PROVE KeyIsMetered(k)'
    <3>0. PICK d \in Days : d = q.day
      BY <1>2
    <3>1. p \in Procs /\ KeyIsMetered(k)
      BY <1>2, <1>3
    <3>2. SumFunction(ServedFor(k)') = SumFunction(ServedFor(k)) + 1
      <4> DEFINE f == ServedFor(k)
                 g == ServedFor(k)'
      <4>1. /\ DOMAIN f = Procs /\ DOMAIN g = Procs \cup {p}
            /\ \A y \in Procs : f[y] = served[y][k] /\ g[y] = served'[y][k]
        BY <3>0, <2>8, <3>1 DEF ServedFor
      <4> HIDE DEF f, g
      <4>2. RowAdds(f, g, p, 1)
        BY <2>5, <2>6, <3>0, <2>8, <3>1, <4>1, GatewayAssumption DEF RowAdds
      <4>4. SumFunction(g) = SumFunction(f) + 1
        BY <4>2, SumGrows
      <4> QED BY <4>4 DEF f, g
    <3>3. p \in Serving(k)' /\ Serving(k) \subseteq Serving(k)'
      BY <2>5, <2>6, <3>0, <2>8, <3>1 DEF Serving
    <3>4. \E h : BoundsRows(h, k)'
      <4>1. PICK h : BoundsRows(h, k)
        BY <3>0, <2>8, <3>1 DEF KeyIsMetered
      <4> PICK h2 : h2 = [h EXCEPT ![d] = h[d] + 1]
        OBVIOUS
      <4>2. h \in [Days -> Nat] /\ h2 \in [Days -> Nat]
        BY <3>0, <2>8, <3>1, <4>1 DEF BoundsRows
      <4>3. \A y \in Days : h2[y] = IF y = d THEN h[y] + 1 ELSE h[y]
        BY <3>0, <2>8, <3>1, <4>2
      <4>4. SumFunction(h2) = SumFunction(h) + 1 /\ SumFunction(h) \in Nat
        <5>1. RowAdds(h, h2, d, 1)
          BY <3>0, <4>2, <4>3, DaysFinite DEF RowAdds
        <5> QED BY <5>1, SumGrows
      <4>5. SumFunction(h2) <= SumFunction(ServedFor(k)')
        <5>1. SumFunction(h) <= SumFunction(ServedFor(k)) /\ SumFunction(ServedFor(k)) \in Nat
          BY <3>0, <2>8, <3>1, <4>1, MeterTypes DEF BoundsRows
        <5> QED BY <3>2, <4>4, <5>1
      <4>6. ASSUME NEW y \in Days, usage'[<<k, y>>] # NoRow
            PROVE  usage'[<<k, y>>].requests <= h2[y]
        <5>1. CASE y = d
          <6>1. usage'[<<k, y>>] = new
            BY <2>4, <3>0, <2>8, <3>1, <5>1
          <6>2. h[d] \in Nat /\ (q.row # NoRow => q.row.requests <= h[d])
            BY <1>1, <3>0, <2>8, <3>1, <4>1, <4>2 DEF BoundsRows, q
          <6>3. old.requests \in Nat
            BY <2>2, RowTypeIsNat
          <6> QED BY <2>2, <2>3, <4>3, <5>1, <6>1, <6>2, <6>3
        <5>2. CASE y # d
          BY <2>4, <3>0, <2>8, <3>1, <4>1, <4>3, <4>6, <5>2 DEF BoundsRows
        <5> QED BY <5>1, <5>2
      <4>7. ASSUME NEW z \in Requests, req'[z].pc = "record", req'[z].key = k, req'[z].row # NoRow
            PROVE  req'[z].row.requests <= h2[req'[z].day]
        <5>1. req'[z] = req[z]
          BY <1>4, <4>7
        <5>2. req[z].day \in Days /\ req[z].row \in Row
          BY <4>7, <5>1 DEF BookInv, Flying, Carried
        <5>3. req[z].row.requests <= h[req[z].day]
          BY <4>1, <4>7, <5>1 DEF BoundsRows
        <5>4. req[z].row.requests \in Nat /\ h[req[z].day] \in Nat
          BY <4>2, <5>2, RowTypeIsNat
        <5> QED BY <4>3, <5>1, <5>2, <5>3, <5>4
      <4>8. BoundsRows(h2, k)'
        BY <4>2, <4>5, <4>6, <4>7 DEF BoundsRows
      <4> QED BY <4>8
    <3>5. ASSUME Cardinality(Serving(k)') <= 1
          PROVE  SumFunction(RequestsOn(k)') = SumFunction(ServedFor(k)')
      <4>1. IsFiniteSet(Serving(k)')
        BY GatewayAssumption, FS_Subset DEF Serving
      <4>2. \A y \in Serving(k)' : y = p
        BY <3>3, <3>5, <4>1, OnlyOne
      <4>3. Cardinality(Serving(k)) <= 1
        <5>1. IsFiniteSet(Serving(k)) /\ Cardinality(Serving(k)) <= Cardinality(Serving(k)')
          BY <3>3, <4>1, FS_Subset
        <5>2. Cardinality(Serving(k)) \in Nat /\ Cardinality(Serving(k)') \in Nat
          BY <4>1, <5>1, FS_CardinalityType
        <5> QED BY <3>5, <5>1, <5>2
      <4>4. \A y \in Procs \ {p} : served[y][k] = 0
        <5>1. \A y \in Procs \ {p} : ~(served'[y][k] > 0)
          BY <4>2 DEF Serving
        <5> QED BY <2>5, <2>6, <3>0, <2>8, <3>1, <5>1
      <4>5. q.row = usage[kd]
        BY <1>1, <3>0, <2>8, <3>1, <4>4 DEF KeyIsMetered, Current, q, p, kd
      <4>6. SumFunction(RequestsOn(k)') = SumFunction(RequestsOn(k)) + 1
        <5> DEFINE f == RequestsOn(k)
                   g == RequestsOn(k)'
                   S == UsedOn(k)
        <5>1. DOMAIN f = S /\ IsFiniteSet(S) /\ \A y \in S : f[y] \in Nat
          BY <3>0, <2>8, <3>1, MeterTypes DEF Summable
        <5>2. DOMAIN g = UsedOn(k)' /\ UsedOn(k)' = S \cup {d}
          BY <2>2, <2>4, <3>0, <2>8, <3>1 DEF RequestsOn, UsedOn
        <5>3. \A y \in S \ {d} : g[y] = f[y]
          BY <2>4, <3>0, <2>8, <3>1, <5>2 DEF RequestsOn, UsedOn
        <5>4. g[d] = new.requests
          BY <2>4, <3>0, <2>8, <3>1, <5>2 DEF RequestsOn, UsedOn
        <5>5. old.requests = IF d \in S THEN f[d] ELSE 0
          BY <2>3, <3>0, <2>8, <3>1, <4>5 DEF RequestsOn, UsedOn, kd
        <5>6. g[d] = 1 + (IF d \in S THEN f[d] ELSE 0) /\ 1 \in Nat
          BY <2>2, <5>4, <5>5, RowTypeIsNat
        <5> HIDE DEF f, g, S
        <5>7. RowAdds(f, g, d, 1)
          BY <5>1, <5>2, <5>3, <5>6 DEF RowAdds
        <5>8. SumFunction(g) = SumFunction(f) + 1
          BY <5>7, SumGrows
        <5> QED BY <5>8 DEF f, g
      <4> QED BY <3>0, <2>8, <3>1, <3>2, <4>3, <4>6 DEF KeyIsMetered
    <3>6. Current(k)'
      <4>1. ASSUME NEW z \in Requests, req'[z].pc = "record",
                   \A y \in Procs \ {req'[z].proc} : served'[y][k] = 0
            PROVE  FALSE
        <5>1. z # r /\ req'[z] = req[z]
          BY <1>4, <4>1
        <5>2. served'[p][k] # 0
          BY <2>5, <2>6, <3>0, <2>8, <3>1
        <5>3. req[z].proc = p
          BY <3>0, <2>8, <3>1, <4>1, <5>1, <5>2
        <5> QED BY <1>1, <4>1, <5>1, <5>3 DEF BookInv, p, q
      <4> QED BY <4>1 DEF Current
    <3> QED BY <3>4, <3>5, <3>6 DEF KeyIsMetered
  <2> QED BY <1>2, <2>7, <2>8 DEF MeterInv
<1> QED BY <1>5, <1>6

LEMMA MeterInvNext == KeyInv /\ CacheInv /\ BookInv /\ MeterInv /\ [Next]_vars => MeterInv'
<1> SUFFICES ASSUME KeyInv, CacheInv, BookInv, MeterInv, [Next]_vars, front' # "edge"
             PROVE  MeterInv'
  BY DEF MeterInv
<1>1. CASE Quiet
  <2>1. front # "edge" /\ UNCHANGED <<usage, served>>
    BY <1>1 DEF Quiet
  <2>2. \A r \in Requests : req'[r].pc = "record" => req'[r] = req[r]
    BY <1>1 DEF Quiet, Flying
  <2> QED BY <2>1, <2>2, UnmeteredKeeps DEF MeterInv
<1>2. ASSUME NEW r \in Requests, Selects(r) PROVE MeterInv'
  <2>1. PICK x : /\ req' = [req EXCEPT ![r] = x]
                 /\ x.pc = "record" /\ x.proc = req[r].proc /\ x.key = req[r].key
                 /\ x.usd \in 0 .. Cost /\ x.day = today /\ x.row = usage[<<x.key, x.day>>]
    BY <1>2 DEF Selects
  <2>2. x.day \in Days
    BY <1>2, <2>1, TodayIsADay DEF Selects
  <2>3. \A z \in Requests : req'[z] = IF z = r THEN x ELSE req[z]
    BY <2>1 DEF KeyInv, AdmissionInv
  <2>4. UNCHANGED <<usage, served>>
    BY <1>2 DEF Selects
  <2>5. \A k \in Keys, z \in Requests : req'[z].pc = "record" /\ req'[z].key = k =>
           \/ req'[z] = req[z]
           \/ req'[z].day \in Days /\ req'[z].row = usage[<<k, req'[z].day>>]
    BY <2>1, <2>2, <2>3
  <2>6. front # "edge"
    BY <1>2 DEF Selects, accounts
  <2> QED BY <2>4, <2>5, <2>6, UnmeteredKeeps DEF MeterInv
<1>3. ASSUME NEW r \in Requests, Keeps(r) PROVE MeterInv'
  <2>1. UNCHANGED <<usage, served, front>> /\ req' = [req EXCEPT ![r] = Free]
    BY <1>3 DEF Keeps
  <2>2. \A z \in Requests : req'[z].pc = "record" => req'[z] = req[z]
    BY <2>1 DEF KeyInv, AdmissionInv, Free
  <2> QED BY <2>1, <2>2, UnmeteredKeeps DEF MeterInv
<1> QED BY <1>1, <1>2, <1>3, StepsOfTheBooks, RecordMeters DEF GatewayCharges

LEMMA MeterInvIsSound == BookInv /\ MeterInv => MeteringIsSound
<1> SUFFICES ASSUME BookInv, MeterInv, front # "edge", NEW k \in Keys
             PROVE  /\ SumFunction(RequestsOn(k)) <= SumFunction(ServedFor(k))
                    /\ Cardinality(Serving(k)) <= 1 =>
                          SumFunction(RequestsOn(k)) = SumFunction(ServedFor(k))
  BY DEF MeteringIsSound, SumOver, RequestsOn, ServedFor, Serving
<1>1. KeyIsMetered(k)
  BY DEF MeterInv
<1>2. PICK h : BoundsRows(h, k)
  BY <1>1 DEF KeyIsMetered
<1> DEFINE S == UsedOn(k)
           f == RequestsOn(k)
<1>3. /\ Summable(f, S) /\ DOMAIN f = S /\ S \in SUBSET Days
      /\ SumFunction(ServedFor(k)) \in Nat
  BY MeterTypes
<1>4. Summable(h, Days) /\ DOMAIN h = Days /\ SumFunction(h) <= SumFunction(ServedFor(k))
  BY <1>2, DaysFinite DEF BoundsRows, Summable
<1>5. \A d \in S : f[d] <= h[d]
  BY <1>2 DEF RequestsOn, UsedOn, BoundsRows
<1> HIDE DEF f, S
<1>6. Summable(h, S) /\ SumFunctionOnSet(h, S) <= SumFunctionOnSet(h, Days)
  BY <1>3, <1>4, SumPart
<1>7. SumFunctionOnSet(f, S) <= SumFunctionOnSet(h, S)
  BY <1>3, <1>5, <1>6, SumMonotone
<1>8. /\ SumFunctionOnSet(f, S) \in Nat /\ SumFunctionOnSet(h, S) \in Nat
      /\ SumFunctionOnSet(h, Days) \in Nat
  BY <1>3, <1>4, <1>6, SumSplit
<1>9. SumFunction(f) = SumFunctionOnSet(f, S) /\ SumFunction(h) = SumFunctionOnSet(h, Days)
  BY <1>3, <1>4, SumsOfAFunction
<1>10. SumFunction(f) <= SumFunction(ServedFor(k))
  BY <1>3, <1>4, <1>6, <1>7, <1>8, <1>9
<1> QED BY <1>1, <1>10 DEF KeyIsMetered, f

-----------------------------------------------------------------------------
(* What an org has spent *)

RowsFinite == IsFiniteSet({kd \in Keys \X Days : usage[kd] # NoRow})
Charged(o) == [kd \in charges(o) |-> usage[kd].usd]

LEMMA SpentIsNat ==
    ASSUME BookInv, RowsFinite, NEW o \in Orgs
    PROVE  /\ DOMAIN Charged(o) = charges(o) /\ IsFiniteSet(charges(o))
           /\ \A kd \in charges(o) : Charged(o)[kd] \in Nat
           /\ spent(o) = SumFunction(Charged(o)) /\ spent(o) \in Nat
<1> DEFINE f == Charged(o)
           S == charges(o)
<1>1. DOMAIN f = S
  BY DEF Charged
<1>2. IsFiniteSet(S)
  <2>1. S \subseteq {kd \in Keys \X Days : usage[kd] # NoRow}
    BY DEF charges
  <2> QED BY <2>1, FS_Subset DEF RowsFinite
<1>3. \A kd \in S : f[kd] \in Nat
  <2> SUFFICES ASSUME NEW kd \in S PROVE usage[kd].usd \in Nat
    BY DEF Charged
  <2>1. PICK k \in Keys, d \in Days : kd = <<k, d>> /\ usage[<<k, d>>] # NoRow
    BY DEF charges
  <2> QED BY <2>1, RowTypeIsNat DEF BookInv
<1>4. spent(o) = SumFunction(f)
  BY DEF spent, Charged
<1> HIDE DEF f, S
<1>5. SumFunctionOnSet(f, S) \in Nat
  BY <1>2, <1>3, SumSplit DEF Summable
<1>6. SumFunction(f) \in Nat
  BY <1>1, <1>5, SumsOfAFunction
<1> QED BY <1>1, <1>2, <1>3, <1>4, <1>6 DEF f, S

(* Rows belong to keys that keep their org *)
LEMMA SpentStays ==
    ASSUME KeyInv, BookInv, [Next]_vars, UNCHANGED usage
    PROVE  RowsFinite' = RowsFinite /\ \A o \in Orgs : spent(o)' = spent(o)
<1>1. RowsFinite' = RowsFinite
  BY DEF RowsFinite
<1>2. ASSUME NEW o \in Orgs PROVE spent(o)' = spent(o)
  <2>1. \A kd \in Keys \X Days : usage[kd] # NoRow => keys'[kd[1]].org = keys[kd[1]].org
    BY MintedStay DEF BookInv
  <2>2. charges(o)' = charges(o)
    BY <2>1 DEF charges
  <2> QED BY <2>2 DEF spent
<1> QED BY <1>1, <1>2

DebitOf(row) == IF row = NoRow THEN 0 ELSE row.usd

LEMMA SpentGrows ==
    ASSUME BookInv, RowsFinite, UNCHANGED keys, NEW k \in Keys, NEW d \in Days,
           NEW new, new # NoRow, usage' = [usage EXCEPT ![<<k, d>>] = new]
    PROVE  /\ RowsFinite'
           /\ \A o \in Orgs : keys[k].org # o => spent(o)' = spent(o)
           /\ \A o \in Orgs, usd \in Nat :
                 keys[k].org = o /\ new.usd = usd + DebitOf(usage[<<k, d>>]) =>
                    spent(o)' = spent(o) + usd
<1> DEFINE kd == <<k, d>>
<1>1. \A x \in Keys \X Days : usage'[x] = IF x = kd THEN new ELSE usage[x]
  BY DEF BookInv
<1>2. kd \in Keys \X Days
  OBVIOUS
<1> HIDE DEF kd
<1>3. RowsFinite'
  <2> DEFINE S == {x \in Keys \X Days : usage[x] # NoRow}
             T == {x \in Keys \X Days : usage'[x] # NoRow}
  <2>1. T = S \cup {kd}
    BY <1>1, <1>2
  <2> HIDE DEF S
  <2>2. IsFiniteSet(S \cup {kd})
    BY FS_AddElement DEF RowsFinite, S
  <2> QED BY <2>1, <2>2 DEF RowsFinite
<1>4. ASSUME NEW o \in Orgs, keys[k].org # o PROVE spent(o)' = spent(o)
  <2>1. kd[1] = k
    BY DEF kd
  <2>2. charges(o)' = charges(o)
    BY <1>1, <1>4, <2>1 DEF charges
  <2>3. \A x \in charges(o) : usage'[x] = usage[x]
    BY <1>1, <1>4, <2>1 DEF charges
  <2> QED BY <2>2, <2>3 DEF spent
<1>5. ASSUME NEW o \in Orgs, NEW usd \in Nat, keys[k].org = o,
             new.usd = usd + DebitOf(usage[<<k, d>>])
      PROVE  spent(o)' = spent(o) + usd
  <2> DEFINE f == Charged(o)
             g == Charged(o)'
             S == charges(o)
  <2>1. /\ DOMAIN f = S /\ IsFiniteSet(S) /\ \A x \in S : f[x] \in Nat
        /\ spent(o) = SumFunction(f)
    BY SpentIsNat
  <2>2. kd[1] = k
    BY DEF kd
  <2>3. charges(o)' = S \cup {kd} /\ DOMAIN g = S \cup {kd}
    BY <1>1, <1>2, <1>5, <2>2 DEF charges, Charged
  <2>4. \A x \in S \ {kd} : g[x] = f[x]
    BY <1>1, <2>3 DEF charges, Charged
  <2>5. g[kd] = usd + (IF kd \in S THEN f[kd] ELSE 0)
    <3>1. g[kd] = new.usd
      BY <1>1, <1>2, <2>3 DEF Charged
    <3>2. kd \in S <=> usage[kd] # NoRow
      BY <1>2, <1>5, <2>2 DEF charges
    <3>3. kd \in S => f[kd] = usage[kd].usd
      BY DEF Charged
    <3>4. new.usd = usd + (IF usage[kd] = NoRow THEN 0 ELSE usage[kd].usd)
      BY <1>5 DEF kd, DebitOf
    <3> HIDE DEF f, g, S
    <3> QED BY <3>1, <3>2, <3>3, <3>4
  <2>6. spent(o)' = SumFunction(g)
    BY DEF spent, Charged
  <2> HIDE DEF f, g, S
  <2>7. RowAdds(f, g, kd, usd)
    BY <2>1, <2>3, <2>4, <2>5 DEF RowAdds
  <2>8. SumFunction(g) = SumFunction(f) + usd
    BY <2>7, SumGrows
  <2> QED BY <2>1, <2>6, <2>8
<1> QED BY <1>3, <1>4, <1>5

LEMMA RowsFiniteInit == Init => RowsFinite
<1> SUFFICES ASSUME Init PROVE {kd \in Keys \X Days : usage[kd] # NoRow} = {}
  BY FS_EmptySet DEF RowsFinite
<1> QED BY DEF Init, InitControl

(* What a step charges an org *)
LEMMA RecordCharges ==
    ASSUME KeyInv, BookInv, RowsFinite, NEW r \in Requests, Record(r),
           ~UNCHANGED <<usage, served>>
    PROVE  /\ RowsFinite'
           /\ \A o \in Orgs : keys[req[r].key].org # o => spent(o)' = spent(o)
           /\ \A o \in Orgs :
                 /\ keys[req[r].key].org = o
                 /\ req[r].row = usage[<<req[r].key, req[r].day>>]
                 => spent(o)' = spent(o) + req[r].usd
<1>0. Carried(req[r])
  BY DEF Record, BookInv, Flying
<1>1a. /\ req[r].key \in Keys /\ req[r].day \in Days /\ req[r].usd \in Nat
       /\ req[r].row \in Row \cup {NoRow}
  BY <1>0, GatewayAssumption DEF Carried, Record
<1>1. PICK k \in Keys, d \in Days, usd \in Nat, row \in Row \cup {NoRow} :
        k = req[r].key /\ d = req[r].day /\ usd = req[r].usd /\ row = req[r].row
  BY <1>1a
<1>1b. PICK hit : hit = req[r].hit
  OBVIOUS
<1> DEFINE new == Incremented(row, usd, hit)
           old == IF row = NoRow THEN EmptyRow ELSE row
<1>2. /\ usage' = [usage EXCEPT ![<<k, d>>] = new] /\ UNCHANGED keys
  BY <1>1, <1>1b DEF Record
<1>3. /\ new \in Row /\ new # NoRow /\ old \in Row /\ new.usd = old.usd + usd
  BY IncrementedIsRow
<1> HIDE DEF new
<1>5. /\ RowsFinite'
      /\ \A o \in Orgs : keys[k].org # o => spent(o)' = spent(o)
      /\ \A o \in Orgs : keys[k].org = o /\ new.usd = usd + DebitOf(usage[<<k, d>>]) =>
            spent(o)' = spent(o) + usd
  BY <1>2, <1>3, SpentGrows, ZenonT(40)
<1>6. row = usage[<<k, d>>] => new.usd = usd + DebitOf(usage[<<k, d>>])
  <2>1. old.usd = DebitOf(row) /\ old.usd \in Nat
    BY <1>3, RowTypeIsNat DEF EmptyRow, DebitOf
  <2> HIDE DEF old
  <2> QED BY <1>3, <2>1
<1> HIDE DEF old
<1>7. \A o \in Orgs : keys[k].org = o /\ row = usage[<<k, d>>] => spent(o)' = spent(o) + usd
  BY <1>5, <1>6
<1> QED BY <1>1, <1>5, <1>7

LEMMA TimesMonotone ==
    ASSUME NEW a \in Nat, NEW b \in Nat, NEW c \in Nat, a <= b
    PROVE  a * c \in Nat /\ b * c \in Nat /\ a * c <= b * c
<1>1. b - a \in Nat /\ (b - a) * c \in Nat /\ a * c \in Nat
  OBVIOUS
<1>2. b * c = a * c + (b - a) * c
  OBVIOUS
<1> QED BY <1>1, <1>2

(* The calls that an org has in flight *)
InFlight(o) == {r \in Requests : Flying(req[r]) /\ keys[req[r].key].org = o}
Committed(o) == spent(o) + Cardinality(InFlight(o)) * Cost

(* What is in flight was let in while there was credit: it can be spent.   *)
OverdraftInv ==
    /\ RowsFinite
    /\ accounts => \A o \in Orgs : Cardinality(ServedBy(o)) <= 1 =>
          Committed(o) <= FreeCredit + Cardinality(Requests) * Cost

LEMMA FlightsFinite ==
    \A o \in Orgs : /\ IsFiniteSet(InFlight(o)) /\ Cardinality(InFlight(o)) \in Nat
                    /\ Cardinality(InFlight(o)) <= Cardinality(Requests)
                    /\ Cardinality(Requests) \in Nat /\ Cost \in Nat
<1> TAKE o \in Orgs
<1>1. InFlight(o) \subseteq Requests
  BY DEF InFlight
<1> QED BY <1>1, GatewayAssumption, FS_Subset, FS_CardinalityType

LEMMA ServersFinite ==
    ASSUME KeyInv, BookInv, [Next]_vars, NEW o \in Orgs,
           \A p \in Procs, k \in Keys : served'[p][k] \in Nat /\ served'[p][k] >= served[p][k],
           Cardinality(ServedBy(o)') <= 1
    PROVE  /\ IsFiniteSet(ServedBy(o)') /\ Cardinality(ServedBy(o)) <= 1
<1>1. IsFiniteSet(ServedBy(o)')
  BY GatewayAssumption, FS_Subset DEF ServedBy
<1>2. ServedBy(o) \subseteq ServedBy(o)'
  <2> SUFFICES ASSUME NEW p \in Procs, NEW k \in Keys, Minted(k), keys[k].org = o,
                      served[p][k] > 0
               PROVE  p \in ServedBy(o)'
    BY DEF ServedBy
  <2>1. keys'[k] # NoRow /\ keys'[k].org = o
    BY MintedStay DEF Minted
  <2>2. served'[p][k] >= served[p][k] /\ served[p][k] \in Nat
    BY DEF BookInv
  <2>3. served'[p][k] \in Nat
    OBVIOUS
  <2> QED BY <2>1, <2>2, <2>3 DEF ServedBy, Minted
<1>3. /\ IsFiniteSet(ServedBy(o)) /\ Cardinality(ServedBy(o)) <= Cardinality(ServedBy(o)')
  BY <1>1, <1>2, FS_Subset
<1>4. Cardinality(ServedBy(o)) \in Nat /\ Cardinality(ServedBy(o)') \in Nat
  BY <1>1, <1>3, FS_CardinalityType
<1> QED BY <1>1, <1>3, <1>4

LEMMA OverdraftInvInit == Init => OverdraftInv
<1> SUFFICES ASSUME Init PROVE OverdraftInv
  OBVIOUS
<1>1. RowsFinite /\ BookInv
  BY RowsFiniteInit, BookInvInit
<1>2. ASSUME NEW o \in Orgs
      PROVE  Committed(o) <= FreeCredit + Cardinality(Requests) * Cost
  <2>1. charges(o) = {}
    BY DEF Init, InitControl, charges
  <2>2. spent(o) = 0
    <3>1. DOMAIN Charged(o) = {} /\ spent(o) = SumFunction(Charged(o))
      BY <1>1, <2>1, SpentIsNat
    <3> QED BY <3>1, SumsOfAFunction, SumEmpty
  <2>3. InFlight(o) = {}
    BY DEF Init, Free, InFlight, Flying
  <2>4. Cardinality(InFlight(o)) = 0
    BY <2>3, FS_EmptySet
  <2>5. 0 <= FreeCredit + Cardinality(Requests) * Cost
    <3>1. Cardinality(Requests) \in Nat /\ Cost \in Nat /\ FreeCredit \in Nat
      BY FlightsFinite, ControlAssumption
    <3> QED BY <3>1, TimesMonotone
  <2> QED BY <2>2, <2>4, <2>5, GatewayAssumption DEF Committed
<1> QED BY <1>1, <1>2 DEF OverdraftInv

(* Nothing is charged, and whatever is let in has credit *)
LEMMA LettingInIsBounded ==
    ASSUME KeyInv, BookInv, RowsFinite, [Next]_vars, NEW o \in Orgs, UNCHANGED usage,
           Committed(o) <= FreeCredit + Cardinality(Requests) * Cost,
           \/ InFlight(o)' \subseteq InFlight(o)
           \/ quota_ok(o) /\ orgs[o] # NoRow
    PROVE  (Committed(o) <= FreeCredit + Cardinality(Requests) * Cost)'
<1>1. spent(o)' = spent(o) /\ spent(o) \in Nat
  BY SpentStays, SpentIsNat
<1>2. InFlight(o)' \subseteq Requests
  BY DEF InFlight
<1>3. PICK n, m, all : n = Cardinality(InFlight(o)) /\ m = Cardinality(InFlight(o)') /\ all = Cardinality(Requests)
  OBVIOUS
<1>4. n \in Nat /\ m \in Nat /\ all \in Nat /\ m <= all /\ Cost \in Nat
  BY <1>2, <1>3, FlightsFinite, GatewayAssumption, FS_Subset, FS_CardinalityType
<1>5. spent(o) + n * Cost <= FreeCredit + all * Cost
  BY <1>3 DEF Committed
<1>6. spent(o) + m * Cost <= FreeCredit + all * Cost
  <2>1. CASE InFlight(o)' \subseteq InFlight(o)
    <3>1. m <= n
      BY <1>3, <2>1, FlightsFinite, FS_Subset
    <3> QED BY <1>1, <1>4, <1>5, <3>1, TimesMonotone, ControlAssumption
  <2>2. CASE quota_ok(o) /\ orgs[o] # NoRow
    <3>1. granted(o) = FreeCredit
      BY <2>2 DEF granted, KeyInv, AccountInv
    <3>2. spent(o) <= FreeCredit
      BY <1>1, <2>2, <3>1, ControlAssumption DEF quota_ok, remaining_credit
    <3> QED BY <1>1, <1>4, <3>2, TimesMonotone, ControlAssumption
  <2> QED BY <2>1, <2>2
<1> QED BY <1>1, <1>3, <1>6 DEF Committed

LEMMA RecordIsBounded ==
    ASSUME KeyInv, BookInv, MeterInv, OverdraftInv, [Next]_vars, NEW r \in Requests, Record(r),
           NEW o \in Orgs, Cardinality(ServedBy(o)') <= 1
    PROVE  (Committed(o) <= FreeCredit + Cardinality(Requests) * Cost)'
<1>1. Carried(req[r]) /\ req[r].pc = "record" /\ Flying(req[r])
  BY DEF Record, BookInv, Flying
<1>2. PICK p \in Procs, k \in Keys, d \in Days, usd \in Nat :
        p = req[r].proc /\ k = req[r].key /\ d = req[r].day /\ usd = req[r].usd
  <2>1. /\ req[r].proc \in Procs /\ req[r].key \in Keys /\ req[r].day \in Days
        /\ req[r].usd \in Nat
    BY <1>1, GatewayAssumption DEF Carried
  <2> QED BY <2>1
<1>3. usd <= Cost /\ Minted(k) /\ accounts /\ front # "edge" /\ Cost \in Nat
  BY <1>1, <1>2, GatewayAssumption DEF Carried
<1>4. \A z \in Requests : req'[z] = IF z = r THEN Free ELSE req[z]
  BY DEF Record, KeyInv, AdmissionInv
<1>5. UNCHANGED keys /\ ~Flying(Free)
  BY DEF Record, Flying, Free
<1>6. InFlight(o)' = InFlight(o) \ {r}
  BY <1>4, <1>5 DEF InFlight
<1>7. \A y \in Procs, j \in Keys : served'[y][j] \in Nat /\ served'[y][j] >= served[y][j]
  BY <1>2 DEF Record, BookInv
<1>8. IsFiniteSet(ServedBy(o)') /\ Cardinality(ServedBy(o)) <= 1
  BY <1>7, ServersFinite
<1>9. RowsFinite /\ Committed(o) <= FreeCredit + Cardinality(Requests) * Cost
  BY <1>3, <1>8 DEF OverdraftInv
<1>10. CASE UNCHANGED usage
  BY <1>6, <1>9, <1>10, LettingInIsBounded
<1>11. CASE ~UNCHANGED <<usage, served>> /\ keys[k].org # o
  <2>1. spent(o)' = spent(o)
    BY <1>2, <1>9, <1>11, RecordCharges
  <2>2. r \notin InFlight(o)
    BY <1>2, <1>11 DEF InFlight
  <2>3. InFlight(o)' = InFlight(o)
    BY <1>6, <2>2
  <2> QED BY <1>9, <2>1, <2>3 DEF Committed
<1>12. CASE ~UNCHANGED <<usage, served>> /\ keys[k].org = o
  <2>1. served' = [served EXCEPT ![p][k] = @ + 1]
    BY <1>2, <1>12 DEF Record
  <2>2. \A y \in Procs, j \in Keys : served[y][j] \in Nat
    BY DEF BookInv
  <2>3. served'[p][k] = served[p][k] + 1 /\ \A y \in Procs \ {p} : served'[y][k] = served[y][k]
    BY <2>1 DEF BookInv
  <2>4. p \in ServedBy(o)'
    BY <1>3, <1>5, <1>12, <2>2, <2>3 DEF ServedBy, Minted
  <2>5. \A y \in Procs \ {p} : served[y][k] = 0
    <3> SUFFICES ASSUME NEW y \in Procs \ {p}, served[y][k] # 0 PROVE FALSE
      OBVIOUS
    <3>1. served'[y][k] > 0
      BY <2>2, <2>3
    <3>2. y \in ServedBy(o)'
      BY <1>3, <1>5, <1>12, <3>1 DEF ServedBy, Minted
    <3> QED BY <1>8, <2>4, <3>2, OnlyOne
  <2>6. req[r].row = usage[<<k, d>>]
    BY <1>1, <1>2, <1>3, <2>5 DEF MeterInv, KeyIsMetered, Current
  <2>7. spent(o)' = spent(o) + usd /\ spent(o) \in Nat
    BY <1>2, <1>9, <1>12, <2>6, RecordCharges, SpentIsNat
  <2>8. r \in InFlight(o)
    BY <1>1, <1>2, <1>12 DEF InFlight
  <2>9. PICK n, m, all : n = Cardinality(InFlight(o)) /\ m = Cardinality(InFlight(o)') /\ all = Cardinality(Requests)
    OBVIOUS
  <2>10. n \in Nat /\ m = n - 1 /\ m \in Nat /\ all \in Nat
    BY <1>6, <2>8, <2>9, FlightsFinite, FS_RemoveElement, FS_CardinalityType
  <2>11. spent(o) + n * Cost <= FreeCredit + all * Cost
    BY <1>9, <2>9 DEF Committed
  <2>12. n * Cost = m * Cost + Cost /\ m * Cost \in Nat /\ all * Cost \in Nat
    BY <1>3, <2>10
  <2>13. spent(o) + usd + m * Cost <= FreeCredit + all * Cost
    BY <1>3, <2>7, <2>11, <2>12, ControlAssumption
  <2> QED BY <2>7, <2>9, <2>13 DEF Committed
<1> QED BY <1>10, <1>11, <1>12

LEMMA OverdraftInvNext ==
    KeyInv /\ CacheInv /\ BookInv /\ MeterInv /\ OverdraftInv /\ [Next]_vars => OverdraftInv'
<1> SUFFICES ASSUME KeyInv, CacheInv, BookInv, MeterInv, OverdraftInv, [Next]_vars
             PROVE  OverdraftInv'
  OBVIOUS
<1> DEFINE Goal(o) == (Committed(o) <= FreeCredit + Cardinality(Requests) * Cost)'
<1>1. ASSUME UNCHANGED <<usage, served, front>>, NEW o \in Orgs, accounts,
             Cardinality(ServedBy(o)') <= 1,
             \/ InFlight(o)' \subseteq InFlight(o)
             \/ quota_ok(o) /\ orgs[o] # NoRow
      PROVE  Goal(o)
  <2>1. Cardinality(ServedBy(o)) <= 1
    BY <1>1, ServersFinite DEF BookInv
  <2> QED BY <1>1, <2>1, LettingInIsBounded DEF OverdraftInv
<1>2. CASE Quiet
  <2>1. UNCHANGED <<usage, served, front>>
    BY <1>2 DEF Quiet
  <2>2. ASSUME NEW o \in Orgs, accounts
        PROVE  \/ InFlight(o)' \subseteq InFlight(o)
               \/ quota_ok(o) /\ orgs[o] # NoRow
    <3>1. ASSUME NEW r \in Requests, r \in InFlight(o)', r \notin InFlight(o)
          PROVE  quota_ok(o) /\ orgs[o] # NoRow
      <4>1. Flying(req'[r]) /\ keys'[req'[r].key].org = o
        BY <3>1 DEF InFlight
      <4>2. /\ req'[r].key \in Keys /\ Minted(req'[r].key)
            /\ \/ Flying(req[r]) /\ req'[r].key = req[r].key
               \/ quota_ok(keys[req'[r].key].org)
        BY <1>2, <2>2, <4>1 DEF Quiet, Carried
      <4>3. keys[req'[r].key].org = o /\ orgs[o] # NoRow
        BY <4>1, <4>2, MintedStay DEF KeyInv, AccountInv
      <4> QED BY <3>1, <4>2, <4>3 DEF InFlight
    <3> QED BY <3>1 DEF InFlight
  <2>3. RowsFinite'
    BY <2>1, SpentStays DEF OverdraftInv
  <2> QED BY <1>1, <2>1, <2>2, <2>3 DEF OverdraftInv, accounts
<1>3. ASSUME NEW r \in Requests, Selects(r) PROVE OverdraftInv'
  <2>1. PICK x : /\ req' = [req EXCEPT ![r] = x]
                 /\ x.pc = "record" /\ x.key = req[r].key
    BY <1>3 DEF Selects
  <2>2. UNCHANGED <<keys, usage, served, front>> /\ Flying(req[r])
    BY <1>3 DEF Selects
  <2>3. \A z \in Requests : req'[z] = IF z = r THEN x ELSE req[z]
    BY <2>1 DEF KeyInv, AdmissionInv
  <2>4. \A o \in Orgs : InFlight(o)' \subseteq InFlight(o)
    BY <2>1, <2>2, <2>3 DEF InFlight
  <2>5. RowsFinite'
    BY <2>2, SpentStays DEF OverdraftInv
  <2> QED BY <1>1, <2>2, <2>4, <2>5 DEF OverdraftInv, accounts
<1>4. ASSUME NEW r \in Requests, Keeps(r) PROVE OverdraftInv'
  <2>1. UNCHANGED <<usage, front>> /\ ~accounts
    BY <1>4 DEF Keeps
  <2> QED BY <2>1, SpentStays DEF OverdraftInv, accounts
<1>5. ASSUME NEW r \in Requests, Record(r) PROVE OverdraftInv'
  <2>1. RowsFinite'
    <3>1. CASE UNCHANGED usage
      BY <3>1, SpentStays DEF OverdraftInv
    <3>2. CASE ~UNCHANGED usage
      BY <1>5, <3>2, RecordCharges DEF OverdraftInv
    <3> QED BY <3>1, <3>2
  <2> QED BY <1>5, <2>1, RecordIsBounded DEF OverdraftInv
<1>6. ASSUME NEW k \in Keys, GatewayCharges(k) PROVE OverdraftInv'
  <2> DEFINE new == Incremented(NoRow, Cost, FALSE)
  <2>1. /\ usage' = [usage EXCEPT ![<<k, 0>>] = new] /\ front = "edge" /\ UNCHANGED <<keys, front>>
    BY <1>6 DEF GatewayCharges
  <2>2. new # NoRow
    BY IncrementedIsRow, GatewayAssumption
  <2>3. 0 \in Days
    <3>1. MaxClock \div DayLength \in Nat
      BY ControlAssumption
    <3> QED BY <3>1 DEF Days
  <2> HIDE DEF new
  <2>4. RowsFinite'
    BY <2>1, <2>2, <2>3, SpentGrows DEF OverdraftInv
  <2> QED BY <2>1, <2>4 DEF OverdraftInv, accounts
<1> QED BY <1>2, <1>3, <1>4, <1>5, <1>6, StepsOfTheBooks

LEMMA OverdraftInvBounds == KeyInv /\ BookInv /\ OverdraftInv => OverdraftBounded
<1> SUFFICES ASSUME KeyInv, BookInv, OverdraftInv, accounts, NEW o \in Orgs, orgs[o] # NoRow,
                    Cardinality(ServedBy(o)) <= 1
             PROVE  spent(o) <= granted(o) + Cardinality(Requests) * Cost
  BY DEF OverdraftBounded
<1>1. granted(o) = FreeCredit /\ FreeCredit \in Nat
  BY ControlAssumption DEF KeyInv, AccountInv, granted
<1>2. spent(o) \in Nat
  BY SpentIsNat DEF OverdraftInv
<1>3. PICK n, all : n = Cardinality(InFlight(o)) /\ all = Cardinality(Requests)
  OBVIOUS
<1>4. n \in Nat /\ all \in Nat /\ Cost \in Nat /\ spent(o) + n * Cost <= FreeCredit + all * Cost
  BY <1>3, FlightsFinite DEF OverdraftInv, Committed
<1>5. n * Cost \in Nat /\ all * Cost \in Nat
  BY <1>4
<1> QED BY <1>1, <1>2, <1>3, <1>4, <1>5

-----------------------------------------------------------------------------
(* Prices *)

LEMMA PairExtremes ==
    ASSUME NEW a \in Int, NEW b \in Int
    PROVE  /\ Max({a, b}) = IF a >= b THEN a ELSE b
           /\ Min({a, b}) = IF a <= b THEN a ELSE b
<1>1. \E x \in {a, b} : \A y \in {a, b} : x >= y
  OBVIOUS
<1>2. \E x \in {a, b} : \A y \in {a, b} : x <= y
  OBVIOUS
<1>3. Max({a, b}) \in {a, b} /\ \A y \in {a, b} : Max({a, b}) >= y
  BY <1>1 DEF Max
<1>4. Min({a, b}) \in {a, b} /\ \A y \in {a, b} : Min({a, b}) <= y
  BY <1>2 DEF Min
<1> QED BY <1>3, <1>4

LEMMA Quotient ==
    ASSUME NEW a \in Nat, NEW b \in Nat \ {0}
    PROVE  /\ a \div b \in Nat /\ a % b \in 0 .. b - 1
           /\ a = ((a \div b) * b) + (a % b)
  OBVIOUS

(* Rounding stays below a bound that is whole, and reaches it *)
LEMMA RoundedIs ==
    ASSUME NEW a \in Nat, NEW b \in Nat \ {0}
    PROVE  /\ Rounded(a, b) \in Nat
           /\ \A n \in Nat : a <= n * b => Rounded(a, b) <= n
<1> DEFINE q == a \div b
           m == a % b
<1>1. q \in Nat /\ m \in 0 .. b - 1 /\ a = q * b + m
  BY Quotient
<1>2. Rounded(a, b) = IF 2 * m > b \/ (2 * m = b /\ q % 2 = 1) THEN q + 1 ELSE q
  BY DEF Rounded
<1> HIDE DEF q, m
<1>3. ASSUME NEW n \in Nat, a <= n * b PROVE Rounded(a, b) <= n
  <2>1. q * b \in Nat /\ n * b \in Nat /\ q * b <= n * b
    BY <1>1, <1>3
  <2>2. q <= n
    <3>1. ASSUME n + 1 <= q PROVE FALSE
      <4>1. (n + 1) * b <= q * b
        BY <1>1, <3>1, TimesMonotone
      <4>2. (n + 1) * b = n * b + b
        OBVIOUS
      <4> QED BY <2>1, <4>1, <4>2
    <3> QED BY <1>1, <3>1
  <2>3. q = n => m = 0
    BY <1>1, <1>3, <2>1
  <2> QED BY <1>1, <1>2, <2>2, <2>3
<1> QED BY <1>1, <1>2, <1>3

LEMMA RoundedExactly ==
    ASSUME NEW n \in Nat, NEW b \in Nat \ {0}
    PROVE  Rounded(n * b, b) = n
<1>1. (n * b) \div b = n /\ (n * b) % b = 0 /\ n * b \in Nat
  <2> DEFINE q == (n * b) \div b
             m == (n * b) % b
  <2>1. n * b \in Nat
    OBVIOUS
  <2>2. q \in Nat /\ m \in 0 .. b - 1 /\ n * b = q * b + m
    BY <2>1, Quotient
  <2> HIDE DEF q, m
  <2>3. ASSUME q + 1 <= n PROVE FALSE
    <3>1. (q + 1) * b <= n * b
      BY <2>2, <2>3, TimesMonotone
    <3>2. (q + 1) * b = q * b + b /\ q * b \in Nat
      BY <2>2
    <3> QED BY <2>2, <3>1, <3>2
  <2>4. ASSUME n + 1 <= q PROVE FALSE
    <3>1. (n + 1) * b <= q * b
      BY <2>2, <2>4, TimesMonotone
    <3>2. (n + 1) * b = n * b + b /\ q * b \in Nat
      BY <2>2
    <3> QED BY <2>1, <2>2, <3>1, <3>2
  <2>5. q = n
    BY <2>2, <2>3, <2>4
  <2>6. m = 0
    BY <2>1, <2>2, <2>5
  <2> QED BY <2>1, <2>5, <2>6 DEF q, m
<1> QED BY <1>1 DEF Rounded

LEMMA CeilingIs ==
    ASSUME NEW a \in Nat, NEW b \in Nat \ {0}
    PROVE  /\ Ceiling(a, b) \in Nat
           /\ \A c \in Nat : a <= c => Ceiling(a, b) <= Ceiling(c, b)
<1>1. a + b - 1 \in Nat
  OBVIOUS
<1>2. ASSUME NEW c \in Nat, a <= c PROVE Ceiling(a, b) <= Ceiling(c, b)
  <2> DEFINE x == a + b - 1
             y == c + b - 1
             q == x \div b
             p == y \div b
  <2>1. x \in Nat /\ y \in Nat /\ x <= y
    BY <1>2
  <2> HIDE DEF x, y
  <2>2. /\ q \in Nat /\ x % b \in 0 .. b - 1 /\ x = (q * b) + (x % b)
        /\ p \in Nat /\ y % b \in 0 .. b - 1 /\ y = (p * b) + (y % b)
    BY <2>1, Quotient
  <2> HIDE DEF p, q
  <2>3. ASSUME p + 1 <= q PROVE FALSE
    <3>1. (p + 1) * b <= q * b
      BY <2>2, <2>3, TimesMonotone
    <3>2. (p + 1) * b = p * b + b /\ q * b \in Nat /\ p * b \in Nat
      BY <2>2
    <3> QED BY <2>1, <2>2, <3>1, <3>2
  <2>4. q <= p
    BY <2>2, <2>3
  <2> QED BY <2>4 DEF Ceiling, p, q, x, y
<1> QED BY <1>1, <1>2, Quotient DEF Ceiling

LEMMA SquareLess ==
    ASSUME NEW a \in Nat, NEW b \in Nat, NEW c \in Nat \ {0}, a * a * c <= b * b * c
    PROVE  a <= b
<1> SUFFICES ASSUME b + 1 <= a PROVE FALSE
  OBVIOUS
<1>1. b * b <= a * b /\ (b + 1) * a <= a * a
  BY TimesMonotone
<1>2. (b + 1) * a = a * b + a /\ a * a \in Nat /\ a * b \in Nat /\ b * b \in Nat
  OBVIOUS
<1>3. b * b + 1 <= a * a
  BY <1>1, <1>2
<1>4. (b * b + 1) * c <= (a * a) * c
  BY <1>2, <1>3, TimesMonotone
<1>5. (b * b + 1) * c = b * b * c + c /\ b * b * c \in Nat /\ (a * a) * c = a * a * c
  BY <1>2
<1> QED BY <1>4, <1>5

(* The floor of a root exists below n when the root does *)
LEMMA FloorRootIs ==
    ASSUME NEW a \in Nat, NEW b \in Nat, NEW n \in Nat, (n + 1) * (n + 1) * b > a
    PROVE  LET k == FloorRoot(a, b, n) IN
           k \in 0 .. n /\ k * k * b <= a /\ (k + 1) * (k + 1) * b > a
<1> DEFINE T == {k \in Nat : (k + 1) * (k + 1) * b > a}
<1>1. PICK k \in T : \A y \in T : k <= y
  <2>1. T \subseteq Nat /\ n \in T
    OBVIOUS
  <2>2. IsWellFoundedOn(OpToRel(<, Nat), Nat)
    BY NatLessThanWellFounded
  <2>3. PICK x \in T : \A y \in T : <<y, x>> \notin OpToRel(<, Nat)
    <3> DEFINE R == OpToRel(<, Nat)
    <3>1. IsWellFoundedOn(R, Nat)
      BY <2>2
    <3> HIDE DEF R, T
    <3>2. \E x \in T : \A y \in T : <<y, x>> \notin R
      BY <2>1, <3>1, WFMin
    <3> QED BY <3>2 DEF R
  <2>4. ASSUME NEW y \in T PROVE x <= y
    <3>1. x \in Nat /\ y \in Nat
      OBVIOUS
    <3>2. ~(y < x)
      BY <2>3, <3>1 DEF OpToRel
    <3> QED BY <3>1, <3>2
  <2> QED BY <2>4
<1>2. k \in 0 .. n
  <2>1. n \in T
    OBVIOUS
  <2> QED BY <1>1, <2>1
<1>3. k * k * b <= a
  <2>1. CASE k = 0
    <3>1. k * k * b = 0
      BY <2>1
    <3> QED BY <3>1
  <2>2. CASE k > 0
    <3>1. k - 1 \in Nat /\ ~(k <= k - 1)
      BY <1>2, <2>2
    <3>2. k - 1 \notin T
      <4> HIDE DEF T
      <4> QED BY <1>1, <3>1
    <3>3. ~(((k - 1) + 1) * ((k - 1) + 1) * b > a)
      BY <3>1, <3>2
    <3>4. (k - 1) + 1 = k
      BY <1>2
    <3>5. ~(k * k * b > a)
      BY <3>3, <3>4
    <3> QED BY <1>2, <3>5
  <2> QED BY <1>2, <2>1, <2>2
<1>4. (k + 1) * (k + 1) * b > a
  BY <1>1
<1> HIDE DEF T
<1> QED BY <1>2, <1>3, <1>4 DEF FloorRoot

LEMMA TimesGrows ==
    ASSUME NEW a \in Nat, NEW b \in Nat, NEW c \in Nat, NEW d \in Nat, a <= b, c <= d
    PROVE  a * c \in Nat /\ b * d \in Nat /\ a * c <= b * d
<1>1. a * c <= b * c /\ a * c \in Nat
  BY TimesMonotone
<1>2. c * b <= d * b /\ b * d \in Nat /\ c * b = b * c /\ d * b = b * d
  BY TimesMonotone
<1> QED BY <1>1, <1>2

LEMMA ProductsRegroup ==
    ASSUME NEW x \in Nat, NEW y \in Nat, NEW w \in Nat, NEW h \in Nat, NEW g \in Nat
    PROVE  /\ (x * x * (w * g)) * (y * y * (h * g)) = (x * y * g) * (x * y * g) * (w * h)
           /\ \A m \in Nat : (h * m) * (w * m) = m * m * (w * h)
<1>1. (x * x * (w * g)) * (y * y * (h * g)) = (x * y * g) * (x * y * g) * (w * h)
  OBVIOUS
<1>2. \A m \in Nat : (h * m) * (w * m) = m * m * (w * h)
  OBVIOUS
<1> QED BY <1>1, <1>2

(* A screen scaled down to a pixel budget m fits it *)
LEMMA ScaledDownFits ==
    ASSUME NEW w \in Nat \ {0}, NEW h \in Nat \ {0}, NEW g \in Nat \ {0}, NEW m \in Nat,
           NEW x \in Nat, NEW y \in Nat,
           x * x * (w * g) <= h * m, y * y * (h * g) <= w * m
    PROVE  x * y * g <= m
<1>1. /\ x * x * (w * g) \in Nat /\ h * m \in Nat /\ y * y * (h * g) \in Nat /\ w * m \in Nat
      /\ x * y * g \in Nat /\ w * h \in Nat \ {0}
  OBVIOUS
<1>2. (x * x * (w * g)) * (y * y * (h * g)) <= (h * m) * (w * m)
  BY <1>1, TimesGrows
<1>3. (x * y * g) * (x * y * g) * (w * h) <= m * m * (w * h)
  BY <1>2, ProductsRegroup
<1> QED BY <1>1, <1>3, SquareLess

LEMMA BlocksAre ==
    ASSUME NEW n \in Nat \ {0}
    PROVE  Blocks(n) \in 1 .. n
<1>1. Factor \in Nat \ {0}
  BY PricingAssumption
<1>2. n <= n * Factor
  <2>1. 1 * n <= Factor * n
    BY <1>1, TimesMonotone
  <2> QED BY <1>1, <2>1
<1>3. Rounded(n, Factor) \in Nat /\ Rounded(n, Factor) <= n
  BY <1>1, <1>2, RoundedIs
<1> DEFINE r == Rounded(n, Factor)
<1> HIDE DEF r
<1>4. Max({1, r}) = IF 1 >= r THEN 1 ELSE r
  BY <1>3, PairExtremes DEF r
<1> QED BY <1>3, <1>4 DEF Blocks, r

LEMMA BlocksDownIs ==
    ASSUME NEW n \in Nat \ {0}, NEW m \in Nat \ {0}, MaxPixels <= n * m * (Factor * Factor)
    PROVE  /\ BlocksDown(n, m) \in Nat \ {0}
           /\ BlocksDown(n, m) # 1
                => BlocksDown(n, m) * BlocksDown(n, m) * (m * (Factor * Factor)) <= n * MaxPixels
<1> DEFINE g == Factor * Factor
           b == m * g
           a == n * MaxPixels
           k == FloorRoot(a, b, n)
<1>1. g \in Nat \ {0} /\ MaxPixels \in Nat /\ b \in Nat /\ a \in Nat
  BY PricingAssumption
<1>2. m * Factor * Factor = b
  BY PricingAssumption
<1> HIDE DEF g
<1>3. (n + 1) * (n + 1) * b > a
  <2>1. MaxPixels * n <= (n * m * g) * n
    BY <1>1, TimesMonotone DEF g
  <2>2. (n * m * g) * n = n * n * b /\ MaxPixels * n = a
    BY <1>1
  <2>3. (n + 1) * (n + 1) * b = n * n * b + (2 * n + 1) * b /\ n * n * b \in Nat
    BY <1>1
  <2>4. (2 * n + 1) * b > 0
    BY <1>1
  <2> QED BY <1>1, <2>1, <2>2, <2>3, <2>4
<1>4. k \in 0 .. n /\ k * k * b <= a
  <2> HIDE DEF a, b
  <2> QED BY <1>1, <1>3, FloorRootIs
<1>5. BlocksDown(n, m) = Max({1, k})
  BY <1>2 DEF BlocksDown
<1> HIDE DEF k, a, b
<1>6. Max({1, k}) = IF 1 >= k THEN 1 ELSE k
  BY <1>4, PairExtremes
<1> QED BY <1>4, <1>5, <1>6 DEF a, b, g

(* What Dexa is billed for a screen *)
LEMMA DexaTokens ==
    ASSUME NEW w \in Nat \ {0}, NEW h \in Nat \ {0}
    PROVE  LET n == qwen_vision_tokens(w, h) IN
           /\ n \in Nat /\ n >= 1
           /\ n * Factor * Factor <= MaxPixels \/ 1 \in {BlocksDown(w, h), BlocksDown(h, w)}
           /\ n = qwen_vision_tokens(h, w)
<1> DEFINE p == Blocks(h)
           q == Blocks(w)
           g == Factor * Factor
           x == BlocksDown(h, w)
           y == BlocksDown(w, h)
<1>1. Factor \in Nat \ {0} /\ g \in Nat \ {0} /\ MaxPixels \in Nat \ {0} /\ MinPixels \in Nat /\ MinPixels <= g
  BY PricingAssumption
<1>2. p \in 1 .. h /\ q \in 1 .. w
  BY BlocksAre
<1>3. p * q \in Nat \ {0} /\ p * q * Factor * Factor = p * q * g /\ q * p * Factor * Factor = p * q * g
  BY <1>1, <1>2
<1> HIDE DEF p, q, x, y
<1>4. ~(p * q * g < MinPixels)
  <2>1. 1 * g <= (p * q) * g
    BY <1>1, <1>3, TimesMonotone
  <2> QED BY <1>1, <1>3, <2>1
<1>5. CASE p * q * g > MaxPixels
  <2>1. qwen_vision_tokens(w, h) = x * y /\ qwen_vision_tokens(h, w) = y * x
    BY <1>3, <1>4, <1>5 DEF qwen_vision_tokens, p, q, x, y
  <2>2. p * q * g <= h * w * g
    <3>1. p * q <= h * w /\ p * q \in Nat /\ h * w \in Nat
      BY <1>2, TimesGrows
    <3> HIDE DEF g
    <3> QED BY <1>1, <3>1, TimesMonotone
  <2>3. MaxPixels <= h * w * g /\ MaxPixels <= w * h * g
    <3>1. h * w = w * h /\ h * w * g \in Nat /\ p * q * g \in Nat
      BY <1>1, <1>2
    <3> QED BY <1>1, <1>5, <2>2, <3>1
  <2>4. /\ x \in Nat \ {0} /\ (x # 1 => x * x * (w * g) <= h * MaxPixels)
        /\ y \in Nat \ {0} /\ (y # 1 => y * y * (h * g) <= w * MaxPixels)
    BY <2>3, BlocksDownIs DEF x, y
  <2>5. x * y \in Nat \ {0} /\ x * y = y * x /\ (x * y) * Factor * Factor = x * y * g
    BY <1>1, <2>4
  <2>6. x # 1 /\ y # 1 => x * y * g <= MaxPixels
    <3> HIDE DEF g
    <3> QED BY <1>1, <2>4, ScaledDownFits
  <2> QED BY <2>1, <2>4, <2>5, <2>6 DEF x, y
<1>6. CASE ~(p * q * g > MaxPixels)
  <2>1. qwen_vision_tokens(w, h) = p * q /\ qwen_vision_tokens(h, w) = q * p
    BY <1>3, <1>4, <1>6 DEF qwen_vision_tokens, p, q
  <2>2. p * q = q * p /\ p * q * g \in Nat
    BY <1>1, <1>2
  <2> QED BY <1>1, <1>3, <1>6, <2>1, <2>2
<1> QED BY <1>5, <1>6

(* The tiles of a screen that fits one side in a and the other in b *)
LEMMA TilesFit ==
    ASSUME NEW x \in Nat, NEW y \in Nat, NEW a \in Nat, NEW b \in Nat, x <= a, y <= b
    PROVE  LET n == Ceiling(x, Tile) * Ceiling(y, Tile) IN
           /\ n \in Nat /\ n <= Ceiling(a, Tile) * Ceiling(b, Tile)
           /\ n = Ceiling(y, Tile) * Ceiling(x, Tile)
<1> DEFINE cx == Ceiling(x, Tile)
           cy == Ceiling(y, Tile)
           ca == Ceiling(a, Tile)
           cb == Ceiling(b, Tile)
<1>1. cx \in Nat /\ cy \in Nat /\ ca \in Nat /\ cb \in Nat /\ cx <= ca /\ cy <= cb
  BY PricingAssumption, CeilingIs
<1> HIDE DEF cx, cy, ca, cb
<1>2. cx * cy \in Nat /\ cx * cy <= ca * cb /\ cx * cy = cy * cx
  BY <1>1, TimesGrows
<1> QED BY <1>2 DEF cx, cy, ca, cb

(* What _openai_tiles makes of a screen: both sides within the long side *)
LongScaled(w, h) ==
    IF Max({w, h}) > LongSide THEN Scaled(<<w, h>>, Max({w, h}), LongSide) ELSE <<w, h>>

LEMMA LongScaledIs ==
    ASSUME NEW w \in Nat \ {0}, NEW h \in Nat \ {0}
    PROVE  LET s == LongScaled(w, h) IN
           /\ s[1] \in Nat /\ s[2] \in Nat /\ s[1] <= LongSide /\ s[2] <= LongSide
           /\ LongScaled(h, w) = <<s[2], s[1]>>
<1> DEFINE l == IF w >= h THEN w ELSE h
<1>1. LongSide \in Nat \ {0} /\ l \in Nat \ {0} /\ w <= l /\ h <= l
  BY PricingAssumption
<1>2. Max({w, h}) = l /\ Max({h, w}) = l
  BY PairExtremes
<1> HIDE DEF l
<1>3. /\ w * LongSide \in Nat /\ w * LongSide <= LongSide * l
      /\ h * LongSide \in Nat /\ h * LongSide <= LongSide * l
  <2>1. l * LongSide = LongSide * l
    BY <1>1
  <2> QED BY <1>1, <2>1, TimesMonotone
<1> DEFINE rw == Rounded(w * LongSide, l)
           rh == Rounded(h * LongSide, l)
<1>4. /\ rw \in Nat /\ rw <= LongSide
      /\ rh \in Nat /\ rh <= LongSide
  BY <1>1, <1>3, RoundedIs
<1>5. CASE l > LongSide
  <2>1. LongScaled(w, h) = <<rw, rh>> /\ LongScaled(h, w) = <<rh, rw>>
    BY <1>2, <1>5 DEF LongScaled, Scaled
  <2> HIDE DEF rw, rh
  <2> QED BY <1>4, <2>1
<1>6. CASE ~(l > LongSide)
  <2>1. LongScaled(w, h) = <<w, h>> /\ LongScaled(h, w) = <<h, w>>
    BY <1>2, <1>6 DEF LongScaled
  <2> QED BY <1>1, <1>6, <2>1
<1> QED BY <1>5, <1>6

(* ... and then the short side within its own *)
ShortScaled(s) ==
    IF Min({s[1], s[2]}) > ShortSide THEN Scaled(s, Min({s[1], s[2]}), ShortSide) ELSE s

LEMMA ShortScaledIs ==
    ASSUME NEW x \in Nat, NEW y \in Nat, x <= LongSide, y <= LongSide
    PROVE  LET t == ShortScaled(<<x, y>>) IN
           /\ t[1] \in Nat /\ t[2] \in Nat
           /\ \/ t[1] <= LongSide /\ t[2] <= ShortSide
              \/ t[1] <= ShortSide /\ t[2] <= LongSide
           /\ ShortScaled(<<y, x>>) = <<t[2], t[1]>>
<1> DEFINE l == IF x <= y THEN x ELSE y
           rx == Rounded(x * ShortSide, l)
           ry == Rounded(y * ShortSide, l)
<1>1. LongSide \in Nat \ {0} /\ ShortSide \in Nat \ {0} /\ l \in Nat /\ l <= LongSide
  BY PricingAssumption
<1>2. Min({x, y}) = l /\ Min({y, x}) = l
  BY PairExtremes
<1>3. CASE l > ShortSide
  <2>1. ASSUME NEW z \in {x, y}
        PROVE  Rounded(z * ShortSide, l) \in Nat /\ Rounded(z * ShortSide, l) <= LongSide
    <3>1. ShortSide * z <= l * z /\ z * l <= LongSide * l
      BY <1>1, <1>3, TimesMonotone
    <3>2. z * ShortSide \in Nat /\ z * ShortSide = ShortSide * z /\ l * z = z * l
          /\ l * z \in Nat /\ LongSide * l \in Nat
      BY <1>1
    <3>3. z * ShortSide <= LongSide * l
      BY <3>1, <3>2
    <3> HIDE DEF l
    <3> QED BY <1>1, <1>3, <3>2, <3>3, RoundedIs
  <2>2. Rounded(l * ShortSide, l) = ShortSide
    <3>1. l * ShortSide = ShortSide * l /\ l \in Nat \ {0}
      BY <1>1, <1>3
    <3> HIDE DEF l
    <3> QED BY <1>1, <3>1, RoundedExactly
  <2>3. rx \in Nat /\ rx <= LongSide /\ ry \in Nat /\ ry <= LongSide
    BY <2>1
  <2>4. (x <= y => rx = ShortSide) /\ (~(x <= y) => ry = ShortSide)
    BY <2>2
  <2>5. ShortScaled(<<x, y>>) = <<rx, ry>> /\ ShortScaled(<<y, x>>) = <<ry, rx>>
    <3> HIDE DEF l
    <3> QED BY <1>2, <1>3 DEF ShortScaled, Scaled
  <2> HIDE DEF l, rx, ry
  <2> QED BY <1>1, <2>3, <2>4, <2>5
<1>4. CASE ~(l > ShortSide)
  <2>1. ShortScaled(<<x, y>>) = <<x, y>> /\ ShortScaled(<<y, x>>) = <<y, x>>
    BY <1>2, <1>4 DEF ShortScaled
  <2> QED BY <1>1, <1>4, <2>1
<1> QED BY <1>3, <1>4

(* OpenAI's tiles *)
LEMMA TilesAre ==
    ASSUME NEW w \in Nat \ {0}, NEW h \in Nat \ {0}
    PROVE  /\ OpenAITiles(w, h) \in 0 .. Ceiling(LongSide, Tile) * Ceiling(ShortSide, Tile)
           /\ OpenAITiles(w, h) = OpenAITiles(h, w)
<1> DEFINE s == LongScaled(w, h)
           t == ShortScaled(<<s[1], s[2]>>)
<1>1. /\ s[1] \in Nat /\ s[2] \in Nat /\ s[1] <= LongSide /\ s[2] <= LongSide
      /\ LongScaled(h, w) = <<s[2], s[1]>> /\ s = <<s[1], s[2]>>
  <2>1. s = <<s[1], s[2]>>
    BY DEF LongScaled, Scaled
  <2> HIDE DEF s
  <2> QED BY <2>1, LongScaledIs DEF s
<1>2. /\ t[1] \in Nat /\ t[2] \in Nat
      /\ \/ t[1] <= LongSide /\ t[2] <= ShortSide
         \/ t[1] <= ShortSide /\ t[2] <= LongSide
      /\ ShortScaled(<<s[2], s[1]>>) = <<t[2], t[1]>>
  <2>1. PICK x \in Nat, y \in Nat : x = s[1] /\ y = s[2]
    BY <1>1
  <2>2. x <= LongSide /\ y <= LongSide
    BY <1>1, <2>1
  <2> HIDE DEF s
  <2> QED BY <2>1, <2>2, ShortScaledIs
<1>3. OpenAITiles(w, h) = Ceiling(t[1], Tile) * Ceiling(t[2], Tile)
  <2>1. s = <<s[1], s[2]>>
    BY <1>1
  <2> QED BY <2>1 DEF OpenAITiles, LongScaled, ShortScaled
<1>4. OpenAITiles(h, w) = Ceiling(t[2], Tile) * Ceiling(t[1], Tile)
  <2>1. OpenAITiles(h, w) = Ceiling(ShortScaled(LongScaled(h, w))[1], Tile)
                             * Ceiling(ShortScaled(LongScaled(h, w))[2], Tile)
    BY DEF OpenAITiles, LongScaled, ShortScaled
  <2>2. ShortScaled(LongScaled(h, w)) = <<t[2], t[1]>>
    BY <1>1, <1>2
  <2> HIDE DEF t
  <2> QED BY <2>1, <2>2
<1>5. LongSide \in Nat /\ ShortSide \in Nat
  BY PricingAssumption
<1>6. PICK a \in Nat, b \in Nat : a = t[1] /\ b = t[2]
  BY <1>2
<1> DEFINE n == Ceiling(a, Tile) * Ceiling(b, Tile)
           m == Ceiling(LongSide, Tile) * Ceiling(ShortSide, Tile)
<1> HIDE DEF t
<1>7. n \in Nat /\ n <= m /\ m \in Nat /\ n = Ceiling(b, Tile) * Ceiling(a, Tile)
  <2>1. Ceiling(ShortSide, Tile) * Ceiling(LongSide, Tile) = m /\ m \in Nat
    BY <1>5, TilesFit
  <2>2. CASE a <= LongSide /\ b <= ShortSide
    BY <1>5, <2>1, <2>2, TilesFit
  <2>3. CASE a <= ShortSide /\ b <= LongSide
    BY <1>5, <2>1, <2>3, TilesFit
  <2> QED BY <1>2, <1>6, <2>2, <2>3
<1> HIDE DEF n, m
<1>8. OpenAITiles(w, h) = n /\ OpenAITiles(h, w) = n
  BY <1>3, <1>4, <1>6, <1>7 DEF n
<1>9. n \in 0 .. m
  BY <1>7
<1> QED BY <1>8, <1>9 DEF m

-----------------------------------------------------------------------------
(* Rounding a root up costs at most a half *)
LEMMA RoundRootIs ==
    ASSUME NEW a \in Nat, NEW b \in Nat, NEW n \in Nat, (n + 1) * (n + 1) * b > a
    PROVE  LET r == RoundRoot(a, b, n) IN
           r \in 0 .. n + 1 /\ (r > 0 => (2 * r - 1) * (2 * r - 1) * b <= 4 * a)
<1> DEFINE k == FloorRoot(a, b, n)
           r == RoundRoot(a, b, n)
<1>1. k \in 0 .. n /\ k * k * b <= a
  BY FloorRootIs
<1>2. r = k \/ (r = k + 1 /\ (2 * k + 1) * (2 * k + 1) * b <= 4 * a)
  <2>1. k \in Nat /\ (2 * k + 1) * (2 * k + 1) * b \in Nat
    BY <1>1
  <2>2. r = IF (2 * k + 1) * (2 * k + 1) * b < 4 * a
               \/ ((2 * k + 1) * (2 * k + 1) * b = 4 * a /\ k % 2 = 1) THEN k + 1 ELSE k
    BY DEF RoundRoot
  <2> HIDE DEF k, r
  <2> QED BY <2>1, <2>2
<1> HIDE DEF k, r
<1>3. CASE r = k
  <2>1. SUFFICES ASSUME k > 0 PROVE (2 * k - 1) * (2 * k - 1) * b <= 4 * a
    BY <1>1, <1>3 DEF r
  <2>2. (2 * k) * (2 * k) * b = 4 * (k * k * b) /\ k * k * b \in Nat
    BY <1>1
  <2>3. (2 * k - 1) * (2 * k - 1) <= (2 * k) * (2 * k)
    BY <1>1, <2>1, TimesGrows
  <2>4. (2 * k - 1) * (2 * k - 1) * b <= (2 * k) * (2 * k) * b
    <3>1. (2 * k - 1) * (2 * k - 1) \in Nat /\ (2 * k) * (2 * k) \in Nat
      BY <1>1, <2>1
    <3> QED BY <2>3, <3>1, TimesMonotone
  <2>5. (2 * k - 1) * (2 * k - 1) * b \in Nat
    BY <1>1, <2>1
  <2> QED BY <1>1, <2>2, <2>4, <2>5
<1>4. CASE r = k + 1 /\ (2 * k + 1) * (2 * k + 1) * b <= 4 * a
  <2>1. 2 * r - 1 = 2 * k + 1 /\ r \in 0 .. n + 1
    BY <1>1, <1>4
  <2> QED BY <1>4, <2>1 DEF r
<1> QED BY <1>2, <1>3, <1>4

(* What Claude is billed for a screen *)
LEMMA ClaudeTokens ==
    ASSUME NEW w \in Nat \ {0}, NEW h \in Nat \ {0}
    PROVE  LET n == anthropic_image_tokens(w, h) IN
           /\ n \in Nat /\ n <= Ceiling(PixelCap + w + h, PixelsPerToken)
           /\ n = anthropic_image_tokens(h, w)
<1> DEFINE x == RoundRoot(w * PixelCap, h, w)
           y == RoundRoot(h * PixelCap, w, h)
<1>1. PixelCap \in Nat \ {0} /\ PixelsPerToken \in Nat \ {0} /\ w * h \in Nat /\ w * h = h * w
  BY PricingAssumption
<1>2. ASSUME NEW z \in Nat, z <= PixelCap + w + h
      PROVE  /\ Ceiling(z, PixelsPerToken) \in Nat
             /\ Ceiling(z, PixelsPerToken) <= Ceiling(PixelCap + w + h, PixelsPerToken)
  <2>1. PixelCap + w + h \in Nat
    BY <1>1
  <2> QED BY <1>1, <1>2, <2>1, CeilingIs
<1>3. CASE w * h > PixelCap
  <2>1. ASSUME NEW a \in Nat \ {0}, NEW b \in Nat \ {0}, a * b > PixelCap
        PROVE  LET r == RoundRoot(a * PixelCap, b, a) IN
               r \in 0 .. a + 1 /\ (r > 0 => (2 * r - 1) * (2 * r - 1) * b <= a * (4 * PixelCap))
    <3>1. PixelCap * a <= (a * b) * a
      <4>1. a * b \in Nat
        OBVIOUS
      <4> QED BY <1>1, <2>1, <4>1, TimesMonotone
    <3>2. (a + 1) * (a + 1) * b = (a * b) * a + (2 * a + 1) * b
      OBVIOUS
    <3>3. (2 * a + 1) * b > 0 /\ (2 * a + 1) * b \in Nat /\ (a * b) * a \in Nat
          /\ a * PixelCap = PixelCap * a /\ a * PixelCap \in Nat
      BY <1>1
    <3>4. (a + 1) * (a + 1) * b > a * PixelCap
      BY <3>1, <3>2, <3>3
    <3>5. 4 * (a * PixelCap) = a * (4 * PixelCap)
      BY <1>1
    <3> QED BY <3>3, <3>4, <3>5, RoundRootIs
  <2>2. /\ x \in 0 .. w + 1 /\ (x > 0 => (2 * x - 1) * (2 * x - 1) * h <= w * (4 * PixelCap))
        /\ y \in 0 .. h + 1 /\ (y > 0 => (2 * y - 1) * (2 * y - 1) * w <= h * (4 * PixelCap))
    BY <1>1, <1>3, <2>1
  <2>3. /\ anthropic_image_tokens(w, h) = Ceiling(x * y, PixelsPerToken)
        /\ anthropic_image_tokens(h, w) = Ceiling(y * x, PixelsPerToken)
    BY <1>1, <1>3 DEF anthropic_image_tokens
  <2> HIDE DEF x, y
  <2>4. x * y \in Nat /\ x * y = y * x
    BY <2>2
  <2>5. x * y <= PixelCap + w + h
    <3>1. CASE x = 0 \/ y = 0
      <4>1. x * y = 0
        BY <2>2, <3>1
      <4> QED BY <1>1, <4>1
    <3>2. CASE x > 0 /\ y > 0
      <4> DEFINE p == 2 * x - 1
                 q == 2 * y - 1
                 m == 4 * PixelCap
      <4>1. p \in Nat /\ q \in Nat /\ m \in Nat
        BY <1>1, <2>2, <3>2
      <4>2. p * p * h <= w * m /\ q * q * w <= h * m
        BY <2>2, <3>2
      <4> HIDE DEF p, q, m
      <4>3. p * p * (h * 1) <= w * m /\ q * q * (w * 1) <= h * m
        <5>1. h * 1 = h /\ w * 1 = w
          OBVIOUS
        <5> QED BY <4>2, <5>1
      <4>4. p * q * 1 <= m
        BY <4>1, <4>3, ScaledDownFits
      <4>5. p * q * 1 = 4 * (x * y) - 2 * x - 2 * y + 1
        BY <2>2 DEF p, q
      <4> QED BY <1>1, <2>2, <2>4, <4>4, <4>5 DEF m
    <3> QED BY <2>2, <3>1, <3>2
  <2>6. /\ Ceiling(x * y, PixelsPerToken) \in Nat
        /\ Ceiling(x * y, PixelsPerToken) <= Ceiling(PixelCap + w + h, PixelsPerToken)
    BY <1>2, <2>4, <2>5
  <2> QED BY <2>3, <2>4, <2>6
<1>4. CASE ~(w * h > PixelCap)
  <2>1. /\ anthropic_image_tokens(w, h) = Ceiling(w * h, PixelsPerToken)
        /\ anthropic_image_tokens(h, w) = Ceiling(h * w, PixelsPerToken)
    BY <1>1, <1>4 DEF anthropic_image_tokens
  <2>2. w * h <= PixelCap + w + h
    BY <1>1, <1>4
  <2> QED BY <1>1, <1>2, <2>1, <2>2
<1> QED BY <1>3, <1>4

(* What any provider bills for a screen, and for the screen turned *)
LEMMA ImageTokensAre ==
    ASSUME NEW m \in DOMAIN Prices, NEW w \in Nat \ {0}, NEW h \in Nat \ {0}
    PROVE  /\ image_tokens(m, w, h) \in Nat
           /\ image_tokens(m, w, h) = image_tokens(m, h, w)
<1> DEFINE z == Schemes[m]
<1>1. z \in {"qwen", "openai", "openai_mini", "anthropic"}
  BY PricingAssumption
<1>2. CASE z = "qwen"
  <2>1. /\ image_tokens(m, w, h) = qwen_vision_tokens(w, h)
        /\ image_tokens(m, h, w) = qwen_vision_tokens(h, w)
    BY <1>2 DEF image_tokens
  <2> QED BY <2>1, DexaTokens
<1>3. CASE z \in {"openai", "openai_mini"}
  <2> DEFINE n == OpenAITiles(w, h)
  <2>1. /\ image_tokens(m, w, h) = openai_image_tokens(w, h, z)
        /\ image_tokens(m, h, w) = openai_image_tokens(h, w, z)
    BY <1>3 DEF image_tokens
  <2>2. /\ openai_image_tokens(w, h, z) = BaseTokens[z] + TileTokens[z] * n
        /\ openai_image_tokens(h, w, z) = BaseTokens[z] + TileTokens[z] * n
    BY TilesAre DEF openai_image_tokens
  <2>3. n \in Nat
    <3>1. LongSide \in Nat /\ ShortSide \in Nat
      BY PricingAssumption
    <3>2. Ceiling(LongSide, Tile) * Ceiling(ShortSide, Tile) \in Nat
      BY <3>1, TilesFit
    <3> QED BY <3>2, TilesAre
  <2>4. BaseTokens[z] \in Nat /\ TileTokens[z] \in Nat
    BY <1>3, PricingAssumption
  <2> HIDE DEF n, z
  <2>5. BaseTokens[z] + TileTokens[z] * n \in Nat
    BY <2>3, <2>4
  <2> QED BY <2>1, <2>2, <2>5
<1>4. CASE z = "anthropic"
  <2>1. /\ image_tokens(m, w, h) = anthropic_image_tokens(w, h)
        /\ image_tokens(m, h, w) = anthropic_image_tokens(h, w)
    BY <1>4 DEF image_tokens
  <2> QED BY <2>1, ClaudeTokens
<1> QED BY <1>1, <1>2, <1>3, <1>4

(* A sum over one image, and over two *)
LEMMA SumsOfTwo ==
    ASSUME NEW a \in Nat, NEW b \in Nat, NEW f, NEW g,
           DOMAIN f = 1 .. 1, f[1] = a, DOMAIN g = 1 .. 2, g[1] = a, g[2] = b
    PROVE  SumFunction(f) = a /\ SumFunction(g) = a + b
<1> DEFINE none == [i \in {} |-> 0]
<1>1. SumFunction(none) = 0
  <2>1. IsFiniteSet({})
    BY FS_EmptySet
  <2> QED BY <2>1, SumOfZeros
<1>2. RowAdds(none, f, 1, a)
  <2>1. 1 .. 1 = {1} /\ IsFiniteSet(DOMAIN none)
    BY FS_EmptySet
  <2> QED BY <2>1 DEF RowAdds
<1>3. RowAdds(f, g, 2, b)
  <2>1. 1 .. 1 = {1} /\ 1 .. 2 = {1, 2} /\ IsFiniteSet(DOMAIN f)
    BY FS_Singleton
  <2> QED BY <2>1 DEF RowAdds
<1> HIDE DEF none
<1>4. SumFunction(f) = a
  BY <1>1, <1>2, SumGrows
<1> QED BY <1>3, <1>4, SumGrows

LEMMA ShareIsAtMost ==
    ASSUME NEW a \in Int, NEW b \in Nat \ {0}, a <= 100 * b
    PROVE  a \div b \in Int /\ a \div b <= 100
<1> DEFINE q == a \div b
           r == a % b
<1>1. q \in Int /\ r \in 0 .. b - 1 /\ a = (q * b) + r
  OBVIOUS
<1> HIDE DEF q, r
<1>2. ASSUME 101 <= q PROVE FALSE
  <2>1. 101 * b <= q * b
    BY <1>1, <1>2, TimesMonotone
  <2> QED BY <1>1, <2>1
<1> QED BY <1>1, <1>2 DEF q

(* The cost of one screen and of two *)
LEMMA CostsAre ==
    ASSUME NEW m \in DOMAIN Prices, NEW w \in Nat \ {0}, NEW h \in Nat \ {0}
    PROVE  LET one == request_cost(m, <<<<w, h>>>>, 1, 1)
               two == request_cost(m, <<<<w, h>>, <<h, w>>>>, 1, 1)
           IN  /\ one.usd \in Nat /\ two.usd \in Nat /\ one.usd <= two.usd
               /\ Prices[m].in > 0 => one.usd > 0
<1> DEFINE a == image_tokens(m, w, h)
           f == [i \in DOMAIN <<<<w, h>>>> |->
                   image_tokens(m, <<<<w, h>>>>[i][1], <<<<w, h>>>>[i][2])]
           g == [i \in DOMAIN <<<<w, h>>, <<h, w>>>> |->
                   image_tokens(m, <<<<w, h>>, <<h, w>>>>[i][1], <<<<w, h>>, <<h, w>>>>[i][2])]
           in == Prices[m].in
           out == Prices[m].out
<1>1. a \in Nat /\ image_tokens(m, h, w) = a /\ in \in Nat /\ out \in Nat
  BY ImageTokensAre, PricingAssumption
<1>2. /\ DOMAIN f = 1 .. 1 /\ f[1] = a
      /\ DOMAIN g = 1 .. 2 /\ g[1] = a /\ g[2] = image_tokens(m, h, w)
  <2>1. DOMAIN f = 1 .. 1 /\ DOMAIN g = 1 .. 2
    OBVIOUS
  <2>2. 1 \in 1 .. 1 /\ 1 \in 1 .. 2 /\ 2 \in 1 .. 2
    OBVIOUS
  <2> QED BY <2>1, <2>2
<1>3. /\ request_cost(m, <<<<w, h>>>>, 1, 1).usd = (SumFunction(f) + 1) * in + 1 * out
      /\ request_cost(m, <<<<w, h>>, <<h, w>>>>, 1, 1).usd = (SumFunction(g) + 1) * in + 1 * out
  BY DEF request_cost
<1> HIDE DEF f, g, a, in, out
<1>4. SumFunction(f) = a /\ SumFunction(g) = a + a
  BY <1>1, <1>2, SumsOfTwo
<1>5. /\ (a + 1) * in \in Nat /\ (a + a + 1) * in \in Nat
      /\ (a + 1) * in <= (a + a + 1) * in
  BY <1>1, TimesMonotone
<1>6. in > 0 => (a + 1) * in > 0
  BY <1>1
<1> DEFINE one == request_cost(m, <<<<w, h>>>>, 1, 1).usd
           two == request_cost(m, <<<<w, h>>, <<h, w>>>>, 1, 1).usd
<1>7. one = (a + 1) * in + out /\ two = (a + a + 1) * in + out
  BY <1>1, <1>3, <1>4
<1> HIDE DEF one, two
<1>8. one \in Nat /\ two \in Nat /\ one <= two /\ (in > 0 => one > 0)
  BY <1>1, <1>5, <1>6, <1>7
<1> QED BY <1>8 DEF one, two, in

(* What a screen is billed is bounded whatever its size and whatever the   *)
(* sizes of the providers (pricing.py, image_tokens and compare).          *)
THEOREM PricesStayBounded == PricesAreBounded
<1> SUFFICES ASSUME NEW s \in Screens, s[1] > 0, s[2] > 0
             PROVE  /\ LET n == qwen_vision_tokens(s[1], s[2]) IN
                       /\ n >= 1
                       /\ n * Factor * Factor <= MaxPixels
                          \/ 1 \in {BlocksDown(s[1], s[2]), BlocksDown(s[2], s[1])}
                    /\ OpenAITiles(s[1], s[2])
                         \in 0 .. Ceiling(LongSide, Tile) * Ceiling(ShortSide, Tile)
                    /\ anthropic_image_tokens(s[1], s[2])
                         <= Ceiling(PixelCap + s[1] + s[2], PixelsPerToken)
                    /\ \A m \in DOMAIN Prices :
                          /\ image_tokens(m, s[1], s[2]) = image_tokens(m, s[2], s[1])
                          /\ LET one == compare(<<s>>, 1, 1, m)
                                 two == compare(<<s, Turned(s)>>, 1, 1, m)
                             IN  /\ two.ours.usd >= one.ours.usd
                                 /\ two.baseline.usd >= one.baseline.usd
                                 /\ one.saved_pct <= 100 /\ one.finite
                                 /\ m = Ours => one.saved_usd = 0
  BY DEF PricesAreBounded
<1>1. PICK w \in Nat \ {0}, h \in Nat \ {0} : s = <<w, h>>
  <2>1. Sides \subseteq Nat
    BY PricingAssumption
  <2>2. s \in Nat \X Nat
    BY <2>1 DEF Screens
  <2> QED BY <2>2
<1>2. s[1] = w /\ s[2] = h /\ Turned(s) = <<h, w>>
  BY <1>1 DEF Turned
<1>3. /\ LET n == qwen_vision_tokens(w, h) IN
         /\ n >= 1
         /\ n * Factor * Factor <= MaxPixels \/ 1 \in {BlocksDown(w, h), BlocksDown(h, w)}
      /\ OpenAITiles(w, h) \in 0 .. Ceiling(LongSide, Tile) * Ceiling(ShortSide, Tile)
      /\ anthropic_image_tokens(w, h) <= Ceiling(PixelCap + w + h, PixelsPerToken)
  BY DexaTokens, TilesAre, ClaudeTokens
<1>4. ASSUME NEW m \in DOMAIN Prices
      PROVE  /\ image_tokens(m, w, h) = image_tokens(m, h, w)
             /\ LET one == compare(<<<<w, h>>>>, 1, 1, m)
                    two == compare(<<<<w, h>>, <<h, w>>>>, 1, 1, m)
                IN  /\ two.ours.usd >= one.ours.usd /\ two.baseline.usd >= one.baseline.usd
                    /\ one.saved_pct <= 100 /\ one.finite
                    /\ m = Ours => one.saved_usd = 0
  <2> DEFINE o1 == request_cost(Ours, <<<<w, h>>>>, 1, 1)
             o2 == request_cost(Ours, <<<<w, h>>, <<h, w>>>>, 1, 1)
             b1 == request_cost(m, <<<<w, h>>>>, 1, 1)
             b2 == request_cost(m, <<<<w, h>>, <<h, w>>>>, 1, 1)
             one == compare(<<<<w, h>>>>, 1, 1, m)
             two == compare(<<<<w, h>>, <<h, w>>>>, 1, 1, m)
             pct == IF b1.usd > 0 THEN (100 * (b1.usd - o1.usd)) \div b1.usd ELSE 0
  <2>1. image_tokens(m, w, h) = image_tokens(m, h, w)
    BY ImageTokensAre
  <2>2. /\ o1.usd \in Nat /\ o2.usd \in Nat /\ o1.usd <= o2.usd /\ o1.usd > 0
        /\ b1.usd \in Nat /\ b2.usd \in Nat /\ b1.usd <= b2.usd
    BY PricingAssumption, CostsAre
  <2>3. /\ one.ours.usd = o1.usd /\ one.baseline.usd = b1.usd
        /\ two.ours.usd = o2.usd /\ two.baseline.usd = b2.usd
        /\ one.saved_usd = b1.usd - o1.usd /\ one.saved_pct = pct
    BY DEF compare
  <2>4. m = Ours => b1 = o1
    OBVIOUS
  <2>5. PICK x \in Nat, y \in Nat : x = b1.usd /\ y = o1.usd
    BY <2>2
  <2>6. pct <= 100
    <3>1. x > 0 => (100 * (x - y)) \div x <= 100
      <4>1. 100 * (x - y) \in Int /\ 100 * (x - y) <= 100 * x
        BY <2>5
      <4> QED BY <4>1, ShareIsAtMost
    <3> QED BY <2>5, <3>1
  <2>7. one.finite
    BY <2>2 DEF compare
  <2> HIDE DEF o1, o2, b1, b2, one, two, pct
  <2>8. two.ours.usd >= one.ours.usd /\ two.baseline.usd >= one.baseline.usd
    BY <2>2, <2>3
  <2>9. one.saved_pct <= 100 /\ (m = Ours => one.saved_usd = 0)
    BY <2>2, <2>3, <2>4, <2>6
  <2> QED BY <2>1, <2>7, <2>8, <2>9 DEF one, two
<1> QED BY <1>1, <1>2, <1>3, <1>4

(* What an org is billed is sound for any number of keys, days, processes  *)
(* and overlapping calls: no completion is counted twice or, within one    *)
(* process, lost; the overdraft of an org that one process serves is       *)
(* bounded by the calls in flight together; the in-memory ledger balances; *)
(* and the prices of every screen are bounded (metering.py, record and     *)
(* quota_ok; store.py, record; pricing.py).                                *)
THEOREM BillingStaysSound == Spec => []BillingIsSound
<1> DEFINE Inv == KeyInv /\ CacheInv /\ BookInv /\ StoreInv /\ MeterInv /\ OverdraftInv
<1>1. Init => Inv
  BY KeyInvInit, CacheInvInit, BookInvInit, StoreInvInit, MeterInvInit, OverdraftInvInit
<1>2. Inv /\ [Next]_vars => Inv'
  BY KeyInvNext, CacheInvNext, BookInvNext, StoreInvNext, MeterInvNext, OverdraftInvNext
<1>3. Inv => BillingIsSound
  BY MeterInvIsSound, OverdraftInvBounds, StoreInvBalances, PricesStayBounded DEF BillingIsSound
<1> QED BY <1>1, <1>2, <1>3, PTL DEF Spec

-----------------------------------------------------------------------------
(* How long a used-up credit lives *)

(* The credit of an org is used up when it is spent, and stays so *)
SpentInv ==
    /\ DOMAIN exhausted = Orgs
    /\ \A o \in Orgs : exhausted[o] # NoRow =>
          /\ front = "edge" /\ FreeCredit <= spent(o)
          /\ exhausted[o] \in Nat /\ exhausted[o] <= clock

(* A credit is cached up to a request after it was read, and it was read   *)
(* before it was used up                                                   *)
CachedCreditInv ==
    /\ DOMAIN kv.credit = Orgs
    /\ \A o \in Orgs : kv.credit[o] # NoRow =>
          LET e == kv.credit[o] IN
          /\ e.expires \in Nat /\ e.expires <= clock + CreditTTL
          /\ e.value > 0 /\ ~e.failed /\ exhausted[o] # NoRow =>
                e.expires <= exhausted[o] + CreditTTL + Lag

ReadCreditInv ==
    \A r \in Requests : req[r].pc = "credit put" =>
        LET q == req[r]
            broke == exhausted[keys[q.key].org] IN
        q.value > 0 /\ ~q.failed /\ broke # NoRow => q.since <= broke

CreditInv == SpentInv /\ CachedCreditInv /\ ReadCreditInv

LEMMA CreditInvInit == Init => CreditInv
<1> SUFFICES ASSUME Init PROVE CreditInv
  OBVIOUS
<1>1. SpentInv
  BY DEF Init, SpentInv
<1>2. kv.credit = [o \in Orgs |-> NoRow]
  BY DEF Init
<1>3. CachedCreditInv
  BY <1>2 DEF CachedCreditInv
<1>4. ReadCreditInv
  BY DEF Init, ReadCreditInv, Free
<1> QED BY <1>1, <1>3, <1>4 DEF CreditInv

(* A step that neither reads a credit nor lets a request in *)
Elsewhere ==
    /\ UNCHANGED <<kv, exhausted, front>>
    /\ clock' = clock \/ clock' = clock + 1
    /\ \A r \in Requests : req'[r].pc \in {"credit put", "forward"} => req'[r] = req[r]
    /\ \A o \in Orgs : front = "edge" /\ FreeCredit <= spent(o) => FreeCredit <= spent(o)'

LEMMA ElsewhereKeepsCredit ==
    ASSUME KeyInv, CreditInv, [Next]_vars, Elsewhere
    PROVE  CreditInv' /\ CreditWindow
<1>1. /\ clock \in Nat /\ CreditTTL \in Nat /\ UNCHANGED <<kv, exhausted, front>>
      /\ clock' = clock \/ clock' = clock + 1
  BY GatewayAssumption DEF KeyInv, AccountInv, RowTypes, Elsewhere
<1>2. PICK now \in Nat, later \in Nat : now = clock /\ later = clock' /\ now <= later
  BY <1>1
<1>3. SpentInv'
  <2> SUFFICES ASSUME NEW o \in Orgs, exhausted[o] # NoRow
               PROVE  front = "edge" /\ FreeCredit <= spent(o)' /\ exhausted[o] \in Nat
                      /\ exhausted[o] <= clock'
    BY <1>1 DEF CreditInv, SpentInv
  <2>1. front = "edge" /\ FreeCredit <= spent(o)' /\ exhausted[o] \in Nat /\ exhausted[o] <= now
    BY <1>2 DEF CreditInv, SpentInv, Elsewhere
  <2>2. PICK n \in Nat : n = exhausted[o] /\ n <= later
    BY <1>2, <2>1
  <2> QED BY <1>2, <2>1, <2>2
<1>4. CachedCreditInv'
  <2> SUFFICES ASSUME NEW o \in Orgs, kv.credit[o] # NoRow
               PROVE  kv.credit[o].expires \in Nat /\ kv.credit[o].expires <= clock' + CreditTTL
    BY <1>1 DEF CreditInv, CachedCreditInv
  <2>1. kv.credit[o].expires \in Nat /\ kv.credit[o].expires <= now + CreditTTL
    BY <1>2 DEF CreditInv, CachedCreditInv
  <2>2. PICK n \in Nat, ttl \in Nat : n = kv.credit[o].expires /\ ttl = CreditTTL
    BY <1>1, <2>1
  <2>3. n <= now + ttl
    BY <2>1, <2>2
  <2>4. n <= later + ttl
    <3>1. now <= later
      BY <1>2
    <3>2. now \in Nat /\ later \in Nat /\ n \in Nat /\ ttl \in Nat
      OBVIOUS
    <3> QED BY ONLY <2>3, <3>1, <3>2
  <2> QED BY <1>2, <2>2, <2>4
<1>5. ReadCreditInv'
  <2> SUFFICES ASSUME NEW r \in Requests, req'[r].pc = "credit put"
               PROVE  /\ req'[r] = req[r] /\ req[r].pc = "credit put"
                      /\ keys'[req[r].key].org = keys[req[r].key].org
    BY <1>1, ZenonT(40) DEF CreditInv, ReadCreditInv
  <2>1. req'[r] = req[r] /\ req[r].pc = "credit put"
    BY DEF Elsewhere
  <2>2. req[r].key \in Keys /\ Minted(req[r].key)
    BY <2>1 DEF KeyInv, AdmissionInv, Admitting
  <2> QED BY <2>1, <2>2, KeysAge DEF KeyInv
<1>6. CreditWindow
  BY DEF CreditWindow, Elsewhere
<1> QED BY <1>3, <1>4, <1>5, <1>6 DEF CreditInv

(* A request at the credit gate *)
LEMMA AtTheCreditGate ==
    ASSUME KeyInv, NEW r \in Requests, req[r].pc \in {"credit", "credit put"}
    PROVE  LET q == req[r]
               o == keys[q.key].org IN
           /\ q.since \in Nat /\ q.since <= clock /\ clock <= q.since + Lag
           /\ q.key \in Keys /\ Minted(q.key) /\ o \in Orgs
           /\ EdgeRemaining(o) = FreeCredit - spent(o)
           /\ clock \in Nat /\ Lag \in Nat /\ CreditTTL \in Nat \ {0} /\ FreeCredit \in Nat
<1> DEFINE q == req[r]
           o == keys[q.key].org
<1>1. /\ q.since \in Nat /\ q.since <= clock /\ clock <= q.since + Lag
      /\ q.key \in Keys /\ Minted(q.key)
  BY DEF KeyInv, AdmissionInv, Admitting
<1>2. o \in Orgs /\ orgs[o].granted = FreeCredit /\ clock \in Nat
  BY <1>1 DEF KeyInv, AccountInv, RowTypes
<1>3. EdgeRemaining(o) = FreeCredit - spent(o)
  BY <1>2 DEF EdgeRemaining, granted
<1> QED BY <1>1, <1>2, <1>3, GatewayAssumption, ControlAssumption

(* hasCredit: a cached credit is Lag old, one that is read is current *)
LEMMA EdgeCreditKeepsCredit ==
    ASSUME KeyInv, BookInv, RowsFinite, CreditInv, NEW r \in Requests, EdgeCredit(r)
    PROVE  CreditInv' /\ CreditWindow
<1> DEFINE q == req[r]
           o == keys[q.key].org
           row == kv.credit[o]
           broke == exhausted[o]
<1>1. /\ q.since \in Nat /\ q.since <= clock /\ clock <= q.since + Lag
      /\ q.key \in Keys /\ Minted(q.key) /\ o \in Orgs
      /\ EdgeRemaining(o) = FreeCredit - spent(o)
      /\ clock \in Nat /\ Lag \in Nat /\ CreditTTL \in Nat \ {0} /\ FreeCredit \in Nat
  BY AtTheCreditGate DEF EdgeCredit
<1>2. UNCHANGED <<keys, usage, clock, front, kv, exhausted>>
  BY DEF EdgeCredit, cpVars, tables, edgeVars
<1>3. SpentInv' /\ CachedCreditInv'
  BY <1>2 DEF CreditInv, SpentInv, CachedCreditInv, spent, charges
<1>4. spent(o) \in Nat
  BY <1>1, SpentIsNat
<1>5. DOMAIN req = Requests
  BY DEF KeyInv, AdmissionInv
<1>6. CASE Unexpired(row)
  <2> DEFINE x == IF row.value > 0 THEN Forwarded(q, row.failed) ELSE Free
  <2>1. req' = [req EXCEPT ![r] = x]
    BY <1>6 DEF EdgeCredit
  <2>2. /\ x.pc # "credit put"
        /\ x.pc = "forward" => row.value > 0 /\ x.key = q.key /\ x.failed_open = row.failed
    <3>1. CASE row.value > 0
      <4>1. x = [pc |-> "forward", key |-> q.key, failed_open |-> row.failed]
        BY <3>1 DEF Forwarded
      <4> HIDE DEF x, q, row
      <4> QED BY <3>1, <4>1
    <3>2. CASE ~(row.value > 0)
      <4>1. x = [pc |-> "free"]
        BY <3>2 DEF Free
      <4> HIDE DEF x, q, row
      <4> QED BY <4>1
    <3> QED BY <3>1, <3>2
  <2> HIDE DEF x
  <2>3. \A z \in Requests : req'[z] = IF z = r THEN x ELSE req[z]
    BY <1>5, <2>1
  <2>4. ReadCreditInv'
    BY <1>2, <2>2, <2>3 DEF CreditInv, ReadCreditInv
  <2>5. row.value > 0 /\ ~row.failed /\ broke # NoRow => clock < broke + CreditTTL + 2 * Lag
    <3> SUFFICES ASSUME row.value > 0, ~row.failed, broke # NoRow
                 PROVE  clock < broke + CreditTTL + 2 * Lag
      OBVIOUS
    <3>1. row.expires > clock /\ row.expires \in Nat /\ row.expires <= broke + CreditTTL + Lag
      BY <1>1, <1>6 DEF Unexpired, CreditInv, CachedCreditInv
    <3>2. broke \in Nat
      BY <1>1 DEF CreditInv, SpentInv
    <3> HIDE DEF row, broke
    <3> QED BY <1>1, <3>1, <3>2
  <2>6. CreditWindow
    <3> SUFFICES ASSUME NEW z \in Requests, req[z] # req'[z], req'[z].pc = "forward",
                        exhausted[keys[req'[z].key].org] # NoRow, ~req'[z].failed_open
                 PROVE  clock < exhausted[keys[req'[z].key].org] + CreditTTL + 2 * Lag
      BY DEF CreditWindow
    <3>1. z = r /\ req'[z] = x
      BY <2>3
    <3>2. row.value > 0 /\ x.key = q.key /\ x.failed_open = row.failed
      BY <2>2, <3>1
    <3> QED BY <2>5, <3>1, <3>2
  <2> QED BY <1>3, <2>4, <2>6 DEF CreditInv
<1>7. CASE ~Unexpired(row)
  <2>1. PICK failed \in BOOLEAN :
           req' = [req EXCEPT ![r] =
              [pc |-> "credit put", key |-> q.key, since |-> q.since,
               value |-> IF failed THEN 1 ELSE EdgeRemaining(o), failed |-> failed]]
    BY <1>7 DEF EdgeCredit
  <2> DEFINE x == [pc |-> "credit put", key |-> q.key, since |-> q.since,
                   value |-> IF failed THEN 1 ELSE EdgeRemaining(o), failed |-> failed]
  <2>2. /\ x.pc = "credit put" /\ x.key = q.key
        /\ ~x.failed => x.value = FreeCredit - spent(o)
    BY <1>1
  <2>3. \A z \in Requests : req'[z] = IF z = r THEN x ELSE req[z]
    BY <1>5, <2>1
  <2> HIDE DEF x
  <2>4. x.value > 0 /\ ~x.failed => broke = NoRow
    <3> SUFFICES ASSUME broke # NoRow, x.value > 0, x.value = FreeCredit - spent(o)
                 PROVE  FALSE
      BY <2>2
    <3>1. FreeCredit <= spent(o)
      BY <1>1 DEF CreditInv, SpentInv
    <3> QED BY <1>1, <1>4, <3>1
  <2>5. ReadCreditInv'
    <3> SUFFICES ASSUME NEW z \in Requests, req'[z].pc = "credit put",
                        req'[z].value > 0, ~req'[z].failed,
                        exhausted[keys[req'[z].key].org] # NoRow
                 PROVE  req'[z].since <= exhausted[keys[req'[z].key].org]
      BY <1>2 DEF ReadCreditInv
    <3>1. z # r /\ req'[z] = req[z]
      BY <2>2, <2>3, <2>4
    <3> QED BY <3>1 DEF CreditInv, ReadCreditInv
  <2>6. CreditWindow
    BY <2>2, <2>3 DEF CreditWindow
  <2> QED BY <1>3, <2>5, <2>6 DEF CreditInv
<1> QED BY <1>6, <1>7

(* The credit is cached, Lag after it was read at the latest *)
LEMMA EdgeCreditPutKeepsCredit ==
    ASSUME KeyInv, CreditInv, NEW r \in Requests, EdgeCreditPut(r)
    PROVE  CreditInv' /\ CreditWindow
<1>1. PICK q, o, broke : q = req[r] /\ o = keys[q.key].org /\ broke = exhausted[o]
  OBVIOUS
<1> DEFINE e == [expires |-> clock + CreditTTL, value |-> q.value, failed |-> q.failed]
           x == IF q.value > 0 THEN Forwarded(q, q.failed) ELSE Free
<1>2. /\ q.since \in Nat /\ q.since <= clock /\ clock <= q.since + Lag /\ o \in Orgs
      /\ clock \in Nat /\ Lag \in Nat /\ CreditTTL \in Nat \ {0}
  BY <1>1, AtTheCreditGate DEF EdgeCreditPut
<1>3. /\ q.pc = "credit put" /\ UNCHANGED <<keys, usage, clock, front, exhausted>>
      /\ kv' = [kv EXCEPT !.credit[o] = e] /\ req' = [req EXCEPT ![r] = x]
  BY <1>1 DEF EdgeCreditPut, cpVars, tables
<1>4. q.value > 0 /\ ~q.failed /\ broke # NoRow =>
         broke \in Nat /\ q.since <= broke
  BY <1>1, <1>2, <1>3 DEF CreditInv, SpentInv, ReadCreditInv
<1>5. SpentInv'
  <2>1. \A p \in Orgs : spent(p)' = spent(p)
    BY <1>3 DEF spent, charges
  <2> HIDE DEF e, x
  <2> QED BY <1>3, <2>1 DEF CreditInv, SpentInv
<1>6. e.expires = clock + CreditTTL /\ e.value = q.value /\ e.failed = q.failed
  OBVIOUS
<1>7. /\ x.pc # "credit put"
      /\ x.pc = "forward" => q.value > 0 /\ x.key = q.key /\ x.failed_open = q.failed
  <2>1. CASE q.value > 0
    <3>1. x = [pc |-> "forward", key |-> q.key, failed_open |-> q.failed]
      BY <2>1 DEF Forwarded
    <3> HIDE DEF x
    <3> QED BY <2>1, <3>1
  <2>2. CASE ~(q.value > 0)
    <3>1. x = [pc |-> "free"]
      BY <2>2 DEF Free
    <3> HIDE DEF x
    <3> QED BY <3>1
  <2> QED BY <2>1, <2>2
<1> HIDE DEF e, x
<1>8. \A z \in Requests : req'[z] = IF z = r THEN x ELSE req[z]
  BY <1>3 DEF KeyInv, AdmissionInv
<1>9. CachedCreditInv'
  <2>1. /\ DOMAIN kv'.credit = Orgs /\ kv'.credit[o] = e
        /\ \A p \in Orgs : p # o => kv'.credit[p] = kv.credit[p]
    BY <1>2, <1>3 DEF KeyInv, EdgeCacheInv, CreditInv, CachedCreditInv
  <2>2. /\ e.expires \in Nat /\ e.expires <= clock + CreditTTL
        /\ e.value > 0 /\ ~e.failed /\ broke # NoRow => e.expires <= broke + CreditTTL + Lag
    BY <1>2, <1>4, <1>6
  <2> QED BY <1>1, <1>3, <2>1, <2>2 DEF CreditInv, CachedCreditInv
<1>10. ReadCreditInv'
  BY <1>3, <1>7, <1>8 DEF CreditInv, ReadCreditInv
<1>11. CreditWindow
  <2> SUFFICES ASSUME NEW z \in Requests, req[z] # req'[z], req'[z].pc = "forward",
                      exhausted[keys[req'[z].key].org] # NoRow, ~req'[z].failed_open
               PROVE  clock < exhausted[keys[req'[z].key].org] + CreditTTL + 2 * Lag
    BY DEF CreditWindow
  <2>1. z = r /\ req'[z] = x
    BY <1>8
  <2>2. q.value > 0 /\ x.key = q.key /\ x.failed_open = q.failed
    BY <1>7, <2>1
  <2>3. broke \in Nat /\ q.since <= broke
    BY <1>1, <1>4, <2>1, <2>2
  <2>4. clock < broke + CreditTTL + 2 * Lag
    BY <1>2, <2>3
  <2> QED BY <1>1, <2>1, <2>2, <2>4
<1> QED BY <1>5, <1>9, <1>10, <1>11 DEF CreditInv

(* A charge that uses the credit up does so now *)
LEMMA ChargeKeepsCredit ==
    ASSUME KeyInv, BookInv, RowsFinite, CreditInv, NEW k \in Keys, GatewayCharges(k)
    PROVE  CreditInv' /\ CreditWindow
<1>1. PICK o, new : o = keys[k].org /\ new = Incremented(NoRow, Cost, FALSE)
  OBVIOUS
<1>2. /\ UNCHANGED <<keys, clock, front, kv, req>> /\ front = "edge" /\ Minted(k)
      /\ usage[<<k, 0>>] = NoRow /\ usage' = [usage EXCEPT ![<<k, 0>>] = new]
      /\ exhausted' = IF remaining_credit(o) > 0 /\ remaining_credit(o) <= Cost
                      THEN [exhausted EXCEPT ![o] = clock] ELSE exhausted
  BY <1>1 DEF GatewayCharges
<1>3. /\ o \in Orgs /\ orgs[o].granted = FreeCredit /\ clock \in Nat
      /\ Cost \in Nat /\ FreeCredit \in Nat /\ Lag \in Nat /\ CreditTTL \in Nat
  BY <1>1, <1>2, GatewayAssumption, ControlAssumption DEF KeyInv, AccountInv, RowTypes
<1>4. new # NoRow /\ new.usd = Cost
  <2>1. new = [requests |-> 0 + 1, cache_hits |-> 0 + 0, usd |-> 0 + Cost]
    BY <1>1 DEF Incremented, EmptyRow
  <2>2. new.usd = Cost /\ new \in Row
    BY <1>3, <2>1 DEF Row
  <2>3. NoRow \notin Row
    BY ControlAssumption DEF Row
  <2> QED BY <2>2, <2>3
<1>5. 0 \in Days
  <2>1. MaxClock \div DayLength \in Nat
    BY ControlAssumption
  <2> QED BY <2>1 DEF Days
<1>6. /\ \A p \in Orgs : p # o => spent(p)' = spent(p)
      /\ spent(o)' = spent(o) + Cost
  <2>1. DebitOf(usage[<<k, 0>>]) = 0
    BY <1>2 DEF DebitOf
  <2>2. new.usd = Cost + DebitOf(usage[<<k, 0>>])
    BY <1>3, <1>4, <2>1
  <2>3. PICK d \in Days : d = 0
    BY <1>5
  <2>4. usage' = [usage EXCEPT ![<<k, d>>] = new] /\ UNCHANGED keys
    BY <1>2, <2>3
  <2>5. /\ \A p \in Orgs : keys[k].org # p => spent(p)' = spent(p)
        /\ \A p \in Orgs, usd \in Nat :
              keys[k].org = p /\ new.usd = usd + DebitOf(usage[<<k, d>>]) =>
                 spent(p)' = spent(p) + usd
    BY <1>4, <2>4, SpentGrows, ZenonT(40)
  <2> QED BY <1>1, <1>3, <2>2, <2>3, <2>5
<1>7. /\ \A p \in Orgs : spent(p) \in Nat
      /\ remaining_credit(o) = FreeCredit - spent(o)
  BY <1>3, SpentIsNat DEF remaining_credit, granted
<1>8. \A p \in Orgs : exhausted'[p] # NoRow =>
         \/ exhausted[p] # NoRow /\ exhausted'[p] = exhausted[p]
         \/ exhausted'[p] = clock /\ FreeCredit <= spent(p)'
  BY <1>2, <1>3, <1>6, <1>7 DEF CreditInv, SpentInv
<1>9. SpentInv'
  <2>1. \A p \in Orgs : FreeCredit <= spent(p) => FreeCredit <= spent(p)'
    BY <1>3, <1>6, <1>7
  <2>2. DOMAIN exhausted' = Orgs
    BY <1>2 DEF CreditInv, SpentInv
  <2> QED BY <1>2, <1>3, <1>8, <2>1, <2>2 DEF CreditInv, SpentInv
<1>10. CachedCreditInv'
  BY <1>2, <1>3, <1>8 DEF CreditInv, CachedCreditInv
<1>11. ReadCreditInv'
  <2> SUFFICES ASSUME NEW r \in Requests, req[r].pc = "credit put",
                      req[r].value > 0, ~req[r].failed,
                      exhausted'[keys[req[r].key].org] # NoRow
               PROVE  req[r].since <= exhausted'[keys[req[r].key].org]
    BY <1>2 DEF ReadCreditInv
  <2>1. keys[req[r].key].org \in Orgs /\ req[r].since <= clock
    BY AtTheCreditGate
  <2> QED BY <1>8, <2>1 DEF CreditInv, ReadCreditInv
<1>12. CreditWindow
  BY <1>2 DEF CreditWindow
<1> QED BY <1>9, <1>10, <1>11, <1>12 DEF CreditInv

LEMMA CreditInvNext ==
    KeyInv /\ CacheInv /\ BookInv /\ OverdraftInv /\ CreditInv /\ [Next]_vars
        => CreditInv' /\ CreditWindow
<1> SUFFICES ASSUME KeyInv, CacheInv, BookInv, OverdraftInv, CreditInv, [Next]_vars
             PROVE  CreditInv' /\ CreditWindow
  OBVIOUS
<1> DEFINE Goal == CreditInv' /\ CreditWindow
<1>1. UNCHANGED usage => \A o \in Orgs : spent(o)' = spent(o)
  BY SpentStays
<1>2. ASSUME UNCHANGED <<kv, exhausted, front, usage>>, clock' = clock \/ clock' = clock + 1,
             \A r \in Requests : req'[r].pc \in {"credit put", "forward"} => req'[r] = req[r]
      PROVE  Goal
  <2>1. Elsewhere
    BY <1>1, <1>2 DEF Elsewhere
  <2> QED BY <2>1, ElsewhereKeepsCredit
<1>3. ASSUME NEW r \in Requests, NEW x, req' = [req EXCEPT ![r] = x],
             x.pc \notin {"credit put", "forward"}, UNCHANGED <<kv, exhausted, front, usage, clock>>
      PROVE  Goal
  <2>1. \A z \in Requests : req'[z] = IF z = r THEN x ELSE req[z]
    BY <1>3 DEF KeyInv, AdmissionInv
  <2> QED BY <1>2, <1>3, <2>1
<1>4. CASE (ControlNext \/ ControlAlone) /\ UNCHANGED gwVars
  <2>1. UNCHANGED <<usage, clock>>
    BY <1>4 DEF ControlNext, ControlAlone, SignupSelect, SignupCommit, OrgFromKey, CreateKey,
                RevokeKey, RotateKey, tables
  <2> QED BY <1>2, <1>4, <2>1 DEF gwVars, edgeVars
<1>5. CASE Tick
  BY <1>2, <1>5 DEF Tick, tables, gwVars, edgeVars
<1>6. ASSUME NEW r \in Requests, NEW s \in Keys, EdgeKey(r, s) PROVE Goal
  <2>1. UNCHANGED <<kv, exhausted, front, usage, clock>>
    BY <1>6 DEF EdgeKey, cpVars, tables, edgeVars
  <2>2. PICK x : req' = [req EXCEPT ![r] = x] /\ x.pc \in {"key put", "credit", "free"}
    <3> DEFINE put == [pc |-> "key put", asked |-> s, key |-> EdgeLookup(s), since |-> clock]
               credit == [pc |-> "credit", key |-> kv.key[s].key, since |-> clock]
    <3>1. \E x \in {put, credit, Free} : req' = [req EXCEPT ![r] = x]
      <4> USE <1>6 DEF EdgeKey
      <4>1. CASE ~Unexpired(kv.key[s])
        BY <4>1
      <4>2. CASE Unexpired(kv.key[s]) /\ kv.key[s].key # NoRow
        BY <4>2
      <4>3. CASE Unexpired(kv.key[s]) /\ kv.key[s].key = NoRow
        BY <4>3
      <4> QED BY <4>1, <4>2, <4>3
    <3>2. put.pc = "key put" /\ credit.pc = "credit" /\ Free.pc = "free"
      BY DEF Free
    <3> HIDE DEF put, credit
    <3> QED BY <3>1, <3>2
  <2> QED BY <1>3, <2>1, <2>2
<1>7. ASSUME NEW r \in Requests, EdgeKeyPut(r) PROVE Goal
  <2>1. /\ UNCHANGED <<exhausted, front, usage, clock>>
        /\ kv' = [kv EXCEPT !.key[req[r].asked] = [expires |-> clock + TTL, key |-> req[r].key]]
    BY <1>7 DEF EdgeKeyPut, cpVars, tables
  <2>2. PICK x : req' = [req EXCEPT ![r] = x] /\ x.pc \in {"credit", "free"}
    <3> DEFINE credit == [pc |-> "credit", key |-> req[r].key, since |-> req[r].since]
    <3>1. \E x \in {credit, Free} : req' = [req EXCEPT ![r] = x]
      BY <1>7 DEF EdgeKeyPut
    <3>2. credit.pc = "credit" /\ Free.pc = "free"
      BY DEF Free
    <3> HIDE DEF credit
    <3> QED BY <3>1, <3>2
  <2>3. \A z \in Requests : req'[z] = IF z = r THEN x ELSE req[z]
    BY <2>2 DEF KeyInv, AdmissionInv
  <2>4. kv'.credit = kv.credit
    BY <2>1 DEF KeyInv, EdgeCacheInv
  <2>5. \A o \in Orgs : spent(o)' = spent(o)
    BY <1>1, <2>1
  <2>6. CachedCreditInv' /\ SpentInv'
    BY <2>1, <2>4, <2>5 DEF CreditInv, CachedCreditInv, SpentInv
  <2>7. ReadCreditInv'
    <3>1. UNCHANGED <<keys, exhausted>>
      BY <1>7 DEF EdgeKeyPut, cpVars, tables
    <3>2. \A z \in Requests : req'[z].pc = "credit put" => req'[z] = req[z]
      BY <2>2, <2>3
    <3> QED BY <3>1, <3>2 DEF CreditInv, ReadCreditInv
  <2>8. CreditWindow
    BY <2>2, <2>3 DEF CreditWindow
  <2> QED BY <2>6, <2>7, <2>8 DEF CreditInv
<1>8. ASSUME NEW r \in Requests, NEW p \in Procs, NEW s \in Secrets,
             ArriveAccounts(r, p, s) \/ ArriveStatic(r, p, s)
      PROVE  Goal
  <2>1. UNCHANGED <<kv, exhausted, front, usage, clock>>
    BY <1>8 DEF ArriveAccounts, ArriveStatic, cpVars, tables, edgeVars
  <2>2. \/ UNCHANGED req
        \/ \E k, tenant : req' = [req EXCEPT ![r] = [pc |-> "body", proc |-> p, key |-> k,
                                                     tenant |-> tenant]]
    BY <1>8 DEF ArriveAccounts, ArriveStatic, Admitted
  <2>3. CASE UNCHANGED req
    BY <1>2, <2>1, <2>3
  <2>4. ASSUME NEW k, NEW tenant,
               req' = [req EXCEPT ![r] = [pc |-> "body", proc |-> p, key |-> k, tenant |-> tenant]]
        PROVE  Goal
    <3>1. PICK x : x = [pc |-> "body", proc |-> p, key |-> k, tenant |-> tenant]
      OBVIOUS
    <3>2. x.pc = "body" /\ req' = [req EXCEPT ![r] = x]
      BY <2>4, <3>1
    <3> QED BY <1>3, <2>1, <3>2
  <2> QED BY <2>2, <2>3, <2>4
<1>9. ASSUME NEW r \in Requests,
             \/ \E raw, img, text : Body(r, raw, img, text)
             \/ BackendAnswers(r) \/ BackendFails(r) \/ EdgeDone(r)
      PROVE  Goal
  <2>1. UNCHANGED <<kv, exhausted, front, usage, clock>>
    BY <1>9 DEF Body, BackendAnswers, BackendFails, EdgeDone, cpVars, tables, edgeVars
  <2> QED BY <1>3, <1>9, <2>1, AnsweringMoves
<1>10. ASSUME NEW r \in Requests, Record(r) PROVE Goal
  <2>1. UNCHANGED <<kv, exhausted, front, clock>>
    BY <1>10 DEF Record, edgeVars
  <2>2. front # "edge"
    BY <1>10 DEF Record, BookInv, Flying, Carried
  <2>3. req' = [req EXCEPT ![r] = Free] /\ Free.pc = "free"
    BY <1>10 DEF Record, Free
  <2>4. \A z \in Requests : req'[z] = IF z = r THEN Free ELSE req[z]
    BY <2>3 DEF KeyInv, AdmissionInv
  <2>5. Elsewhere
    BY <2>1, <2>2, <2>3, <2>4 DEF Elsewhere
  <2> QED BY <2>5, ElsewhereKeepsCredit
<1>11. CASE UNCHANGED vars
  BY <1>2, <1>11 DEF vars, cpVars, tables, gwVars, edgeVars
<1>12. RowsFinite
  BY DEF OverdraftInv
<1> QED
  BY <1>4, <1>5, <1>6, <1>7, <1>8, <1>9, <1>10, <1>11, <1>12,
     EdgeCreditKeepsCredit, EdgeCreditPutKeepsCredit, ChargeKeepsCredit DEF Next, EdgeNext

(* A used-up credit, like a revoked key, dies with the caches that hold    *)
(* it: within its TTL and two requests, unless the database failed open    *)
(* (index.ts, hasCredit; resolver.py and keys.ts for the keys).            *)
THEOREM RevocationsPropagate == Spec => RevocationPropagates
<1> DEFINE Inv == KeyInv /\ CacheInv /\ BookInv /\ MeterInv /\ OverdraftInv /\ CreditInv
<1>1. Init => Inv
  BY KeyInvInit, CacheInvInit, BookInvInit, MeterInvInit, OverdraftInvInit, CreditInvInit
<1>2. Inv /\ [Next]_vars => Inv' /\ [KeyWindow /\ CreditWindow]_vars
  BY KeyInvNext, CacheInvNext, BookInvNext, MeterInvNext, OverdraftInvNext, CreditInvNext
<1> QED BY <1>1, <1>2, PTL DEF Spec, RevocationPropagates

-----------------------------------------------------------------------------
(***************************************************************************)
(* Stateful sessions and the usage queue, for any number of requests,      *)
(* creations and failing batches.                                          *)
(***************************************************************************)

(* The usage queue *)

(* A message waits in the queue until the batch it is part of is           *)
(* acknowledged, and only then is it gone.  A message not yet folded in    *)
(* during this delivery was folded once per failed delivery at most; one   *)
(* that has not reached the queue was never folded.                        *)
QueueInv ==
    /\ DOMAIN pend = Reqs /\ counted \in [Reqs -> Nat] /\ failures \in Nat
    /\ batch \subseteq delivered /\ delivered \subseteq queue
    /\ \A r \in Reqs :
          /\ counted[r] <= failures + 1
          /\ r \in queue /\ r \notin delivered \ batch => counted[r] <= failures
          /\ r \in events => r \notin queue /\ counted[r] = 0
          /\ pend[r].pc # "done" => r \notin events /\ r \notin queue /\ counted[r] = 0

LEMMA QueueInvInit == SessionsInit => QueueInv
  BY SessionsAssumption DEF SessionsInit, QueueInv, NotSent

LEMMA QueueInvNext == QueueInv /\ [SessionsNext]_platformVars => QueueInv'
<1> SUFFICES ASSUME QueueInv, [SessionsNext]_platformVars PROVE QueueInv'
  OBVIOUS
<1> USE DEF QueueInv
<1>1. CASE Create
  BY <1>1 DEF Create, usageVars
<1>2. CASE Delete
  BY <1>2 DEF Delete, usageVars
<1>3. ASSUME NEW r \in Reqs, NEW path \in Paths, TurnBegin(r, path) PROVE QueueInv'
  BY <1>3 DEF TurnBegin, usageVars, NotSent
<1>4. ASSUME NEW r \in Reqs, RecordTurn(r) PROVE QueueInv'
  BY <1>4 DEF RecordTurn, usageVars, Done
<1>5. ASSUME NEW r \in Reqs, SaveTurn(r) PROVE QueueInv'
  BY <1>5 DEF SaveTurn, Waiting, Done
<1>6. ASSUME NEW r \in Reqs, TurnFails(r) PROVE QueueInv'
  BY <1>6 DEF TurnFails, usageVars, Done
<1>7. ASSUME NEW r \in Reqs, Send(r) PROVE QueueInv'
  BY <1>7 DEF Send, sessionVars
<1>8. ASSUME NEW r \in Reqs, LoseEvent(r) PROVE QueueInv'
  BY <1>8 DEF LoseEvent, sessionVars
<1>9. ASSUME NEW r \in Reqs, Fold(r) PROVE QueueInv'
  BY <1>9 DEF Fold, sessionVars
<1>10. CASE Deliver
  BY <1>10 DEF Deliver, sessionVars
<1>11. CASE Acknowledge
  BY <1>11 DEF Acknowledge, sessionVars
<1>12. CASE BatchFails
  BY <1>12 DEF BatchFails, sessionVars
<1>13. CASE UNCHANGED platformVars
  BY <1>13 DEF platformVars, sessionVars, usageVars
<1> QED
  BY <1>1, <1>2, <1>3, <1>4, <1>5, <1>6, <1>7, <1>8, <1>9, <1>10, <1>11, <1>12, <1>13
  DEF SessionsNext

(* At-least-once delivery counts a message once more for every batch that  *)
(* failed and never more, and counts none that was not enqueued; for any   *)
(* traffic and any number of failing batches (index.ts, queue).            *)
THEOREM RedeliveryIsBounded == SessionsSpec => []OvercountIsBounded
<1>1. QueueInv => OvercountIsBounded
  BY DEF QueueInv, OvercountIsBounded
<1> QED BY <1>1, QueueInvInit, QueueInvNext, PTL DEF SessionsSpec
-----------------------------------------------------------------------------
(* The single writer *)

(* The session a turn is computed on *)
Base == IF session = Absent THEN New ELSE session

Exchanges == [turn : Reqs, on : Seq(Reqs)]

(* When clients wait for each answer at most one turn is under way, and    *)
(* what it loaded before the await is still what is stored after it.       *)
SerialInv ==
    serial =>
        /\ DOMAIN pend = Reqs
        /\ session # Absent => session.exchanges \in Seq(Exchanges)
        /\ \A r \in Reqs : Waiting(r) =>
              /\ pend[r].loaded = Base /\ pend[r].on = Turns(Base)
              /\ host = "service" => session # Absent
              /\ \A q \in Reqs : Waiting(q) => q = r

LEMMA BaseExchanges ==
    ASSUME SerialInv, serial
    PROVE  Base.exchanges \in Seq(Exchanges) /\ Turns(Base) \in Seq(Reqs)
<1>1. Base.exchanges \in Seq(Exchanges)
  BY DEF SerialInv, Base, New
<1>2. \A i \in 1 .. Len(Base.exchanges) : Base.exchanges[i].turn \in Reqs
  <2> SUFFICES ASSUME NEW i \in 1 .. Len(Base.exchanges)
               PROVE  Base.exchanges[i].turn \in Reqs
    OBVIOUS
  <2>1. Base.exchanges[i] \in Exchanges
    BY <1>1
  <2> QED BY <2>1 DEF Exchanges
<1>3. Len(Base.exchanges) \in Nat
  BY <1>1
<1>4. Turns(Base) \in Seq(Reqs)
  BY <1>2, <1>3 DEF Turns
<1> QED BY <1>1, <1>4

(* What a turn stores of the session it was computed on *)
LEMMA TurnAppends ==
    ASSUME SerialInv, serial, NEW r \in Reqs, Waiting(r),
           NEW tokens, NEW saved
    PROVE  LET s == Accumulated(Base, r, tokens, saved) IN
           /\ s.exchanges \in Seq(Exchanges)
           /\ \/ s.exchanges = Base.exchanges
              \/ s.exchanges = Append(Base.exchanges, [turn |-> r, on |-> Turns(Base)])
<1>1. Base.exchanges \in Seq(Exchanges) /\ Turns(Base) \in Seq(Reqs)
  BY BaseExchanges
<1>2. pend[r].on = Turns(Base)
  BY DEF SerialInv
<1>3. [turn |-> r, on |-> Turns(Base)] \in Exchanges
  BY <1>1 DEF Exchanges
<1>4. Append(Base.exchanges, [turn |-> r, on |-> Turns(Base)]) \in Seq(Exchanges)
  BY <1>1, <1>3
<1>5. Accumulated(Base, r, tokens, saved).exchanges =
        IF pend[r].path = "turn"
        THEN Append(Base.exchanges, [turn |-> r, on |-> pend[r].on])
        ELSE Base.exchanges
  BY DEF Accumulated
<1> QED BY <1>1, <1>2, <1>4, <1>5

(* Such a step of the session is a step of the log, or none *)
LEMMA TurnIsLogStep ==
    ASSUME SerialInv, serial, UNCHANGED serial, NEW r \in Reqs, Waiting(r),
           NEW tokens, NEW saved,
           session' = Accumulated(Base, r, tokens, saved)
    PROVE  /\ [SerialLog!LogNext]_(IF serial THEN LogOf(session) ELSE Absent)
           /\ session' # Absent => session'.exchanges \in Seq(Exchanges)
<1> DEFINE log == LogOf(session)
           l == IF log = Absent THEN <<>> ELSE log
<1>1. /\ session'.exchanges \in Seq(Exchanges)
      /\ \/ session'.exchanges = Base.exchanges
         \/ session'.exchanges = Append(Base.exchanges, [turn |-> r, on |-> Turns(Base)])
  BY TurnAppends
<1>2. l = Base.exchanges
  <2>1. CASE session = Absent
    BY <2>1 DEF Base, New, LogOf
  <2>2. CASE session # Absent
    <3>1. session.exchanges \in Seq(Exchanges)
      BY <2>2 DEF SerialInv
    <3>2. session.exchanges # Absent
      BY <3>1, SessionsAssumption DEF Exchanges
    <3> QED BY <2>2, <3>2 DEF Base, LogOf
  <2> QED BY <2>1, <2>2
<1>3. [SerialLog!LogNext]_(IF serial THEN LogOf(session) ELSE Absent)
  <2>1. CASE session' = Absent
    BY <2>1 DEF LogOf, SerialLog!LogNext, SerialLog!Drop
  <2>2. CASE session' # Absent
    <3>1. LogOf(session)' = session'.exchanges
      BY <2>2 DEF LogOf
    <3>2. CASE session'.exchanges = Base.exchanges
      <4>1. CASE session = Absent
        <5>1. Base.exchanges = << >>
          BY <4>1 DEF Base, New
        <5>2. SerialLog!Create
          BY <3>1, <3>2, <5>1 DEF SerialLog!Create
        <5> QED BY <5>2 DEF SerialLog!LogNext
      <4>2. CASE session # Absent
        <5>1. LogOf(session)' = LogOf(session)
          BY <3>1, <3>2, <4>2 DEF Base, LogOf
        <5> QED BY <5>1
      <4> QED BY <4>1, <4>2
    <3>3. CASE session'.exchanges = Append(Base.exchanges, [turn |-> r, on |-> Turns(Base)])
      <4>1. SerialLog!Asked(l) = Turns(Base)
        BY <1>2 DEF SerialLog!Asked, Turns
      <4>2. LogOf(session)' = Append(l, [turn |-> r, on |-> SerialLog!Asked(l)])
        BY <3>1, <3>3, <1>2, <4>1
      <4>3. SerialLog!AppendTurn(r)
        BY <4>2 DEF SerialLog!AppendTurn
      <4> QED BY <4>3 DEF SerialLog!LogNext
    <3> QED BY <3>2, <3>3, <1>1
  <2> QED BY <2>1, <2>2
<1> QED BY <1>1, <1>3

(* Every step keeps SerialInv and is a step of the log, or none *)
LEMMA SerialStep ==
    ASSUME SerialInv, [SessionsNext]_platformVars
    PROVE  SerialInv' /\ [SerialLog!LogNext]_(IF serial THEN LogOf(session) ELSE Absent)
<1> DEFINE Goal == SerialInv' /\ [SerialLog!LogNext]_(IF serial THEN LogOf(session) ELSE Absent)
<1>0. serial' = serial
  BY DEF SessionsNext, platformVars, Create, Delete, TurnBegin, RecordTurn, SaveTurn, TurnFails, Send,
         LoseEvent, Fold, Deliver, Acknowledge, BatchFails
<1>1. CASE ~serial
  BY <1>0, <1>1 DEF SerialInv
<1>2. ASSUME serial, UNCHANGED <<session, pend, host>> PROVE Goal
  BY <1>0, <1>2 DEF SerialInv, Base, Waiting, LogOf, Turns, New
<1>3. ASSUME serial, Create PROVE Goal
  <2>1. \A r \in Reqs : ~Waiting(r)
    BY <1>3 DEF Create, MaySend
  <2>2. SerialInv'
    BY <1>3, <2>1 DEF Create, SerialInv, New, Waiting
  <2>3. (LogOf(session)') = << >> \/ (LogOf(session)') = Absent
    BY <1>3 DEF Create, New, LogOf
  <2> QED BY <1>0, <1>3, <2>2, <2>3 DEF SerialLog!LogNext, SerialLog!Create, SerialLog!Drop
<1>4. ASSUME serial, Delete PROVE Goal
  <2>1. \A r \in Reqs : ~Waiting(r)
    BY <1>4 DEF Delete, MaySend
  <2>2. SerialInv'
    BY <1>4, <2>1 DEF Delete, SerialInv, Waiting
  <2> QED BY <1>0, <1>4, <2>2 DEF Delete, LogOf, SerialLog!LogNext, SerialLog!Drop
<1>5. ASSUME serial, NEW r \in Reqs, NEW path \in Paths, TurnBegin(r, path) PROVE Goal
  <2>1. \A q \in Reqs : ~Waiting(q)
    BY <1>5 DEF TurnBegin, MaySend
  <2>2. /\ DOMAIN pend' = Reqs
        /\ pend'[r].loaded = Base /\ pend'[r].on = Turns(Base)
        /\ \A q \in Reqs : pend'[q].pc = "wait" => q = r
        /\ UNCHANGED <<session, host>>
        /\ host = "service" => session # Absent
    BY <1>5, <2>1 DEF TurnBegin, SerialInv, Base, Waiting
  <2>3. SerialInv'
    BY <1>5, <2>2 DEF SerialInv, Base, Waiting, Turns, New
  <2> QED BY <1>0, <2>2, <2>3 DEF LogOf
<1>6. ASSUME serial, NEW r \in Reqs, RecordTurn(r) \/ SaveTurn(r) PROVE Goal
  <2>1. Waiting(r)
    BY <1>6 DEF RecordTurn, SaveTurn
  <2>2. DOMAIN pend' = Reqs /\ pend' = [pend EXCEPT ![r] = Done]
    BY <1>6 DEF RecordTurn, SaveTurn, SerialInv
  <2>3. \A q \in Reqs : pend'[q].pc # "wait"
    <3>1. \A q \in Reqs : Waiting(q) => q = r
      BY <1>6, <2>1 DEF SerialInv
    <3> QED BY <1>6, <2>2, <3>1 DEF SerialInv, Waiting, Done
  <2>4. PICK tokens, saved : session' = Accumulated(Base, r, tokens, saved)
    <3>1. CASE RecordTurn(r)
      <4>1. session # Absent /\ Base = session
        BY <3>1, <1>6, <2>1 DEF RecordTurn, SerialInv, Base
      <4> QED BY <3>1, <4>1 DEF RecordTurn, Recorded
    <3>2. CASE SaveTurn(r)
      <4>1. pend[r].loaded = Base
        BY <1>6, <2>1 DEF SerialInv
      <4> QED BY <3>2, <4>1 DEF SaveTurn, Saved
    <3> QED BY <1>6, <3>1, <3>2
  <2>5. /\ [SerialLog!LogNext]_(IF serial THEN LogOf(session) ELSE Absent)
        /\ session' # Absent => session'.exchanges \in Seq(Exchanges)
    BY <1>0, <1>6, <2>1, <2>4, TurnIsLogStep
  <2> QED BY <2>2, <2>3, <2>5 DEF SerialInv, Waiting
<1>7. ASSUME serial, NEW r \in Reqs, TurnFails(r) PROVE Goal
  <2>1. /\ DOMAIN pend' = Reqs /\ UNCHANGED <<session, host>>
        /\ \A q \in Reqs : pend'[q].pc = "wait" => pend[q].pc = "wait" /\ pend'[q] = pend[q]
    BY <1>7 DEF TurnFails, SerialInv, Done
  <2>2. SerialInv'
    BY <1>7, <2>1 DEF SerialInv, Base, Waiting, Turns, New
  <2> QED BY <1>0, <2>1, <2>2 DEF LogOf
<1>8. ASSUME NEW r \in Reqs, Send(r) \/ LoseEvent(r) \/ Fold(r)
      PROVE  UNCHANGED <<session, pend, host>>
  BY <1>8 DEF Send, LoseEvent, Fold, sessionVars
<1>9. ASSUME Deliver \/ Acknowledge \/ BatchFails \/ UNCHANGED platformVars
      PROVE  UNCHANGED <<session, pend, host>>
  BY <1>9 DEF Deliver, Acknowledge, BatchFails, platformVars, sessionVars
<1> QED
  BY <1>1, <1>2, <1>3, <1>4, <1>5, <1>6, <1>7, <1>8, <1>9 DEF SessionsNext

(* For clients that wait for each answer, both implementations of a        *)
(* session are a log with a single writer, whatever turns fail and however *)
(* often the session is dropped, created again or used with one-field      *)
(* requests (service.py, turn; session.ts, fetch).                         *)
THEOREM WaitingClientsSeeOneWriter == SessionsSpec => SerialRefines
<1>1. SessionsInit => SerialInv
  BY DEF SessionsInit, SerialInv, Waiting, NotSent
<1>2. SessionsInit => SerialLog!LogInit
  BY DEF SessionsInit, LogOf, SerialLog!LogInit
<1>3. SerialInv /\ [SessionsNext]_platformVars => SerialInv'
  BY SerialStep
<1>4. SerialInv /\ [SessionsNext]_platformVars =>
        [SerialLog!LogNext]_(IF serial THEN LogOf(session) ELSE Absent)
  BY SerialStep
<1> QED BY <1>1, <1>2, <1>3, <1>4, PTL DEF SessionsSpec, SerialRefines, SerialLog!LogSpec
-----------------------------------------------------------------------------
(* The tiering decision *)

(* The rows of the table, written out *)
LEMMA Table ==
    /\ Last = 4
    /\ Measured[1].at = 8 /\ Measured[2].at = 32 /\ Measured[3].at = 64 /\ Measured[4].at = 128
    /\ Measured[1].v = <<23, 296, 25, 246>> /\ Measured[2].v = <<94, 1321, 115, 390>>
    /\ Measured[3].v = <<188, 3167, 182, 646>> /\ Measured[4].v = <<376, 8567, 297, 1228>>
  BY DEF Measured, Last

(* The segment of the profile a context size falls into, found either way *)
LEMMA Segment ==
    ASSUME NEW n \in Nat
    PROVE  /\ n <= 8 => profile_for(n) = ScaledEntry(1, n) /\ profileFor(n) = ScaledEntry(1, n)
           /\ 8 < n /\ n < 128 =>
                \E i \in 1 .. 3 : /\ Measured[i].at < n /\ n <= Measured[i + 1].at
                                  /\ profile_for(n) = Between(i, n) /\ profileFor(n) = Between(i, n)
           /\ n = 128 => profile_for(n) = Between(3, n) /\ profileFor(n) = ScaledEntry(4, n)
           /\ n > 128 => profile_for(n) = ScaledEntry(4, n) /\ profileFor(n) = ScaledEntry(4, n)
<1> DEFINE at == [i \in 1 .. 4 |-> Measured[i].at]
           up == CHOOSE i \in 1 .. 3 : n <= Measured[i + 1].at /\ \A j \in 1 .. i - 1 : n > Measured[j + 1].at
           dn == CHOOSE i \in 1 .. 3 : ~(n > Measured[i + 1].at) /\ \A j \in 1 .. i - 1 : n > Measured[j + 1].at
<1>1. ASSUME NEW i \in 1 .. 3, n <= Measured[i + 1].at, Measured[i].at < n
      PROVE  up = i /\ dn = i
  <2>1. i \in {1, 2, 3}
    OBVIOUS
  <2>2. /\ n <= Measured[i + 1].at /\ ~(n > Measured[i + 1].at)
        /\ \A j \in 1 .. i - 1 : n > Measured[j + 1].at
    BY <1>1, <2>1, Table
  <2>3. ASSUME NEW k \in 1 .. 3, ~(n > Measured[k + 1].at), \A j \in 1 .. k - 1 : n > Measured[j + 1].at
        PROVE  k = i
    <3>1. k \in {1, 2, 3}
      OBVIOUS
    <3>2. n <= Measured[k + 1].at
      BY <2>3, <3>1, Table
    <3>3. ~(i < k)
      <4>1. Measured[i + 1].at \in Nat
        BY <2>1, Table
      <4> QED BY <1>1, <2>3, <4>1
    <3>4. ~(k < i)
      BY <2>2, <2>3
    <3> QED BY <3>3, <3>4
  <2>4. \A k \in 1 .. 3 : n <= Measured[k + 1].at => ~(n > Measured[k + 1].at)
    <3>1. \A k \in 1 .. 3 : Measured[k + 1].at \in Nat
      BY Table
    <3> QED BY <3>1
  <2> QED BY <2>2, <2>3, <2>4
<1>2. CASE n <= 8
  BY <1>2, Table DEF profile_for, profileFor
<1>3. CASE 8 < n /\ n <= 128
  <2>1. \E i \in 1 .. 3 : Measured[i].at < n /\ n <= Measured[i + 1].at
    BY <1>3, Table
  <2>2. PICK i \in 1 .. 3 : Measured[i].at < n /\ n <= Measured[i + 1].at
    BY <2>1
  <2>3. up = i /\ dn = i
    BY <1>1, <2>2
  <2>4. profile_for(n) = Between(up, n)
    BY <1>3, Table DEF profile_for
  <2>5. n < 128 => profileFor(n) = Between(dn, n)
    BY <1>3, Table DEF profileFor
  <2>6. n = 128 => i = 3 /\ profileFor(n) = ScaledEntry(4, n)
    BY <2>2, Table DEF profileFor
  <2> HIDE DEF up, dn
  <2> QED BY <1>3, <2>2, <2>3, <2>4, <2>5, <2>6
<1>4. CASE n > 128
  BY <1>4, Table DEF profile_for, profileFor
<1> QED BY <1>2, <1>3, <1>4

LEMMA BreakevensAreInt ==
    ASSUME NEW n \in Nat
    PROVE  LET be == breakevens(profile_for(n)) IN
           be.kv \in Nat /\ be.warm_s \in Int /\ be.ram_s \in Int /\ be.nvme_s \in Int
<1> DEFINE v == profile_for(n).v
<1>1. v[1] \in Nat /\ v[2] \in Int /\ v[3] \in Int /\ v[4] \in Int
  <2>1. \A i \in {1, 4} : \A k \in 1 .. 4 : ScaledEntry(i, n).v[k] \in Nat
    <3>1. \A i \in {1, 4} : \A k \in 1 .. 4 : Measured[i].v[k] \in Nat
      BY Table
    <3>2. ASSUME NEW i \in {1, 4}, NEW k \in 1 .. 4 PROVE Measured[i].v[k] * n \in Nat
      BY <3>1
    <3> QED BY <3>2 DEF ScaledEntry
  <2>2. ASSUME NEW i \in 1 .. 3, Measured[i].at < n
        PROVE  /\ Between(i, n).v[1] \in Nat /\ Between(i, n).v[2] \in Int
               /\ Between(i, n).v[3] \in Int /\ Between(i, n).v[4] \in Int
    <3>1. i \in {1, 2, 3}
      OBVIOUS
    <3> QED BY <2>2, <3>1, Table DEF Between
  <2>3. CASE n <= 8 \/ n > 128
    BY <2>1, <2>3, Segment
  <2>4. CASE 8 < n /\ n < 128
    BY <2>2, <2>4, Segment
  <2>5. CASE n = 128
    <3>1. Measured[3].at < n
      BY <2>5, Table
    <3> QED BY <2>2, <2>5, <3>1, Segment
  <2> QED BY <2>3, <2>4, <2>5
<1> HIDE DEF v
<1>2. LET be == breakevens(profile_for(n)) IN
      /\ be.kv = v[1] /\ be.warm_s = 6 * v[2]
      /\ be.ram_s = 30 * (v[2] - v[3]) /\ be.nvme_s = 900 * (v[2] - v[4])
  BY DEF breakevens, v
<1> QED BY <1>1, <1>2

(* decide, told in the order of its comparisons *)
LEMMA DecideInOrder ==
    ASSUME NEW idle \in Nat, NEW n \in Nat
    PROVE  LET be == breakevens(profile_for(n)) IN
           decide(idle, n) = IF idle * be.kv <= be.warm_s THEN "warm"
                             ELSE IF idle * be.kv <= be.ram_s THEN "ram"
                             ELSE IF idle * be.kv <= be.nvme_s THEN "nvme" ELSE "drop"
<1> DEFINE be == breakevens(profile_for(n))
           x == idle * be.kv
<1>1. x \in Int /\ be.warm_s \in Int /\ be.ram_s \in Int /\ be.nvme_s \in Int
  BY BreakevensAreInt
<1>2. decide(idle, n) =
        CASE x <= be.warm_s -> "warm"
          [] x > be.warm_s /\ x <= be.ram_s -> "ram"
          [] x > be.warm_s /\ x > be.ram_s /\ x <= be.nvme_s -> "nvme"
          [] OTHER -> "drop"
  BY DEF decide
<1> HIDE DEF be, x
<1>3. decide(idle, n) = IF x <= be.warm_s THEN "warm"
                        ELSE IF x <= be.ram_s THEN "ram"
                        ELSE IF x <= be.nvme_s THEN "nvme" ELSE "drop"
  <2>1. CASE x <= be.warm_s
    BY <1>1, <1>2, <2>1
  <2>2. CASE x > be.warm_s /\ x <= be.ram_s
    BY <1>1, <1>2, <2>2
  <2>3. CASE x > be.warm_s /\ x > be.ram_s /\ x <= be.nvme_s
    BY <1>1, <1>2, <2>3
  <2>4. CASE x > be.warm_s /\ x > be.ram_s /\ x > be.nvme_s
    BY <1>1, <1>2, <2>4
  <2> QED BY <1>1, <2>1, <2>2, <2>3, <2>4
<1> QED BY <1>3 DEF be, x

(* A session idle for longer is kept in no faster tier *)
LEMMA DecideIsMonotone ==
    ASSUME NEW a \in Nat, NEW b \in Nat, a <= b, NEW n \in Nat
    PROVE  Coldness[decide(a, n)] <= Coldness[decide(b, n)]
<1> DEFINE be == breakevens(profile_for(n))
           tier(x) == IF x <= be.warm_s THEN "warm"
                      ELSE IF x <= be.ram_s THEN "ram"
                      ELSE IF x <= be.nvme_s THEN "nvme" ELSE "drop"
<1>1. be.kv \in Nat /\ be.warm_s \in Int /\ be.ram_s \in Int /\ be.nvme_s \in Int
  BY BreakevensAreInt
<1>2. decide(a, n) = tier(a * be.kv) /\ decide(b, n) = tier(b * be.kv)
  BY DecideInOrder
<1> HIDE DEF be
<1>3. a * be.kv \in Int /\ b * be.kv \in Int /\ a * be.kv <= b * be.kv
  <2>1. b - a \in Nat /\ (b - a) * be.kv >= 0
    BY <1>1
  <2>2. b * be.kv = a * be.kv + (b - a) * be.kv
    BY <1>1
  <2> QED BY <1>1, <2>1, <2>2
<1>4. \A x, y \in Int : x <= y => Coldness[tier(x)] <= Coldness[tier(y)]
  <2>1. /\ Coldness["warm"] = 0 /\ Coldness["ram"] = 1
        /\ Coldness["nvme"] = 2 /\ Coldness["drop"] = 3
    BY DEF Coldness
  <2> QED BY <1>1, <2>1
<1> QED BY <1>2, <1>3, <1>4

(* Both ports decide alike, for every context and every idle time *)
LEMMA SameTier ==
    ASSUME NEW idle \in Nat, NEW n \in Nat
    PROVE  decideTier(idle, n) = decide(idle, n)
<1>1. CASE profile_for(n) = profileFor(n)
  BY <1>1, DecideInOrder DEF decideTier
<1>2. CASE n = 128
  <2>1. profile_for(n) = Between(3, n) /\ profileFor(n) = ScaledEntry(4, n)
    BY <1>2, Segment
  <2>2. /\ profile_for(n).v[1] = 64 * 376 /\ profile_for(n).v[2] = 64 * 8567
        /\ profile_for(n).v[3] = 64 * 297 /\ profile_for(n).v[4] = 64 * 1228
    BY <1>2, <2>1, Table DEF Between
  <2>3. /\ profileFor(n).v[1] = 128 * 376 /\ profileFor(n).v[2] = 128 * 8567
        /\ profileFor(n).v[3] = 128 * 297 /\ profileFor(n).v[4] = 128 * 1228
    BY <1>2, <2>1, Table DEF ScaledEntry
  <2> DEFINE a == breakevens(profile_for(n))
             b == breakevens(profileFor(n))
  <2>4. /\ a.kv = 64 * 376 /\ a.warm_s = 64 * 6 * 8567
        /\ a.ram_s = 64 * 30 * (8567 - 297) /\ a.nvme_s = 64 * 900 * (8567 - 1228)
    BY <2>2 DEF breakevens
  <2>5. /\ b.kv = 128 * 376 /\ b.warm_s = 128 * 6 * 8567
        /\ b.ram_s = 128 * 30 * (8567 - 297) /\ b.nvme_s = 128 * 900 * (8567 - 1228)
    BY <2>3 DEF breakevens
  <2>6. /\ (idle * a.kv <= a.warm_s) <=> (idle * b.kv <= b.warm_s)
        /\ (idle * a.kv <= a.ram_s) <=> (idle * b.kv <= b.ram_s)
        /\ (idle * a.kv <= a.nvme_s) <=> (idle * b.kv <= b.nvme_s)
    BY <2>4, <2>5
  <2>7. decideTier(idle, n) = IF idle * b.kv <= b.warm_s THEN "warm"
                              ELSE IF idle * b.kv <= b.ram_s THEN "ram"
                              ELSE IF idle * b.kv <= b.nvme_s THEN "nvme" ELSE "drop"
    BY DEF decideTier
  <2>8. decide(idle, n) = IF idle * a.kv <= a.warm_s THEN "warm"
                          ELSE IF idle * a.kv <= a.ram_s THEN "ram"
                          ELSE IF idle * a.kv <= a.nvme_s THEN "nvme" ELSE "drop"
    BY DecideInOrder
  <2> HIDE DEF a, b
  <2> QED BY <2>6, <2>7, <2>8
<1>3. CASE n # 128
  <2>1. n <= 8 \/ (8 < n /\ n < 128) \/ n > 128
    BY <1>3
  <2> QED BY <1>1, <2>1, Segment
<1> QED BY <1>1, <1>2, <1>3

-----------------------------------------------------------------------------
(* Sums *)

(* Induction on the naturals, as a statement about a set *)
LEMMA Least ==
    ASSUME NEW T, T \subseteq Nat, T # {}
    PROVE  \E x \in T : \A y \in T : x <= y
<1>1. IsWellFoundedOn(OpToRel(<, Nat), Nat)
  BY NatLessThanWellFounded
<1>2. PICK x \in T : \A y \in T : <<y, x>> \notin OpToRel(<, Nat)
  <2> DEFINE R == OpToRel(<, Nat)
  <2>1. IsWellFoundedOn(R, Nat)
    BY <1>1
  <2> HIDE DEF R
  <2>2. \E x \in T : \A y \in T : <<y, x>> \notin R
    BY <2>1, WFMin
  <2> QED BY <2>2 DEF R
<1>3. ASSUME NEW y \in T PROVE x <= y
  <2>1. x \in Nat /\ y \in Nat
    OBVIOUS
  <2>2. ~(y < x)
    BY <1>2, <2>1 DEF OpToRel
  <2> QED BY <2>1, <2>2
<1> QED BY <1>3

(* The partial sums of a function on the naturals *)
LEMMA SumsAddUp ==
    ASSUME NEW F
    PROVE  Sums(F) = [k \in Nat |-> IF k = 0 THEN 0 ELSE Sums(F)[k - 1] + F[k]]
<1> DEFINE Upto(h, n) == \A k \in 0 .. n : h[k] = IF k = 0 THEN 0 ELSE h[k - 1] + F[k]
           T == {n \in Nat : ~ \E h : Upto(h, n)}
           D == {n \in Nat : \E h, g : Upto(h, n) /\ Upto(g, n) /\ h[n] # g[n]}
<1>1. D = {}
  <2> SUFFICES ASSUME D # {} PROVE FALSE
    OBVIOUS
  <2>1. PICK n \in D : \A m \in D : n <= m
    <3>1. D \subseteq Nat
      OBVIOUS
    <3> HIDE DEF D
    <3> QED BY <3>1, Least
  <2>2. PICK h, g : Upto(h, n) /\ Upto(g, n) /\ h[n] # g[n]
    BY <2>1
  <2>3. n \in Nat /\ n # 0
    BY <2>1, <2>2
  <2>4. Upto(h, n - 1) /\ Upto(g, n - 1)
    BY <2>2, <2>3
  <2>5. n - 1 \notin D
    BY <2>1, <2>3
  <2>6. h[n - 1] = g[n - 1]
    BY <2>3, <2>4, <2>5
  <2> QED BY <2>2, <2>3, <2>6
<1>2. T = {}
  <2> SUFFICES ASSUME T # {} PROVE FALSE
    OBVIOUS
  <2>1. PICK n \in T : \A m \in T : n <= m
    <3>1. T \subseteq Nat
      OBVIOUS
    <3> HIDE DEF T
    <3> QED BY <3>1, Least
  <2>2. n \in Nat /\ n # 0
    <3>1. Upto([k \in {0} |-> 0], 0)
      OBVIOUS
    <3> QED BY <2>1, <3>1
  <2>3. PICK h : Upto(h, n - 1)
    <3>1. n - 1 \in Nat
      BY <2>2
    <3>2. n - 1 \notin T
      <4> HIDE DEF T
      <4>1. ~(n <= n - 1)
        BY <2>2
      <4> QED BY <2>1, <4>1
    <3> QED BY <3>1, <3>2
  <2> DEFINE g == [k \in 0 .. n |-> IF k = n THEN h[n - 1] + F[n] ELSE h[k]]
  <2>4. Upto(g, n)
    BY <2>2, <2>3
  <2> QED BY <2>1, <2>4
<1> DEFINE g == [n \in Nat |-> (CHOOSE h : Upto(h, n))[n]]
<1>3. \A n \in Nat : Upto(CHOOSE h : Upto(h, n), n)
  BY <1>2
<1>4. ASSUME NEW k \in Nat PROVE g[k] = IF k = 0 THEN 0 ELSE g[k - 1] + F[k]
  <2> DEFINE h == CHOOSE y : Upto(y, k)
             i == CHOOSE y : Upto(y, k - 1)
  <2>1. g[k] = h[k] /\ Upto(h, k)
    BY <1>3
  <2>2. CASE k = 0
    BY <2>1, <2>2
  <2>3. CASE k # 0
    <3>1. k - 1 \in Nat
      BY <2>3
    <3>2. g[k - 1] = i[k - 1] /\ Upto(i, k - 1)
      BY <1>3, <3>1
    <3>3. Upto(h, k - 1)
      BY <2>1, <3>1
    <3>4. h[k - 1] = i[k - 1]
      <4> HIDE DEF h, i
      <4> QED BY <1>1, <3>1, <3>2, <3>3
    <3>5. h[k] = h[k - 1] + F[k]
      BY <2>1, <2>3
    <3> HIDE DEF h, i, g
    <3> QED BY <2>1, <2>3, <3>2, <3>4, <3>5
  <2> QED BY <2>2, <2>3
<1>5. g = [k \in Nat |-> IF k = 0 THEN 0 ELSE g[k - 1] + F[k]]
  <2> HIDE DEF g
  <2>1. g = [n \in Nat |-> g[n]]
    BY DEF g
  <2> QED BY <1>4, <2>1
<1> HIDE DEF g
<1>6. Sums(F) = CHOOSE t : t = [k \in Nat |-> IF k = 0 THEN 0 ELSE t[k - 1] + F[k]]
  BY DEF Sums
<1> QED BY <1>5, <1>6

-----------------------------------------------------------------------------
(* What is stored *)

(* A session whose every exchange was answered on the ones before it, with *)
(* the savings and the tier of exactly these while turns counts no other.  *)
Coherent(s) ==
    LET n == Len(s.exchanges) IN
    /\ s.exchanges \in Seq(Exchanges)
    /\ \A i \in 1 .. n : s.exchanges[i].on = [j \in 1 .. i - 1 |-> s.exchanges[j].turn]
    /\ s.turns \in Nat /\ n <= s.turns
    /\ s.turns = n => s.saved_ms = SavedBy(s)
    /\ s.turns = n /\ n > 0 =>
          s.tier = decide(IdleSeconds[s.exchanges[n].turn], TokensSent("turn", n - 1))

(* What a request that waits for the backend carries over its await is     *)
(* coherent, and the tier was decided from what it sends.                  *)
Underway(r) ==
    LET s == pend[r].loaded IN
    /\ Coherent(s)
    /\ pend[r].on = Turns(s) /\ pend[r].warm = (s.turns # 0)
    /\ pend[r].tokens \in Nat /\ pend[r].tier = decide(IdleSeconds[r], pend[r].tokens)
    /\ pend[r].path = "turn" => pend[r].tokens = TokensSent("turn", Len(s.exchanges))

StoredInv ==
    /\ host \in Hosts /\ DOMAIN pend = Reqs
    /\ host = "edge" \/ serial =>
          /\ session # Absent => Coherent(session)
          /\ \A r \in Reqs : Waiting(r) => Underway(r)

LEMMA SumOfTheFirst ==
    ASSUME NEW F, NEW n \in Nat
    PROVE  Sums(F)[0] = 0 /\ Sums(F)[n + 1] = Sums(F)[n] + F[n + 1]
<1>1. n + 1 \in Nat /\ n + 1 # 0 /\ (n + 1) - 1 = n /\ 0 \in Nat
  OBVIOUS
<1>2. \A k \in Nat : Sums(F)[k] = IF k = 0 THEN 0 ELSE Sums(F)[k - 1] + F[k]
  <2> DEFINE g == Sums(F)
  <2>1. g = [k \in Nat |-> IF k = 0 THEN 0 ELSE g[k - 1] + F[k]]
    BY SumsAddUp
  <2> HIDE DEF g
  <2>2. \A k \in Nat : g[k] = IF k = 0 THEN 0 ELSE g[k - 1] + F[k]
    BY <2>1
  <2> QED BY <2>2 DEF g
<1>3. Sums(F)[n + 1] = IF n + 1 = 0 THEN 0 ELSE Sums(F)[(n + 1) - 1] + F[n + 1]
  BY <1>1, <1>2
<1> QED BY <1>1, <1>2, <1>3

LEMMA NewIsCoherent == Coherent(New)
<1>1. SavedBy(New) = 0
  <2>1. Len(New.exchanges) = 0
    BY DEF New
  <2> QED BY <2>1, SumOfTheFirst DEF SavedBy
<1> QED BY <1>1 DEF Coherent, New

(* A turn appends its exchange to the copy it was computed on *)
LEMMA AccumulatedIsCoherent ==
    ASSUME NEW r \in Reqs, Underway(r), NEW tokens, NEW saved,
           saved = IF host = "edge" THEN estimatedSavings(pend[r].tokens, pend[r].warm)
                   ELSE estimated_savings(pend[r].tokens, pend[r].warm)
    PROVE  Coherent(Accumulated(pend[r].loaded, r, tokens, saved))
<1> DEFINE s == pend[r].loaded
           n == Len(s.exchanges)
           e == [turn |-> r, on |-> pend[r].on]
           x == Accumulated(s, r, tokens, saved)
<1>1. /\ s.exchanges \in Seq(Exchanges) /\ n \in Nat /\ s.turns \in Nat /\ n <= s.turns
      /\ \A i \in 1 .. n : s.exchanges[i].on = [j \in 1 .. i - 1 |-> s.exchanges[j].turn]
      /\ pend[r].on = [j \in 1 .. n |-> s.exchanges[j].turn]
  <2>1. Coherent(s) /\ pend[r].on = Turns(s)
    BY DEF Underway
  <2> HIDE DEF s
  <2> QED BY <2>1 DEF Coherent, Turns
<1>2. /\ x.exchanges = IF pend[r].path = "turn" THEN Append(s.exchanges, e) ELSE s.exchanges
      /\ x.turns = s.turns + 1 /\ x.tier = pend[r].tier /\ x.saved_ms = s.saved_ms + saved
  BY DEF Accumulated
<1>3. ASSUME pend[r].path # "turn" PROVE Coherent(x)
  <2>1. x.exchanges = s.exchanges /\ x.turns \in Nat /\ n < x.turns
    BY <1>1, <1>2, <1>3
  <2> HIDE DEF x, s
  <2> QED BY <1>1, <2>1 DEF Coherent
<1>4. ASSUME pend[r].path = "turn" PROVE Coherent(x)
  <2>1. e \in Exchanges /\ e.turn = r /\ e.on = [j \in 1 .. n |-> s.exchanges[j].turn]
    <3>1. \A j \in 1 .. n : s.exchanges[j].turn \in Reqs
      <4> SUFFICES ASSUME NEW j \in 1 .. n PROVE s.exchanges[j].turn \in Reqs
        OBVIOUS
      <4>1. s.exchanges[j] \in Exchanges
        BY <1>1
      <4> QED BY <4>1 DEF Exchanges
    <3> HIDE DEF s
    <3>2. pend[r].on \in Seq(Reqs)
      BY <1>1, <3>1
    <3> QED BY <1>1, <3>2 DEF Exchanges
  <2>2. x.exchanges = Append(s.exchanges, e)
    BY <1>2, <1>4
  <2> HIDE DEF x, s, e
  <2>3. /\ x.exchanges \in Seq(Exchanges) /\ Len(x.exchanges) = n + 1
        /\ x.exchanges[n + 1] = e
        /\ \A i \in 1 .. n : x.exchanges[i] = s.exchanges[i]
    BY <1>1, <2>1, <2>2
  <2>4. ASSUME NEW i \in 1 .. n + 1
        PROVE  x.exchanges[i].on = [j \in 1 .. i - 1 |-> x.exchanges[j].turn]
    <3>1. \A j \in 1 .. i - 1 : x.exchanges[j] = s.exchanges[j]
      BY <1>1, <2>3
    <3>2. [j \in 1 .. i - 1 |-> x.exchanges[j].turn] = [j \in 1 .. i - 1 |-> s.exchanges[j].turn]
      BY <3>1
    <3>3. CASE i = n + 1
      <4>1. i - 1 = n /\ x.exchanges[i] = e
        BY <1>1, <2>3, <3>3
      <4> QED BY <2>1, <3>2, <4>1
    <3>4. CASE i # n + 1
      <4>1. i \in 1 .. n
        BY <1>1, <3>4
      <4> QED BY <1>1, <2>3, <3>2, <4>1
    <3> QED BY <3>3, <3>4
  <2>5. ASSUME x.turns = n + 1
        PROVE  x.saved_ms = SavedBy(x) /\ x.tier = decide(IdleSeconds[e.turn], TokensSent("turn", n))
    <3>1. s.turns = n /\ s.saved_ms = SavedBy(s)
      BY <1>1, <1>2, <2>5 DEF Underway, Coherent, s
    <3>2. pend[r].tokens = TokensSent("turn", n) /\ pend[r].warm = (n + 1 > 1)
      BY <1>1, <1>4, <3>1 DEF Underway, s
    <3> DEFINE saves == IF host = "edge" THEN EdgeSaves ELSE ServiceSaves
    <3>3. saves[n + 1] = saved
      <4>1. n + 1 \in Nat /\ (n + 1) - 1 = n
        BY <1>1
      <4> QED BY <3>2, <4>1 DEF EdgeSaves, ServiceSaves
    <3>4. SavedBy(x) = SavedBy(s) + saved
      <4> HIDE DEF saves
      <4>1. Sums(saves)[n + 1] = Sums(saves)[n] + saves[n + 1]
        BY <1>1, SumOfTheFirst
      <4> QED BY <1>1, <2>3, <3>3, <4>1 DEF SavedBy, saves
    <3>5. x.tier = decide(IdleSeconds[r], TokensSent("turn", n))
      BY <1>2, <3>2 DEF Underway
    <3> QED BY <1>2, <2>1, <3>1, <3>4, <3>5
  <2>6. (n + 1) - 1 = n /\ x.turns \in Nat /\ n + 1 <= x.turns
    BY <1>1, <1>2
  <2> QED BY <2>1, <2>3, <2>4, <2>5, <2>6 DEF Coherent
<1> QED BY <1>3, <1>4

(* A turn that begins carries a coherent copy *)
LEMMA BeginIsUnderway ==
    ASSUME NEW r \in Reqs, NEW path \in Paths, NEW s, Coherent(s),
           NEW q, q = [pc |-> "wait", path |-> path, loaded |-> s, on |-> Turns(s),
                       warm |-> s.turns # 0, tokens |-> TokensSent(path, Len(s.exchanges)),
                       tier |-> IF host = "edge"
                                THEN decideTier(IdleSeconds[r], TokensSent(path, Len(s.exchanges)))
                                ELSE decide(IdleSeconds[r], TokensSent(path, Len(s.exchanges)))]
    PROVE  /\ q.loaded = s /\ q.on = Turns(s) /\ q.warm = (s.turns # 0)
           /\ q.tokens \in Nat /\ q.tier = decide(IdleSeconds[r], q.tokens)
           /\ q.path = "turn" => q.tokens = TokensSent("turn", Len(s.exchanges))
<1> DEFINE tokens == TokensSent(path, Len(s.exchanges))
<1>1. tokens \in Nat
  <2>1. Len(s.exchanges) \in Nat
    BY DEF Coherent
  <2>2. Len(s.exchanges) * Exchange \in Nat
    BY <2>1, SessionsAssumption
  <2> QED BY <2>2, SessionsAssumption DEF TokensSent
<1>2. decideTier(IdleSeconds[r], tokens) = decide(IdleSeconds[r], tokens)
  BY <1>1, SameTier, SessionsAssumption
<1> QED BY <1>1, <1>2

(* Coherence depends on the host and the session alone *)
LEMMA CoherentStays ==
    ASSUME NEW s, NEW t, host' = host, t = s, Coherent(s)
    PROVE  Coherent(t)'
  BY DEF Coherent, SavedBy, Exchanges, TokensSent

(* What is coherent under another name is the stored session when it is it *)
LEMMA StoredIs ==
    ASSUME NEW s, s = session', s # Absent => Coherent(s)'
    PROVE  session' # Absent => Coherent(session)'
<1>1. ASSUME s # Absent PROVE Coherent(session)'
  BY <1>1 DEF Coherent, SavedBy, Exchanges, TokensSent
<1> QED BY <1>1

LEMMA UnderwayStays ==
    ASSUME UNCHANGED host, NEW r, pend'[r] = pend[r], Underway(r)
    PROVE  Underway(r)'
<1>1. PICK s : s = pend[r].loaded
  OBVIOUS
<1>2. Coherent(s)'
  BY <1>1, CoherentStays DEF Underway
<1> QED BY <1>1, <1>2 DEF Underway, Turns, TokensSent

(* A turn that ends stores what it was computed on, and its exchange *)
LEMMA EndStoresCoherently ==
    ASSUME SerialInv, StoredInv, UNCHANGED <<host, serial>>, host = "edge" \/ serial,
           NEW r \in Reqs, RecordTurn(r) \/ SaveTurn(r)
    PROVE  session' # Absent => Coherent(session)'
<1>1. Waiting(r) /\ Underway(r)
  BY DEF RecordTurn, SaveTurn, StoredInv
<1>2. PICK x : x = session'
  OBVIOUS
<1>3. ASSUME x # Absent PROVE Coherent(x)
  <2>1. CASE SaveTurn(r)
    <3>1. host = "edge" /\ x = Accumulated(pend[r].loaded, r, pend[r].tokens,
                                 estimatedSavings(pend[r].tokens, pend[r].warm))
      BY <1>2, <2>1 DEF SaveTurn, Saved
    <3> QED BY <1>1, <3>1, AccumulatedIsCoherent
  <2>2. CASE RecordTurn(r)
    <3>1. host = "service" /\ serial /\ session # Absent
      BY <1>2, <1>3, <2>2 DEF RecordTurn
    <3>2. session = pend[r].loaded
      BY <1>1, <3>1 DEF SerialInv, Base
    <3>3. x = Accumulated(pend[r].loaded, r, TokensStored(Len(session.exchanges) + 1),
                 estimated_savings(pend[r].tokens, pend[r].warm))
      BY <1>2, <2>2, <3>1, <3>2 DEF RecordTurn, Recorded
    <3> QED BY <1>1, <3>1, <3>3, AccumulatedIsCoherent
  <2> QED BY <2>1, <2>2
<1>4. x # Absent => Coherent(x)'
  BY <1>3, CoherentStays
<1> QED BY <1>2, <1>4, StoredIs

LEMMA StoredInvNext == SerialInv /\ StoredInv /\ [SessionsNext]_platformVars => StoredInv'
<1> SUFFICES ASSUME SerialInv, StoredInv, [SessionsNext]_platformVars PROVE StoredInv'
  OBVIOUS
<1>0. serial' = serial /\ host' = host
  BY DEF SessionsNext, platformVars, Create, Delete, TurnBegin, RecordTurn, SaveTurn, TurnFails, Send,
         LoseEvent, Fold, Deliver, Acknowledge, BatchFails
<1>1. CASE host # "edge" /\ ~serial
  <2>1. DOMAIN pend' = Reqs
    BY DEF StoredInv, SessionsNext, platformVars, sessionVars, Create, Delete, TurnBegin, RecordTurn, SaveTurn,
           TurnFails, Send, LoseEvent, Fold, Deliver, Acknowledge, BatchFails
  <2> QED BY <1>0, <1>1, <2>1 DEF StoredInv
<1> SUFFICES ASSUME host = "edge" \/ serial PROVE StoredInv'
  BY <1>1
<1>2. session # Absent => Coherent(session)
  BY DEF StoredInv
<1>3. ASSUME session' = session PROVE session' # Absent => Coherent(session)'
  <2>1. PICK s : s = session
    OBVIOUS
  <2>2. s # Absent => Coherent(s)'
    BY <1>0, <1>2, <2>1, CoherentStays
  <2>3. s = session'
    BY <1>3, <2>1
  <2> QED BY <2>2, <2>3, StoredIs
<1>4. ASSUME NEW r \in Reqs, NEW q, pend' = [pend EXCEPT ![r] = q], q.pc # "wait",
             session' # Absent => Coherent(session)'
      PROVE  StoredInv'
  <2>1. \A z \in Reqs : pend'[z] = IF z = r THEN q ELSE pend[z]
    BY <1>4 DEF StoredInv
  <2>2. ASSUME NEW z \in Reqs, Waiting(z)' PROVE Underway(z)'
    <3>1. pend'[z] = pend[z] /\ Waiting(z)
      BY <1>4, <2>1, <2>2 DEF Waiting
    <3> QED BY <1>0, <3>1, UnderwayStays DEF StoredInv
  <2> QED BY <1>0, <1>4, <2>2 DEF StoredInv
<1>5. ASSUME UNCHANGED pend, session' # Absent => Coherent(session)' PROVE StoredInv'
  <2>1. ASSUME NEW z \in Reqs, Waiting(z)' PROVE Underway(z)'
    BY <1>0, <1>5, <2>1, UnderwayStays DEF StoredInv, Waiting
  <2> QED BY <1>0, <1>5, <2>1 DEF StoredInv
<1>6. CASE Create
  <2>1. session' = New /\ UNCHANGED pend
    BY <1>6 DEF Create
  <2>2. PICK s : s = New
    OBVIOUS
  <2>3. Coherent(s)'
    BY <1>0, <2>2, NewIsCoherent, CoherentStays
  <2>4. session' # Absent => Coherent(session)'
    BY <2>1, <2>2, <2>3, StoredIs
  <2> QED BY <1>5, <2>1, <2>4
<1>7. CASE Delete
  BY <1>5, <1>7 DEF Delete
<1>8. ASSUME NEW r \in Reqs, NEW path \in Paths, TurnBegin(r, path) PROVE StoredInv'
  <2>1. PICK s : s = Base
    OBVIOUS
  <2>2. Coherent(s)
    BY <1>2, <2>1, NewIsCoherent DEF Base
  <2>3. PICK q : q = [pc |-> "wait", path |-> path, loaded |-> s, on |-> Turns(s),
                      warm |-> s.turns # 0, tokens |-> TokensSent(path, Len(s.exchanges)),
                      tier |-> IF host = "edge"
                               THEN decideTier(IdleSeconds[r], TokensSent(path, Len(s.exchanges)))
                               ELSE decide(IdleSeconds[r], TokensSent(path, Len(s.exchanges)))]
    OBVIOUS
  <2>4. pend' = [pend EXCEPT ![r] = q] /\ session' = session
    BY <1>8, <2>1, <2>3 DEF TurnBegin, Base
  <2>5. \A z \in Reqs : pend'[z] = IF z = r THEN q ELSE pend[z]
    BY <2>4 DEF StoredInv
  <2>6. Underway(r)'
    <3>1. /\ q.loaded = s /\ q.on = Turns(s) /\ q.warm = (s.turns # 0)
          /\ q.tokens \in Nat /\ q.tier = decide(IdleSeconds[r], q.tokens)
          /\ q.path = "turn" => q.tokens = TokensSent("turn", Len(s.exchanges))
      BY <2>2, <2>3, BeginIsUnderway
    <3>2. Coherent(s)'
      BY <1>0, <2>2, CoherentStays
    <3>3. pend'[r] = q
      BY <2>5
    <3> QED BY <3>1, <3>2, <3>3 DEF Underway, Turns, TokensSent
  <2>7. ASSUME NEW z \in Reqs, Waiting(z)' PROVE Underway(z)'
    <3>1. CASE z = r
      BY <2>6, <3>1
    <3>2. CASE z # r
      <4>1. pend'[z] = pend[z] /\ Waiting(z)
        BY <2>5, <2>7, <3>2 DEF Waiting
      <4> QED BY <1>0, <4>1, UnderwayStays DEF StoredInv
    <3> QED BY <3>1, <3>2
  <2>8. session' # Absent => Coherent(session)'
    BY <1>3, <2>4
  <2> QED BY <1>0, <2>4, <2>7, <2>8 DEF StoredInv
<1>9. ASSUME NEW r \in Reqs, RecordTurn(r) \/ SaveTurn(r) PROVE StoredInv'
  <2>1. session' # Absent => Coherent(session)'
    BY <1>0, <1>9, EndStoresCoherently
  <2>2. pend' = [pend EXCEPT ![r] = Done] /\ Done.pc # "wait"
    BY <1>9 DEF RecordTurn, SaveTurn, Done
  <2> QED BY <1>4, <2>1, <2>2
<1>10. ASSUME NEW r \in Reqs, TurnFails(r) PROVE StoredInv'
  <2>1. pend' = [pend EXCEPT ![r] = Done] /\ Done.pc # "wait" /\ session' = session
    BY <1>10 DEF TurnFails, Done
  <2> QED BY <1>3, <1>4, <2>1
<1>11. ASSUME NEW r \in Reqs, Send(r) \/ LoseEvent(r) \/ Fold(r) PROVE UNCHANGED <<session, pend>>
  BY <1>11 DEF Send, LoseEvent, Fold, sessionVars
<1>12. ASSUME Deliver \/ Acknowledge \/ BatchFails \/ UNCHANGED platformVars PROVE UNCHANGED <<session, pend>>
  BY <1>12 DEF Deliver, Acknowledge, BatchFails, platformVars, sessionVars
<1> QED
  BY <1>3, <1>5, <1>6, <1>7, <1>8, <1>9, <1>10, <1>11, <1>12 DEF SessionsNext

(* On the edge whatever requests overlap, on the service for clients that  *)
(* wait: the stored history is one in which every answer saw exactly the   *)
(* turns before it, its savings are theirs, the two ports of the tiering   *)
(* policy put it in the same tier, and idling longer never puts it in a    *)
(* faster one (session.ts, fetch; service.py, turn; tiering.py and its     *)
(* port tiering.ts).                                                       *)
THEOREM StoredSessionsAreCoherent == SessionsSpec => []StoredIsCoherent
<1>1. SessionsInit => SerialInv /\ StoredInv
  BY DEF SessionsInit, SerialInv, StoredInv, Waiting, NotSent
<1>2. SerialInv /\ [SessionsNext]_platformVars => SerialInv'
  BY SerialStep
<1>3. ASSUME StoredInv PROVE StoredIsCoherent
  <2> SUFFICES ASSUME session # Absent, host = "edge" \/ serial PROVE StoredIsCoherent
    BY DEF StoredIsCoherent
  <2>1. Coherent(session)
    BY <1>3 DEF StoredInv
  <2>2. ASSUME NEW r \in Reqs, Waiting(r), NEW q \in Reqs, Waiting(q),
               pend[q].tokens = pend[r].tokens, IdleSeconds[q] <= IdleSeconds[r]
        PROVE  Coldness[pend[q].tier] <= Coldness[pend[r].tier]
    <3>1. Underway(r) /\ Underway(q)
      BY <1>3, <2>2 DEF StoredInv
    <3>2. /\ pend[r].tokens \in Nat /\ IdleSeconds[q] \in Nat /\ IdleSeconds[r] \in Nat
          /\ pend[q].tier = decide(IdleSeconds[q], pend[r].tokens)
          /\ pend[r].tier = decide(IdleSeconds[r], pend[r].tokens)
      BY <2>2, <3>1, SessionsAssumption DEF Underway
    <3> QED BY <2>2, <3>2, DecideIsMonotone
  <2> QED BY <2>1, <2>2 DEF StoredIsCoherent, Coherent
<1> QED BY <1>1, <1>2, <1>3, StoredInvNext, PTL DEF SessionsSpec

=============================================================================
