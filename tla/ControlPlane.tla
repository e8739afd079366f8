---------------------------- MODULE ControlPlane ----------------------------
(***************************************************************************)
(* Accounts, API keys and usage metering: dexa_platform/control.           *)
(*                                                                         *)
(* The tables of models.py are functions from row ids; NoRow stands for    *)
(* "no such row".  A secret is identified with the id of its key, since    *)
(* the database stores its hash under a unique constraint.  Every handler  *)
(* of api.py runs in a thread of the server's pool, and its transactions   *)
(* interleave with those of the other threads: a sign-up is a select       *)
(* followed by one commit, a management call is the transaction of         *)
(* org_from_key followed by the transaction of the call.                   *)
(***************************************************************************)
EXTENDS Integers, FiniteSets, FiniteSetsExt

CONSTANTS
    Identities,     \* (provider, subject) pairs
    Orgs,           \* org ids the database can hand out
    Keys,           \* key ids, and the secrets minted with them
    Names,          \* org names sign-ups ask for
    Threads,        \* request threads of the control-plane API
    FreeCredit,     \* FREE_CREDIT_USD, in units of cost
    DayLength,      \* clock ticks per UTC day
    MaxClock,       \* bound on the clock
    NoRow

ASSUME ControlAssumption ==
    /\ FreeCredit \in Nat /\ MaxClock \in Nat /\ DayLength \in Nat \ {0}
    /\ NoRow \notin Orgs \cup Keys
    /\ \A n \in Names : [name |-> n, granted |-> FreeCredit] # NoRow
    /\ NoRow \notin [org : Orgs, revoked_at : Nat \cup {NoRow}]
    /\ NoRow \notin [requests : Nat, cache_hits : Nat, usd : Nat] \cup Nat

VARIABLES
    users,      \* users: identity -> org_id
    orgs,       \* orgs joined with credit_ledger: org id -> name, granted
    keys,       \* api_keys: key id -> org_id, revoked_at
    usage,      \* usage_daily: (key id, day) -> the rollup row
    thread,     \* what each API thread has read so far
    clock

tables == <<users, orgs, keys, usage>>
cpVars == <<tables, thread, clock>>

Days == 0 .. (MaxClock \div DayLength)
today == clock \div DayLength

Idle == [op |-> "idle"]

InitControl ==
    /\ users = [i \in Identities |-> NoRow]
    /\ orgs = [o \in Orgs |-> NoRow]
    /\ keys = [k \in Keys |-> NoRow]
    /\ usage = [kd \in Keys \X Days |-> NoRow]
    /\ thread = [t \in Threads |-> Idle]
    /\ clock = 0

-----------------------------------------------------------------------------
(* Accounts and keys *)

Minted(k) == keys[k] # NoRow

Active(k) == Minted(k) /\ keys[k].revoked_at = NoRow

Unused(f) == {x \in DOMAIN f : f[x] = NoRow}

(* _mint_key: a fresh id and a fresh secret *)
MintedKeys(table, org) ==
    {[table EXCEPT ![k] = [org |-> org, revoked_at |-> NoRow]] :
        k \in IF Unused(table) = {} THEN {} ELSE {CHOOSE k \in Unused(table) : TRUE}}

(* signup_oauth up to its select.  A known identity is answered at once    *)
(* and nothing changes; for an unknown one the rows are still to be added. *)
SignupSelect(t, i) ==
    /\ thread[t] = Idle
    /\ users[i] = NoRow
    /\ thread' = [thread EXCEPT ![t] = [op |-> "signup", identity |-> i]]
    /\ UNCHANGED <<tables, clock>>

SignupCommit_NoUnique(t) ==
    /\ thread[t].op = "signup"
    /\ LET i == thread[t].identity IN
       \E n \in Names, o \in Unused(orgs) :
          /\ orgs' = [orgs EXCEPT ![o] = [name |-> n, granted |-> FreeCredit]]
          /\ users' = [users EXCEPT ![i] = o]
          /\ keys' \in MintedKeys(keys, o)
    /\ thread' = [thread EXCEPT ![t] = Idle]
    /\ UNCHANGED <<usage, clock>>

(* The rest of signup_oauth: org, grant, user and first key in one commit, *)
(* which uq_identity refuses when another sign-up of the identity          *)
(* committed first; the exception rolls everything back.                   *)
SignupCommit(t) ==
    /\ thread[t].op = "signup"
    /\ LET i == thread[t].identity IN
       IF users[i] # NoRow
       THEN UNCHANGED <<orgs, users, keys>>
       ELSE \E n \in Names, o \in Unused(orgs) :
              /\ orgs' = [orgs EXCEPT ![o] = [name |-> n, granted |-> FreeCredit]]
              /\ users' = [users EXCEPT ![i] = o]
              /\ keys' \in MintedKeys(keys, o)
    /\ thread' = [thread EXCEPT ![t] = Idle]
    /\ UNCHANGED <<usage, clock>>

(* org_from_key: looks the key up in the database, no cache.  A key that   *)
(* is malformed, unknown or revoked is answered 401 and nothing changes.   *)
OrgFromKey(t, k) ==
    /\ thread[t] = Idle
    /\ Active(k)
    /\ thread' = [thread EXCEPT ![t] = [op |-> "manage", org |-> keys[k].org]]
    /\ UNCHANGED <<tables, clock>>

(* create_key *)
CreateKey(t) ==
    /\ thread[t].op = "manage"
    /\ keys' \in MintedKeys(keys, thread[t].org)
    /\ thread' = [thread EXCEPT ![t] = Idle]
    /\ UNCHANGED <<users, orgs, usage, clock>>

(* revoke_key: False, and no change, for a key of another org or one that  *)
(* is revoked already                                                      *)
RevokeKey(t, k) ==
    /\ thread[t].op = "manage"
    /\ Minted(k)
    /\ IF keys[k].org = thread[t].org /\ keys[k].revoked_at = NoRow
       THEN keys' = [keys EXCEPT ![k].revoked_at = clock]
       ELSE UNCHANGED keys
    /\ thread' = [thread EXCEPT ![t] = Idle]
    /\ UNCHANGED <<users, orgs, usage, clock>>

(* rotate_key: the old key is stamped revoked, also when it was revoked    *)
(* before, and a replacement is minted in the same commit                  *)
RotateKey(t, k) ==
    /\ thread[t].op = "manage"
    /\ Minted(k)
    /\ IF keys[k].org = thread[t].org
       THEN keys' \in MintedKeys([keys EXCEPT ![k].revoked_at = clock],
                                 thread[t].org)
       ELSE UNCHANGED keys
    /\ thread' = [thread EXCEPT ![t] = Idle]
    /\ UNCHANGED <<users, orgs, usage, clock>>

ControlNext ==
    \E t \in Threads :
        \/ \E i \in Identities : SignupSelect(t, i)
        \/ SignupCommit(t)
        \/ \E k \in Keys : OrgFromKey(t, k) \/ RevokeKey(t, k) \/ RotateKey(t, k)
        \/ CreateKey(t)

-----------------------------------------------------------------------------
(* Metering *)

granted(o) == orgs[o].granted

(* The sum of dexa_usd over the rows of the org *)
charges(o) == {kd \in Keys \X Days : usage[kd] # NoRow /\ keys[kd[1]].org = o}
spent(o) == SumFunction([kd \in charges(o) |-> usage[kd].usd])

remaining_credit(o) == granted(o) - spent(o)

quota_ok(o) == remaining_credit(o) > 0

EmptyRow == [requests |-> 0, cache_hits |-> 0, usd |-> 0]

(* What record writes back for the row it has read *)
Incremented(row, usd, hit) ==
    LET r == IF row = NoRow THEN EmptyRow ELSE row IN
    [requests |-> r.requests + 1,
     cache_hits |-> r.cache_hits + (IF hit THEN 1 ELSE 0),
     usd |-> r.usd + usd]
=============================================================================
