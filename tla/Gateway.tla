------------------------------- MODULE Gateway -------------------------------
(***************************************************************************)
(* The OpenAI-compatible gateway, gateway/app.py, with the key resolver of *)
(* control/resolver.py, the duplicate-screen meter of redundancy.py and    *)
(* the two ledgers it writes: control/metering.py in accounts mode, the    *)
(* in-memory Store of gateway/store.py otherwise.                          *)
(*                                                                         *)
(* Several gateway processes share the database.  Each has one event loop, *)
(* a resolver cache, a meter and a completion cache of its own.  A handler *)
(* is one action per stretch between two awaits; record() does not await   *)
(* but is two statements of the database, between which the other          *)
(* processes go on, so it takes two actions, and its process takes no      *)
(* other step between them.                                                *)
(*                                                                         *)
(* The edge worker (edge/src) is a third front over the same database.     *)
(* Its keys and credits are cached in Workers KV, of which every location  *)
(* sees its own copy: one location is modelled.  Each await of a request   *)
(* is an action.                                                           *)
(***************************************************************************)
EXTENDS ControlPlane, Pricing

CONSTANTS
    Procs,          \* gateway processes
    Requests,       \* requests that may be in flight together
    RawSessions,    \* x-dexa-session headers
    Images,         \* last screenshots
    Texts,          \* concatenated texts of the messages
    AccountInputs,  \* the (screen, text) pairs sent in accounts mode
    StaticInputs,   \* and those sent in the other one
    Cost,           \* what a forwarded call costs here
    HostedPool,     \* DEXA_BACKEND_URL is set
    TTL,            \* DEXA_KEY_CACHE_TTL, in clock ticks
    Bogus,          \* a well-formed secret no key has
    StaticKey,      \* DEXA_API_KEY of the static registry
    MaxServed,      \* bound on the completions served
    CreditTTL,      \* expirationTtl of a cached credit, in clock ticks
    Lag,            \* ticks an edge request may take to be admitted
    EdgeClock       \* bound on the clock at the edge

NoImage == "no image"
Asked == (Images \cup {NoImage}) \X Texts

ASSUME GatewayAssumption ==
    /\ CreditTTL \in Nat \ {0} /\ Lag \in Nat /\ EdgeClock \in Nat
    /\ Cost \in Nat /\ TTL \in Nat \ {0} /\ MaxServed \in Nat
    /\ HostedPool \in BOOLEAN
    /\ IsFiniteSet(Procs) /\ IsFiniteSet(Requests)
    /\ AccountInputs \subseteq Asked /\ StaticInputs \subseteq Asked
    /\ Bogus \notin Keys /\ StaticKey \notin Keys \cup {Bogus, NoRow}

VARIABLES
    front,          \* "accounts" (DEXA_ACCOUNTS) or "static" gateway, or "edge"
    require_auth,   \* DEXA_REQUIRE_AUTH of the static registry
    resolved,       \* KeyResolver._cache of each process
    observed,       \* RedundancyMeter._hash of each process
    cached,         \* _cache of each process
    store,          \* Store: the total and the aggregates by session
    req,            \* the requests in flight
    kv,             \* Workers KV: the keys and the credits cached at the edge
    exhausted,      \* history: when the credit of an org was used up
    served          \* history: completions returned by each process for each key

edgeVars == <<kv, exhausted>>
gwVars == <<front, require_auth, resolved, observed, cached, store, req, served, edgeVars>>
vars == <<cpVars, gwVars>>

Secrets == Keys \cup {Bogus, StaticKey}
Tenants == Names \cup {"demo", "default"}
Sessions == Tenants \X RawSessions
Free == [pc |-> "free"]

accounts == front = "accounts"

EmptyAgg == [requests |-> 0, cache_hits |-> 0, usd |-> 0]

Init ==
    /\ InitControl
    /\ front \in {"accounts", "static", "edge"}
    /\ require_auth \in IF front = "static" THEN BOOLEAN ELSE {TRUE}
    /\ resolved = [p \in Procs |-> [s \in Secrets |-> NoRow]]
    /\ observed = [p \in Procs |-> [s \in Sessions |-> NoRow]]
    /\ cached = [p \in Procs |-> [s \in Sessions |-> NoRow]]
    /\ store = [p \in Procs |-> [total |-> EmptyAgg,
                                 by_session |-> [s \in Sessions |-> NoRow]]]
    /\ req = [r \in Requests |-> Free]
    /\ served = [p \in Procs |-> [k \in Keys |-> 0]]
    /\ kv = [key |-> [s \in Secrets |-> NoRow], credit |-> [o \in Orgs |-> NoRow]]
    /\ exhausted = [o \in Orgs |-> NoRow]

-----------------------------------------------------------------------------
(* Who is asking *)

(* _lookup: the principal of a key, None for one unknown or revoked *)
Lookup(s) == IF s \in Keys /\ Active(s) THEN s ELSE NoRow

Fresh_Closed(p, s) == resolved[p][s] # NoRow /\ resolved[p][s].expires + 1 > clock

Fresh(p, s) == resolved[p][s] # NoRow /\ resolved[p][s].expires > clock

(* KeyResolver.resolve: the principal, and what the cache holds afterwards *)
Resolve(p, s) ==
    IF Fresh(p, s) THEN [key |-> resolved[p][s].key, cache |-> resolved]
    ELSE [key |-> Lookup(s),
          cache |-> [resolved EXCEPT ![p][s] =
                        [expires |-> clock + TTL, key |-> Lookup(s)]]]

(* A principal built from its org: hosted by default, so mocked only when  *)
(* there is no hosted pool                                                 *)
AccountTenant(k) ==
    [name |-> orgs[keys[k].org].name, uses_mock |-> ~HostedPool]

(* TenantRegistry.load and resolve: the demo tenant, which is mocked, and  *)
(* one tenant of the environment when there is a backend; without          *)
(* require_auth an unknown key is the demo tenant's                        *)
StaticTenants(s) ==
    IF HostedPool /\ s = StaticKey THEN {[name |-> "default", uses_mock |-> FALSE]}
    ELSE IF require_auth THEN {} ELSE {[name |-> "demo", uses_mock |-> TRUE]}

(* A process is busy from the select of record to its commit *)
Busy(p) == \E r \in Requests : req[r].pc = "record" /\ req[r].proc = p

Total == SumFunction([pk \in Procs \X Keys |-> served[pk[1]][pk[2]]])

Admitted(r, p, k, tenant) ==
    req' = [req EXCEPT ![r] = [pc |-> "body", proc |-> p, key |-> k, tenant |-> tenant]]

(* chat_completions up to its first await, in accounts mode: 401 for a key *)
(* that does not resolve, 402 for an org whose credit is used up           *)
ArriveAccounts(r, p, s) ==
    LET found == Resolve(p, s) IN
    /\ accounts
    /\ req[r] = Free /\ ~Busy(p)
    /\ Total < MaxServed
    /\ s \in Keys /\ Minted(s)
    /\ resolved' = found.cache
    /\ IF found.key # NoRow /\ quota_ok(keys[found.key].org)
       THEN Admitted(r, p, found.key, AccountTenant(found.key))
       ELSE UNCHANGED req
    /\ UNCHANGED <<cpVars, front, require_auth, observed, cached, store, served, edgeVars>>

(* The same with the static registry *)
ArriveStatic(r, p, s) ==
    /\ front = "static"
    /\ req[r] = Free
    /\ store[p].total.requests < MaxServed
    /\ s \in {Bogus, StaticKey}
    /\ \E tenant \in StaticTenants(s) : Admitted(r, p, NoRow, tenant)
    /\ UNCHANGED <<cpVars, front, require_auth, resolved, observed, cached,
                   store, served, edgeVars>>

-----------------------------------------------------------------------------
(* Answering *)

(* Store.record, under its lock: the total and the session's aggregate *)
StoreRecord(ledger, sess, usd, hit) ==
    [ledger EXCEPT !.total = Incremented(@, usd, hit),
                   !.by_session[sess] = Incremented(@, usd, hit)]

(* What follows the completion: the completion is cached, then either the  *)
(* row of the key is selected or the in-memory ledger is updated.  The     *)
(* answer is identified by the screen and the text it was computed for.    *)
Complete(r, sess, img, text, hit, answer) ==
    LET p == req[r].proc
        usd == IF hit THEN 0 ELSE Cost IN
    /\ cached' = [cached EXCEPT ![p][sess] =
                    [img |-> img, text |-> text, answer |-> answer]]
    /\ IF accounts
       THEN /\ req' = [req EXCEPT ![r] =
                  [pc |-> "record", proc |-> p, key |-> req[r].key, day |-> today,
                   usd |-> usd, hit |-> hit, asked |-> <<img, text>>,
                   answer |-> answer, row |-> usage[<<req[r].key, today>>]]]
            /\ UNCHANGED store
       ELSE /\ req' = [req EXCEPT ![r] = Free]
            /\ store' = [store EXCEPT ![p] = StoreRecord(@, sess, usd, hit)]

IsHit_AnyText(p, sess, img, text) ==
    /\ img # NoImage /\ observed[p][sess] = img
    /\ cached[p][sess] # NoRow
    /\ cached[p][sess].img = img

(* exact_dup, and the cached completion is of this screen and this text *)
IsHit(p, sess, img, text) ==
    /\ img # NoImage /\ observed[p][sess] = img
    /\ cached[p][sess] # NoRow
    /\ cached[p][sess].img = img /\ cached[p][sess].text = text

(* chat_completions from the body to the backend.  observe() remembers the *)
(* frame whatever happens to the request afterwards.                       *)
Body(r, raw, img, text) ==
    LET p == req[r].proc
        sess == <<req[r].tenant.name, raw>> IN
    /\ req[r].pc = "body" /\ ~Busy(p)
    /\ observed' = IF img = NoImage THEN observed
                   ELSE [observed EXCEPT ![p][sess] = img]
    /\ CASE IsHit(p, sess, img, text) ->
              Complete(r, sess, img, text, TRUE, cached[p][sess].answer)
         [] ~IsHit(p, sess, img, text) /\ req[r].tenant.uses_mock ->
              Complete(r, sess, img, text, FALSE, <<img, text>>)
         [] OTHER ->
              /\ req' = [req EXCEPT ![r] =
                    [pc |-> "backend", proc |-> p, key |-> req[r].key,
                     sess |-> sess, img |-> img, text |-> text]]
              /\ UNCHANGED <<cached, store>>
    /\ UNCHANGED <<cpVars, front, require_auth, resolved, served, edgeVars>>

(* The backend answers *)
BackendAnswers(r) ==
    /\ req[r].pc = "backend" /\ ~Busy(req[r].proc)
    /\ Complete(r, req[r].sess, req[r].img, req[r].text, FALSE,
                <<req[r].img, req[r].text>>)
    /\ UNCHANGED <<cpVars, front, require_auth, resolved, observed, served, edgeVars>>

(* The backend fails or the timeout of _forward runs out: 502, and nothing *)
(* is cached or recorded                                                   *)
BackendFails(r) ==
    /\ req[r].pc = "backend" /\ ~Busy(req[r].proc)
    /\ req' = [req EXCEPT ![r] = Free]
    /\ UNCHANGED <<cpVars, front, require_auth, resolved, observed, cached,
                   store, served, edgeVars>>

Record_Overwrite(r) ==
    LET kd == <<req[r].key, req[r].day>> IN
    /\ req[r].pc = "record"
    /\ usage' = [usage EXCEPT ![kd] = Incremented(NoRow, req[r].usd, req[r].hit)]
    /\ served' = [served EXCEPT ![req[r].proc][req[r].key] = @ + 1]
    /\ req' = [req EXCEPT ![r] = Free]
    /\ UNCHANGED <<users, orgs, keys, thread, clock, front, require_auth,
                   resolved, observed, cached, store, edgeVars>>

(* record from its increments to its commit: the row is written back as it *)
(* was read plus this call.  An insert that finds a row inserted meanwhile *)
(* fails on uq_key_day: the handler raises after the backend was paid, and *)
(* the caller gets a 500.                                                  *)
Record(r) ==
    LET kd == <<req[r].key, req[r].day>> IN
    /\ req[r].pc = "record"
    /\ IF req[r].row = NoRow /\ usage[kd] # NoRow
       THEN UNCHANGED <<usage, served>>
       ELSE /\ usage' = [usage EXCEPT ![kd] =
                            Incremented(req[r].row, req[r].usd, req[r].hit)]
            /\ served' = [served EXCEPT ![req[r].proc][req[r].key] = @ + 1]
    /\ req' = [req EXCEPT ![r] = Free]
    /\ UNCHANGED <<users, orgs, keys, thread, clock, front, require_auth,
                   resolved, observed, cached, store, edgeVars>>

-----------------------------------------------------------------------------
(* The edge worker *)

Unexpired(row) == row # NoRow /\ row.expires > clock

(* lookupKey: the key, unless it is revoked, and its org *)
EdgeLookup(s) == IF s \in Keys /\ keys[s].revoked_at = NoRow THEN s ELSE NoRow

(* resolveKey.  A cached key, or the absence of one, is used as it is;     *)
(* otherwise the database is asked.                                        *)
EdgeKey(r, s) ==
    /\ front = "edge" /\ req[r] = Free
    /\ s \in Keys /\ Minted(s)
    /\ req' = [req EXCEPT ![r] =
          CASE ~Unexpired(kv.key[s]) ->
                 [pc |-> "key put", asked |-> s, key |-> EdgeLookup(s), since |-> clock]
            [] Unexpired(kv.key[s]) /\ kv.key[s].key # NoRow ->
                 [pc |-> "credit", key |-> kv.key[s].key, since |-> clock]
            [] OTHER -> Free]
    /\ UNCHANGED <<cpVars, front, require_auth, resolved, observed, cached, store,
                   served, edgeVars>>

(* The answer of lookupKey is cached, and 401 returned if there is none *)
EdgeKeyPut(r) ==
    LET q == req[r] IN
    /\ q.pc = "key put"
    /\ kv' = [kv EXCEPT !.key[q.asked] = [expires |-> clock + TTL, key |-> q.key]]
    /\ req' = [req EXCEPT ![r] =
          IF q.key = NoRow THEN Free
          ELSE [pc |-> "credit", key |-> q.key, since |-> q.since]]
    /\ UNCHANGED <<cpVars, front, require_auth, resolved, observed, cached, store,
                   served, exhausted>>

(* An admitted request, and whether a failure of the database let it in *)
Forwarded(q, open) == [pc |-> "forward", key |-> q.key, failed_open |-> open]

(* creditRemaining: the grants minus what the rollups have charged *)
EdgeRemaining(o) == granted(o) - spent(o)

(* hasCredit: the cached credit decides, or that of the database; if the   *)
(* database fails, it is taken to be 1                                     *)
EdgeCredit(r) ==
    LET q == req[r]
        o == keys[q.key].org
        row == kv.credit[o] IN
    /\ q.pc = "credit"
    /\ IF Unexpired(row)
       THEN req' = [req EXCEPT ![r] =
               IF row.value > 0 THEN Forwarded(q, row.failed) ELSE Free]
       ELSE \E failed \in BOOLEAN :
               req' = [req EXCEPT ![r] =
                  [pc |-> "credit put", key |-> q.key, since |-> q.since,
                   value |-> IF failed THEN 1 ELSE EdgeRemaining(o), failed |-> failed]]
    /\ UNCHANGED <<cpVars, front, require_auth, resolved, observed, cached, store,
                   served, edgeVars>>

(* The credit is cached; 402 if there is none left *)
EdgeCreditPut(r) ==
    LET q == req[r] IN
    /\ q.pc = "credit put"
    /\ kv' = [kv EXCEPT !.credit[keys[q.key].org] =
                 [expires |-> clock + CreditTTL, value |-> q.value, failed |-> q.failed]]
    /\ req' = [req EXCEPT ![r] = IF q.value > 0 THEN Forwarded(q, q.failed) ELSE Free]
    /\ UNCHANGED <<cpVars, front, require_auth, resolved, observed, cached, store,
                   served, exhausted>>

(* The backend or the session object has answered.  Nothing is charged     *)
(* here: usage events carry no dexa_usd.                                   *)
EdgeDone(r) ==
    /\ req[r].pc = "forward"
    /\ req' = [req EXCEPT ![r] = Free]
    /\ UNCHANGED <<cpVars, front, require_auth, resolved, observed, cached, store,
                   served, edgeVars>>

(* A gateway on the same database charges the org of a key *)
GatewayCharges(k) ==
    /\ front = "edge" /\ Minted(k) /\ usage[<<k, 0>>] = NoRow
    /\ usage' = [usage EXCEPT ![<<k, 0>>] = Incremented(NoRow, Cost, FALSE)]
    /\ LET o == keys[k].org IN
       exhausted' = IF remaining_credit(o) > 0 /\ remaining_credit(o) <= Cost
                    THEN [exhausted EXCEPT ![o] = clock] ELSE exhausted
    /\ UNCHANGED <<users, orgs, keys, thread, clock, front, require_auth, resolved,
                   observed, cached, store, req, served, kv>>

EdgeNext ==
    \/ \E r \in Requests, s \in Keys : EdgeKey(r, s)
    \/ \E r \in Requests :
          EdgeKeyPut(r) \/ EdgeCredit(r) \/ EdgeCreditPut(r) \/ EdgeDone(r)
    \/ \E k \in Keys : GatewayCharges(k)

(* Next to the edge: sign-ups and revocations, one after the other *)
ControlAlone ==
    \E t \in Threads :
        /\ \A u \in Threads \ {t} : thread[u] = Idle
        /\ \/ \E i \in Identities : SignupSelect(t, i)
           \/ SignupCommit(t)
           \/ \E k \in Keys : OrgFromKey(t, k) \/ RevokeKey(t, k)

Admitting(r) == req[r].pc \in {"key put", "credit", "credit put"}

(* Time passes; a request of the edge is admitted or refused within Lag *)
Tick ==
    /\ clock < (IF accounts THEN MaxClock ELSE EdgeClock)
    /\ front # "static"
    /\ \A r \in Requests : Admitting(r) => clock < req[r].since + Lag
    /\ clock' = clock + 1
    /\ UNCHANGED <<tables, thread, gwVars>>

Next ==
    \/ accounts /\ ControlNext /\ UNCHANGED gwVars
    \/ front = "edge" /\ ControlAlone /\ UNCHANGED gwVars
    \/ Tick
    \/ EdgeNext
    \/ \E r \in Requests, p \in Procs, s \in Secrets :
          ArriveAccounts(r, p, s) \/ ArriveStatic(r, p, s)
    \/ \E r \in Requests, raw \in RawSessions,
          ask \in IF accounts THEN AccountInputs ELSE StaticInputs :
             Body(r, raw, ask[1], ask[2])
    \/ \E r \in Requests : BackendAnswers(r) \/ BackendFails(r) \/ Record(r)

Spec == Init /\ [][Next]_vars

-----------------------------------------------------------------------------
(* Properties *)

(* Sign-ups racing on one identity leave one account: every org belongs to *)
(* exactly one identity and holds exactly one free grant, and every key    *)
(* belongs to an org that exists (accounts.py, signup_oauth)               *)
OneAccountPerIdentity ==
    /\ \A o \in Orgs : orgs[o] # NoRow =>
          /\ Cardinality({i \in Identities : users[i] = o}) = 1
          /\ orgs[o].granted = FreeCredit
    /\ \A k \in Keys : Minted(k) => orgs[keys[k].org] # NoRow

(* A completion served from the cache was computed for the screen and the  *)
(* text of the request it answers, whatever requests of the same session   *)
(* overlapped, failed or were observed in between (app.py, _cache)         *)
HitIsGenuine ==
    /\ \A r \in Requests : req[r].pc = "record" => req[r].answer = req[r].asked
    /\ \A p \in Procs, s \in Sessions : cached[p][s] # NoRow =>
          cached[p][s].answer = <<cached[p][s].img, cached[p][s].text>>

UsedOn(k) == {d \in Days : usage[<<k, d>>] # NoRow}
SumOver(k) == SumFunction([d \in UsedOn(k) |-> usage[<<k, d>>].requests])

(* The rollups never count a completion twice, over the end of a day too,  *)
(* and lose none of a key that one process serves: the lost updates of     *)
(* record need two processes (metering.py, record)                         *)
MeteringIsSound ==
    front # "edge" => \A k \in Keys :
        LET all == SumFunction([p \in Procs |-> served[p][k]]) IN
        /\ SumOver(k) <= all
        /\ Cardinality({p \in Procs : served[p][k] > 0}) <= 1 => SumOver(k) = all

(* The processes that have completed calls of an org *)
ServedBy(o) ==
    {p \in Procs : \E k \in Keys : Minted(k) /\ keys[k].org = o /\ served[p][k] > 0}

(* The quota is checked before the call and charged after it, so an org    *)
(* can overdraw its credit.  While one process serves the org, it can by   *)
(* no more than the calls that can be in flight together; several lose     *)
(* each other's updates, and the quota is checked against what is left     *)
(* (metering.py, quota_ok; app.py, chat_completions)                       *)
OverdraftBounded ==
    accounts => \A o \in Orgs :
        orgs[o] # NoRow /\ Cardinality(ServedBy(o)) <= 1 =>
            spent(o) <= granted(o) + Cardinality(Requests) * Cost

(* The in-memory ledger balances: its total is the sum of its sessions     *)
(* (store.py, record)                                                      *)
StoreBalances ==
    \A p \in Procs :
        LET rows == {s \in Sessions : store[p].by_session[s] # NoRow}
            of == store[p].by_session IN
        /\ store[p].total.requests = SumFunction([s \in rows |-> of[s].requests])
        /\ store[p].total.usd = SumFunction([s \in rows |-> of[s].usd])

(* What an org is billed is sound in both directions: no completion is     *)
(* counted twice or, within one process, lost, its overdraft is bounded,   *)
(* the ledger of the static mode balances, and the prices themselves are   *)
(* bounded (pricing.py)                                                    *)
BillingIsSound == MeteringIsSound /\ OverdraftBounded /\ StoreBalances /\ PricesAreBounded

(* No process admits a key that was revoked a TTL ago or longer, although  *)
(* none of them is told of the revocation (resolver.py, resolve).  At the  *)
(* edge, where an answer of the database is cached an await after it was   *)
(* read and used an await after it was looked up, the window is longer by  *)
(* two requests (keys.ts, resolveKey).                                     *)
KeyWindow ==
    \A r \in Requests :
        LET revoked == keys[req'[r].key].revoked_at IN
        /\ req[r] = Free /\ req'[r] # Free /\ accounts =>
              (revoked # NoRow => clock < revoked + TTL)
        /\ req[r] # req'[r] /\ req'[r].pc = "forward" =>
              (revoked # NoRow => clock < revoked + TTL + 2 * Lag)

(* The same at the edge for an org whose credit is used up, unless the     *)
(* database failed (index.ts, hasCredit)                                   *)
CreditWindow ==
    \A r \in Requests :
        LET broke == exhausted[keys[req'[r].key].org] IN
        req[r] # req'[r] /\ req'[r].pc = "forward" =>
            (broke # NoRow /\ ~req'[r].failed_open => clock < broke + CreditTTL + 2 * Lag)

(* A revoked key and a used-up credit keep working for as long as a cache  *)
(* may serve them and no longer (resolver.py, keys.ts, index.ts)           *)
RevocationPropagates == [][KeyWindow /\ CreditWindow]_vars
=============================================================================
