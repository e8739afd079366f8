-------------------------- MODULE PlatformSessions --------------------------
(***************************************************************************)
(* Stateful sessions as the platform serves them: the Python service of    *)
(* dexa_platform/sessions, and its port to the edge, the Durable Object of *)
(* edge/src/session.ts behind the worker of edge/src/index.ts with its     *)
(* usage queue.  `host' says which of the two runs.                        *)
(*                                                                         *)
(* One session is modelled; sessions share nothing.  Both handlers await   *)
(* the backend between reading the session and storing the exchange, and   *)
(* other requests for the session run meanwhile.  The service appends to   *)
(* the session object itself; the edge saves the copy it loaded.  A turn   *)
(* is identified by its request, and what the model was shown by the turns *)
(* in the messages sent.                                                   *)
(***************************************************************************)
EXTENDS Integers, Sequences, Tiering

CONSTANTS
    Hosts,          \* the implementations explored
    Serial,         \* the values of `serial' explored
    Reqs,           \* turn requests, each sent once
    MaxCreates,     \* bound on the creations of the session
    MaxFailures,    \* bound on the batches of the usage queue that fail
    IdleSeconds,    \* seconds the session was idle when a request arrives
    Message,        \* blocks of tokens in the message of a request
    Exchange,       \* blocks of tokens in a message and its answer
    Client,         \* blocks of tokens in the messages a client keeps itself
    Absent

ASSUME SessionsAssumption ==
    /\ IdleSeconds \in [Reqs -> Nat]
    /\ Message \in Nat \ {0} /\ Exchange \in Nat /\ Client \in Nat
    /\ Hosts \subseteq {"service", "edge"} /\ Serial \subseteq BOOLEAN
    /\ MaxCreates \in Nat /\ MaxFailures \in Nat
    /\ Absent \notin Seq([turn : Reqs, on : Seq(Reqs)])

VARIABLES
    host,       \* which implementation runs
    serial,     \* clients wait for each answer before the next request
    session,    \* the stored session, Absent when there is none
    creates,    \* creations so far
    pend,       \* turn requests: not sent, waiting for the backend, or done
    events,     \* usage events on their way to the queue
    queue,      \* events in the queue
    batch,      \* events of the delivered batch not folded yet
    delivered,  \* all events of the delivered batch
    counted,    \* usage_daily: how often each event was added
    failures    \* batches that failed so far

sessionVars == <<session, creates, pend>>
usageVars == <<events, queue, batch, delivered, counted, failures>>
platformVars == <<host, serial, sessionVars, usageVars>>

(* A session without messages; est_tokens of no text is below one block *)
New == [exchanges |-> <<>>, turns |-> 0, tokens |-> 0, tier |-> "warm", saved_ms |-> 0]
NotSent == [pc |-> "new"]
Done == [pc |-> "done"]

(* The turns in the messages of a session *)
Turns(s) == [i \in 1 .. Len(s.exchanges) |-> s.exchanges[i].turn]

(* est_tokens and estTokens: the length of the messages sent for a turn    *)
(* on n earlier ones, and of those stored after n turns                    *)
TokensSent(path, n) == IF path = "turn" THEN n * Exchange + Message ELSE Client
TokensStored(n) == n * Exchange

SessionsInit ==
    /\ host \in Hosts /\ serial \in Serial
    /\ session = Absent /\ creates = 0
    /\ pend = [r \in Reqs |-> NotSent]
    /\ events = {} /\ queue = {} /\ batch = {} /\ delivered = {}
    /\ counted = [r \in Reqs |-> 0]
    /\ failures = 0

(* The service has turns only; the worker routes turns and chat requests   *)
(* that name a session to its Durable Object                               *)
Paths == IF host = "service" THEN {"turn"} ELSE {"turn", "forward"}

Waiting(r) == pend[r].pc = "wait"
MaySend == serial => \A r \in Reqs : ~Waiting(r)

-----------------------------------------------------------------------------
(* Sessions *)

(* create of the service gives every session an id of its own, so one that *)
(* was deleted never comes back; /init of the edge overwrites whatever the *)
(* client's id names                                                       *)
Create ==
    /\ MaySend /\ creates < MaxCreates
    /\ host = "service" => creates = 0
    /\ session' = New
    /\ creates' = creates + 1
    /\ UNCHANGED <<host, serial, pend, usageVars>>

Delete_Trims ==
    /\ MaySend /\ session # Absent
    /\ session' = IF host = "service" THEN Absent
                  ELSE [session EXCEPT !.exchanges = SubSeq(@, 1, Len(@) - 1)]
    /\ UNCHANGED <<host, serial, creates, pend, usageVars>>

(* DELETE: the service pops the session, the edge empties the storage.     *)
(* The service answers 404 when there is nothing to pop.                   *)
Delete ==
    /\ MaySend /\ session # Absent
    /\ session' = Absent
    /\ UNCHANGED <<host, serial, creates, pend, usageVars>>

(* turn up to the await.  The service answers 404 for an unknown session;  *)
(* the edge creates the session on first use.  `loaded' is the edge's own  *)
(* copy, `on' what the model is shown.  One-field mode sends the client's  *)
(* messages and leaves the stored ones alone.                              *)
TurnBegin(r, path) ==
    LET s == IF session = Absent THEN New ELSE session
        tokens == TokensSent(path, Len(s.exchanges)) IN
    /\ MaySend /\ pend[r] = NotSent
    /\ host = "service" => session # Absent
    /\ pend' = [pend EXCEPT ![r] =
          [pc |-> "wait", path |-> path, loaded |-> s, on |-> Turns(s),
           warm |-> s.turns # 0, tokens |-> tokens,
           tier |-> IF host = "edge" THEN decideTier(IdleSeconds[r], tokens)
                    ELSE decide(IdleSeconds[r], tokens)]]
    /\ UNCHANGED <<host, serial, session, creates, usageVars>>

(* The session after a turn: its exchange appended unless the client keeps *)
(* the messages itself, with the tier decided before the await             *)
Accumulated(s, r, tokens, saved) ==
    [exchanges |-> IF pend[r].path = "turn"
                   THEN Append(s.exchanges, [turn |-> r, on |-> pend[r].on])
                   ELSE s.exchanges,
     turns |-> s.turns + 1,
     tokens |-> tokens,
     tier |-> pend[r].tier,
     saved_ms |-> s.saved_ms + saved]

(* The service measures what it stored, the edge what it sent *)
Recorded(s, r) ==
    Accumulated(s, r, TokensStored(Len(s.exchanges) + 1),
                estimated_savings(pend[r].tokens, pend[r].warm))
Saved(s, r) ==
    Accumulated(s, r, pend[r].tokens, estimatedSavings(pend[r].tokens, pend[r].warm))

(* record_turn appends to the session object; a session deleted meanwhile  *)
(* is no longer reachable                                                  *)
RecordTurn(r) ==
    /\ host = "service" /\ Waiting(r)
    /\ session' = IF session = Absent THEN Absent ELSE Recorded(session, r)
    /\ pend' = [pend EXCEPT ![r] = Done]
    /\ UNCHANGED <<host, serial, creates, usageVars>>

SaveTurn_Mixed(r) ==
    /\ host = "edge" /\ Waiting(r)
    /\ session' = [Saved(IF session = Absent THEN New ELSE session, r)
                     EXCEPT !.turns = pend[r].loaded.turns + 1]
    /\ pend' = [pend EXCEPT ![r] = Done]
    /\ events' = events \cup {r}
    /\ UNCHANGED <<host, serial, creates, queue, batch, delivered, counted, failures>>

(* The edge saves the copy it loaded before the await, and the worker      *)
(* hands a usage event to waitUntil                                        *)
SaveTurn(r) ==
    /\ host = "edge" /\ Waiting(r)
    /\ session' = Saved(pend[r].loaded, r)
    /\ pend' = [pend EXCEPT ![r] = Done]
    /\ events' = events \cup {r}
    /\ UNCHANGED <<host, serial, creates, queue, batch, delivered, counted, failures>>

(* The backend fails: 502, nothing stored, nothing metered *)
TurnFails(r) ==
    /\ Waiting(r)
    /\ pend' = [pend EXCEPT ![r] = Done]
    /\ UNCHANGED <<host, serial, session, creates, usageVars>>

-----------------------------------------------------------------------------
(* Usage *)

(* USAGE.send reaches the queue, or the worker dies before it does *)
Send(r) ==
    /\ r \in events
    /\ events' = events \ {r}
    /\ queue' = queue \cup {r}
    /\ UNCHANGED <<host, serial, sessionVars, batch, delivered, counted, failures>>

LoseEvent(r) ==
    /\ r \in events
    /\ events' = events \ {r}
    /\ UNCHANGED <<host, serial, sessionVars, queue, batch, delivered, counted, failures>>

(* The queue hands over everything it holds as one batch *)
Deliver ==
    /\ delivered = {} /\ queue # {}
    /\ batch' = queue /\ delivered' = queue
    /\ UNCHANGED <<host, serial, sessionVars, events, queue, counted, failures>>

(* One upsert of the handler of the queue, atomic in the database *)
Fold(r) ==
    /\ r \in batch
    /\ counted' = [counted EXCEPT ![r] = @ + 1]
    /\ batch' = batch \ {r}
    /\ UNCHANGED <<host, serial, sessionVars, events, queue, delivered, failures>>

Acknowledge_Keeps ==
    /\ delivered # {} /\ batch = {}
    /\ delivered' = {}
    /\ UNCHANGED <<host, serial, sessionVars, events, queue, batch, counted, failures>>

(* The handler returns: the batch is acknowledged as a whole *)
Acknowledge ==
    /\ delivered # {} /\ batch = {}
    /\ queue' = queue \ delivered
    /\ delivered' = {}
    /\ UNCHANGED <<host, serial, sessionVars, events, batch, counted, failures>>

BatchFails_Acked ==
    /\ batch # {} /\ failures < MaxFailures
    /\ failures' = failures + 1
    /\ queue' = queue \ delivered
    /\ batch' = {} /\ delivered' = {}
    /\ UNCHANGED <<host, serial, sessionVars, events, counted>>

(* An upsert throws: the whole batch is delivered again, the messages that *)
(* were folded in already included                                         *)
BatchFails ==
    /\ batch # {} /\ failures < MaxFailures
    /\ failures' = failures + 1
    /\ batch' = {} /\ delivered' = {}
    /\ UNCHANGED <<host, serial, sessionVars, events, queue, counted>>

SessionsNext ==
    \/ Create \/ Delete
    \/ \E r \in Reqs : \E path \in Paths : TurnBegin(r, path)
    \/ \E r \in Reqs : RecordTurn(r) \/ SaveTurn(r) \/ TurnFails(r)
    \/ \E r \in Reqs : Send(r) \/ LoseEvent(r) \/ Fold(r)
    \/ Deliver \/ Acknowledge \/ BatchFails

(* The queue keeps delivering and a handler that does not throw goes on;   *)
(* nothing makes a client send or a backend answer                         *)
SessionsSpec ==
    /\ SessionsInit /\ [][SessionsNext]_platformVars
    /\ WF_platformVars(Deliver) /\ WF_platformVars(Acknowledge)
    /\ WF_platformVars(\E r \in Reqs : Fold(r))

-----------------------------------------------------------------------------
(* Properties *)

Stored(s) ==
    /\ s.turns \in Nat /\ s.tokens \in Nat /\ s.saved_ms \in Nat
    /\ s.tier \in DOMAIN Coldness
    /\ s.exchanges \in Seq([turn : Reqs, on : Seq(Reqs)])

(* Type invariant *)
TypeOK ==
    /\ host \in Hosts /\ serial \in Serial
    /\ session = Absent \/ (DOMAIN session = DOMAIN New /\ Stored(session))
    /\ creates \in 0 .. MaxCreates
    /\ \A r \in Reqs :
          \/ pend[r] \in {NotSent, Done}
          \/ /\ pend[r].pc = "wait" /\ pend[r].path \in {"turn", "forward"}
             /\ Stored(pend[r].loaded) /\ pend[r].on \in Seq(Reqs)
    /\ events \cup queue \cup batch \cup delivered \subseteq Reqs
    /\ batch \subseteq delivered /\ delivered \subseteq queue
    /\ counted \in [Reqs -> Nat]
    /\ failures \in 0 .. MaxFailures

(* What the n-th turn of a session saves when every earlier one was stored *)
(* (all but the first are warm), as each host rounds it                    *)
ServiceSaves == [n \in Nat |-> estimated_savings(TokensSent("turn", n - 1), n > 1)]
EdgeSaves == [n \in Nat |-> estimatedSavings(TokensSent("turn", n - 1), n > 1)]

Sums(f) == LET total[n \in Nat] == IF n = 0 THEN 0 ELSE total[n - 1] + f[n] IN total

(* What the turns stored in a session have saved *)
SavedBy(s) == Sums(IF host = "edge" THEN EdgeSaves ELSE ServiceSaves)[Len(s.exchanges)]

(* Overlapping turns of a Durable Object never mix: every exchange in the  *)
(* stored history was answered on exactly the exchanges stored before it,  *)
(* turns counts them when no one-field request was saved, and then savings *)
(* and tier are those of exactly these turns, the same tier on both hosts. *)
(* A session idle for longer is never kept in a faster tier.  The service  *)
(* promises this only to clients that wait (session.ts, save of the copy)  *)
StoredIsCoherent ==
    session # Absent /\ (host = "edge" \/ serial) =>
        LET n == Len(session.exchanges) IN
        /\ \A i \in 1 .. n :
              session.exchanges[i].on = [j \in 1 .. i - 1 |-> session.exchanges[j].turn]
        /\ session.turns >= n
        /\ session.turns = n /\ n > 0 =>
              /\ session.saved_ms = SavedBy(session)
              /\ session.tier =
                    decide(IdleSeconds[session.exchanges[n].turn], TokensSent("turn", n - 1))
        /\ \A r \in Reqs : Waiting(r) =>
              \A q \in Reqs :
                  Waiting(q) /\ pend[q].tokens = pend[r].tokens /\ IdleSeconds[q] <= IdleSeconds[r] =>
                      Coldness[pend[q].tier] <= Coldness[pend[r].tier]

(* A redelivered batch counts its messages again, so the rollup may exceed *)
(* the turns served, but by at most one per failed batch, and it counts    *)
(* nothing that was not enqueued (index.ts, queue)                         *)
OvercountIsBounded ==
    \A r \in Reqs :
        /\ counted[r] <= failures + 1
        /\ r \in events => counted[r] = 0

(* Every event that reached the queue is folded into the rollup in spite   *)
(* of batches that fail (index.ts, queue)                                  *)
EnqueuedIsCounted == \A r \in Reqs : r \in queue ~> counted[r] > 0

LogOf(s) == IF s = Absent THEN Absent ELSE s.exchanges

(* The one-writer log, seen when clients wait for their answers *)
SerialLog == INSTANCE TurnLog WITH
    TurnIds <- Reqs, log <- IF serial THEN LogOf(session) ELSE Absent

(* For clients that wait for each answer both hosts implement the log with *)
(* a single writer, also when turns fail and the session is dropped,       *)
(* created again or used with one-field requests                           *)
SerialRefines == SerialLog!LogSpec

(* The log of the Durable Object as session.ts promises it to everyone *)
AnyLog == INSTANCE TurnLog WITH TurnIds <- Reqs, log <- LogOf(session)

(* "single-writer turn ordering (no concurrent-turn races)": the history   *)
(* of a session grows one exchange at a time (session.ts, header)          *)
SingleWriter == AnyLog!LogSpec
=============================================================================
