----------------------------- MODULE WsSessions -----------------------------
(***************************************************************************)
(* The WebSocket server of the JSON-RPC plugin: its sessions, their        *)
(* subscriptions and the events of the node that are sent to them.  Every  *)
(* handler runs on a thread of the pool the RPC plugin starts, so requests *)
(* of one session, the events and the acceptor interleave; the model lets  *)
(* as many handlers run at once as there are.                              *)
(***************************************************************************)
EXTENDS Naturals, Sequences, FiniteSets, SequencesExt

CONSTANTS Clients,      \* the clients, each of which connects once
          Events,       \* the event handlers considered, a subset of Handlers
          Forms,        \* the options of a subscription considered, a subset of BOOLEAN
          MaxRequests,  \* requests each client makes
          MaxEvents,    \* events the node emits
          None

(***************************************************************************)
(* SubscriptionType, and what the handlers the plugin subscribes to the    *)
(* node's events send, in their order: a finalized block (with an anchor   *)
(* or without), a transaction, a DAG block and a pillar block.  No handler *)
(* sends LOGS.                                                             *)
(***************************************************************************)
Types == {"HEADS", "DAG_BLOCKS", "TRANSACTIONS", "DAG_BLOCK_FINALIZED", "PBFT_BLOCK_EXECUTED",
          "PILLAR_BLOCK", "LOGS"}
Handlers == {<<"HEADS", "DAG_BLOCK_FINALIZED", "PBFT_BLOCK_EXECUTED">>, <<"HEADS", "PBFT_BLOCK_EXECUTED">>,
             <<"TRANSACTIONS">>, <<"DAG_BLOCKS">>, <<"PILLAR_BLOCK">>}

VARIABLES running,    \* "yes", or how the server ended
          sessions_,  \* the sessions the server knows, a sequence of clients
          accepting,  \* the client whose upgrade is read under sessions_mtx_
          ws,         \* the sessions
          jobs,       \* the requests posted to the pool
          casts       \* the events posted to the pool, in the order of the node

vars == <<running, sessions_, accepting, ws, jobs, casts>>

NewSession == [stage |-> "away", closed_ |-> FALSE, asked |-> 0, subscription_id_ |-> 0,
               subscriptions_ |-> {}, subscriptions_by_type_ |-> [t \in Types |-> <<>>],
               strand |-> <<>>, wire |-> <<>>]

Init ==
  /\ running = "yes"
  /\ sessions_ = <<>>
  /\ accepting = None
  /\ ws = [c \in Clients |-> NewSession]
  /\ jobs = {}
  /\ casts = <<>>

(* The stream of a session is open from the end of its handshake on. *)
is_closed(c) == ws[c].closed_ \/ ws[c].stage # "open"

(* closed_ is set for good, the stream is closed if it was open, and what   *)
(* its strand holds will not be written.                                     *)
close(s) == [s EXCEPT !.closed_ = TRUE, !.stage = "down", !.strand = <<>>]

(* The answer to a request, told apart from a notification only. *)
Response == [id |-> 0, event |-> 0, type |-> "response", full |-> FALSE]

(* do_write: the message is posted to the strand of the session. *)
do_write(c, message) ==
  IF is_closed(c) THEN ws[c] ELSE [ws[c] EXCEPT !.strand = Append(@, message)]

-----------------------------------------------------------------------------
(* Accepting a connection *)

Connect(c) ==
  /\ ws[c].stage = "away"
  /\ ws' = [ws EXCEPT ![c].stage = "connecting"]
  /\ UNCHANGED <<running, sessions_, accepting, jobs, casts>>

Locked == accepting # None
Shared == \E e \in DOMAIN casts : casts[e].sending

(* The session is created and run under the unique lock; first the sessions *)
(* that are closed are erased.  run() reads the upgrade request on the spot. *)
on_accept(c) ==
  /\ ~Locked /\ ~Shared
  /\ ws[c].stage = "connecting"
  /\ sessions_' = Append(SelectSeq(sessions_, LAMBDA d : ~is_closed(d)), c)
  /\ accepting' = c
  /\ ws' = [ws EXCEPT ![c].stage = "upgrading"]
  /\ UNCHANGED <<running, jobs, casts>>

run(c) ==
  /\ accepting = c
  /\ accepting' = None
  /\ ws' \in {[ws EXCEPT ![c].stage = "handshake"], [ws EXCEPT ![c] = close(@)]}
  /\ UNCHANGED <<running, sessions_, jobs, casts>>

(* The answer to the upgrade request has been sent, or that failed. *)
on_handshake(c) ==
  /\ ws[c].stage = "handshake"
  /\ ws' \in {[ws EXCEPT ![c].stage = "open"], [ws EXCEPT ![c] = close(@)]}
  /\ UNCHANGED <<running, sessions_, accepting, jobs, casts>>

-----------------------------------------------------------------------------
(* Requests *)

Requests == [method : {"eth_subscribe"}, type : UNION {Range(h) : h \in Events}, full : Forms]
              \cup [method : {"eth_unsubscribe"}, id : 1..Max(Range(MaxRequests))]
              \cup [method : {"other", "unknown_subscription"}]

(* on_read and handleRequest: the request is posted and the next one read. *)
on_read(c, request) ==
  /\ ~is_closed(c)
  /\ ws[c].asked < MaxRequests[c]
  /\ jobs' = jobs \cup {[client |-> c, n |-> ws[c].asked + 1, request |-> request, done |-> FALSE]}
  /\ ws' = [ws EXCEPT ![c].asked = @ + 1]
  /\ UNCHANGED <<running, sessions_, accepting, casts>>

(* The client leaves or its connection breaks. *)
on_read_error(c) ==
  /\ ~is_closed(c)
  /\ ws' = [ws EXCEPT ![c] = close(@)]
  /\ UNCHANGED <<running, sessions_, accepting, jobs, casts>>

(* since is not a field of the code: the events emitted before it. *)
Subscription(id, type, full) == [id |-> id, type |-> type, full |-> full, since |-> Len(casts)]

ReplacesOthers(s, id, type, full) ==
  [s EXCEPT !.subscriptions_ = @ \cup {Subscription(id, type, full)},
            !.subscriptions_by_type_[type] = <<id>>]

addSubscription(s, id, type, full) ==
  [s EXCEPT !.subscriptions_ = @ \cup {Subscription(id, type, full)},
            !.subscriptions_by_type_[type] = Append(@, id)]

removeSubscription(s, id) ==
  [s EXCEPT !.subscriptions_ = {u \in @ : u.id # id},
            !.subscriptions_by_type_ = [t \in Types |-> SelectSeq(@[t], LAMBDA i : i # id)]]

(* Every eth_subscribe takes an id, one of an unknown type too. *)
handleSubscription(s, request) ==
  LET id == s.subscription_id_ + 1
      counted == [s EXCEPT !.subscription_id_ = id]
  IN IF request.method = "unknown_subscription"
     THEN counted
     ELSE addSubscription(counted, id, request.type, request.full)

handleUnsubscription(s, request) == removeSubscription(s, request.id)

Processed(s, request) ==
  CASE request.method \in {"eth_subscribe", "unknown_subscription"} -> handleSubscription(s, request)
    [] request.method = "eth_unsubscribe" -> handleUnsubscription(s, request)
    [] OTHER -> s

(* The posted handler: the request takes effect, ... *)
processRequest(j) ==
  /\ ~j.done
  /\ ws' = [ws EXCEPT ![j.client] = Processed(@, j.request)]
  /\ jobs' = (jobs \ {j}) \cup {[j EXCEPT !.done = TRUE]}
  /\ UNCHANGED <<running, sessions_, accepting, casts>>

(* ... and then its answer is posted to the strand. *)
respond(j) ==
  /\ j.done
  /\ ws' = [ws EXCEPT ![j.client] = do_write(j.client, Response)]
  /\ jobs' = jobs \ {j}
  /\ UNCHANGED <<running, sessions_, accepting, casts>>

(* The strand writes one message after the other; a failure closes. *)
write(c) ==
  /\ ws[c].strand # <<>>
  /\ LET s == [ws[c] EXCEPT !.strand = Tail(@)]
         message == Head(ws[c].strand)
     IN ws' \in {[ws EXCEPT ![c] = t] :
                   t \in {[s EXCEPT !.wire = IF message = Response THEN @ ELSE Append(@, message)], close(s)}}
  /\ UNCHANGED <<running, sessions_, accepting, jobs, casts>>

-----------------------------------------------------------------------------
(* Events *)

(* emit: the handler of an event is posted to the pool. *)
emit(h) ==
  /\ Len(casts) < MaxEvents
  /\ casts' = Append(casts, [types |-> h, sent |-> {}, sending |-> FALSE, todo |-> <<>>, at |-> 0])
  /\ UNCHANGED <<running, sessions_, accepting, ws, jobs>>

(* The entry of a list after id i, or the first when i is 0; 0 at the end. *)
After(list, i) ==
  LET next == IF i = 0 THEN 1 ELSE 1 + CHOOSE k \in DOMAIN list : list[k] = i
  IN IF next \in DOMAIN list THEN list[next] ELSE 0

Listed(c, e) == ws[c].subscriptions_by_type_[Head(casts[e].types)]

(* The subscription at the head of the sessions to visit. *)
Visit(cast, todo) ==
  LET open == SelectSeq(todo, LAMBDA c : ~is_closed(c) /\ ws[c].subscriptions_by_type_[Head(cast.types)] # <<>>)
  IN IF open = <<>>
     THEN [cast EXCEPT !.types = Tail(@), !.sent = @ \cup {Head(cast.types)}, !.sending = FALSE, !.todo = <<>>, !.at = 0]
     ELSE LET c == Head(open)
          IN [cast EXCEPT !.sending = TRUE, !.at = After(ws[c].subscriptions_by_type_[Head(cast.types)], 0),
                          !.todo = SubSeq(todo, CHOOSE k \in DOMAIN todo : todo[k] = c, Len(todo))]

(* newEthBlock, newDagBlock, ...: the sessions are visited under the shared *)
(* lock, all of them before the next type is sent.                           *)
newEvent(e) ==
  /\ ~Locked
  /\ ~casts[e].sending /\ casts[e].types # <<>>
  /\ casts' = [casts EXCEPT ![e] = Visit(@, sessions_)]
  /\ UNCHANGED <<running, sessions_, accepting, ws, jobs>>

processPayload(u, e) == [id |-> u.id, event |-> e, type |-> u.type, full |-> u.full]

(* Subscriptions::process: the message of the subscription the iterator is  *)
(* at is posted, and the iterator moves on in the list as it is now.         *)
process(e) ==
  /\ casts[e].sending
  /\ LET c == Head(casts[e].todo)
         next == After(Listed(c, e), casts[e].at)
     IN \E u \in ws[c].subscriptions_ :
          /\ u.id = casts[e].at
          /\ ws' = [ws EXCEPT ![c] = do_write(c, processPayload(u, e))]
          /\ casts' = [casts EXCEPT ![e] = IF next = 0 THEN Visit(@, Tail(@.todo)) ELSE [@ EXCEPT !.at = next]]
  /\ UNCHANGED <<running, sessions_, accepting, jobs>>

(* The subscription the iterator is at has been erased, for the list is     *)
(* walked without the lock: subscriptions_[id] is a null pointer then.       *)
process_erased(e) ==
  /\ casts[e].sending
  /\ ~\E u \in ws[Head(casts[e].todo)].subscriptions_ : u.id = casts[e].at
  /\ running' = "crashed"
  /\ UNCHANGED <<sessions_, accepting, ws, jobs, casts>>

(* ~WsServer: the pool is stopped and the sessions closed. *)
Stop ==
  /\ ~Locked /\ ~Shared
  /\ running' = "stopped"
  /\ ws' = [c \in Clients |-> IF c \in Range(sessions_) /\ ~is_closed(c) THEN close(ws[c]) ELSE ws[c]]
  /\ sessions_' = <<>>
  /\ UNCHANGED <<accepting, jobs, casts>>

Next ==
  /\ running = "yes"
  /\ \/ \E c \in Clients : \/ Connect(c) \/ on_accept(c) \/ run(c) \/ on_handshake(c)
                           \/ on_read_error(c) \/ write(c)
                           \/ \E r \in Requests : on_read(c, r)
     \/ \E j \in jobs : processRequest(j) \/ respond(j)
     \/ \E h \in Handlers \cap Events : emit(h)
     \/ \E e \in DOMAIN casts : newEvent(e) \/ process(e) \/ process_erased(e)
     \/ Stop

Spec == Init /\ [][Next]_vars

-----------------------------------------------------------------------------
(* What subscription u of client c was sent of event e. *)
Received(c, u, e) == SelectSeq(ws[c].wire \o ws[c].strand, LAMBDA m : m = processPayload(u, e))

Owed(c, u) == {e \in DOMAIN casts : e > u.since /\ u.type \in casts[e].sent}

(* While the server runs, every subscription of a session that is open and  *)
(* that the server still lists is sent, exactly once, each event of its type *)
(* emitted after it was made, however subscribing, unsubscribing, the events *)
(* and new connections interleave.  It says nothing of a session that an     *)
(* accept has dropped during its handshake: see SubscribersNotified.         *)
ListedAreNotified ==
  running = "yes" =>
    \A c \in Range(sessions_) : ~is_closed(c) =>
      \A u \in ws[c].subscriptions_ : \A e \in Owed(c, u) : Len(Received(c, u, e)) = 1

(* What doc/RPC.md promises of eth_subscribe: every event that matches a    *)
(* subscription is sent to it, as long as its connection is open and the     *)
(* operator does not stop the node.                                          *)
SubscribersNotified ==
  /\ running # "crashed"
  /\ running = "yes" =>
       \A c \in Clients : ~is_closed(c) =>
         \A u \in ws[c].subscriptions_ : \A e \in Owed(c, u) : Received(c, u, e) # <<>>
=============================================================================
