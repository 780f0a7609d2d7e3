------------------------------ MODULE Listing ------------------------------
(***************************************************************************)
(* How the clients of one user learn of changes: handlers write the bucket *)
(* and publish, the hub pushes events over websockets, and clients list    *)
(* the bucket with conditional requests, which the server answers from its *)
(* listing cache.  The n-th write makes the bucket n.                      *)
(***************************************************************************)
EXTENDS EventsHub

CONSTANTS Callers,     \* parts of clients that list: a page, a sync engine
          Owner,       \* Owner[k]: the client that caller k is part of
          Ticking,     \* callers that also list on a timer (sync engine)
          MaxEvents,   \* bound: writes to the bucket and restarts, together
          Times,       \* bound: what the wall clock can read
          None

ASSUME OwnerAssumption == Owner \in [Callers -> Conns] /\ Ticking \subseteq Callers
ASSUME BoundAssumption == MaxEvents \in Nat
ASSUME NoneAssumption == None \notin Times /\ None \notin Nat \X Nat \X Times

VARIABLES bucket,    \* number of the last write to the bucket
          toPublish, \* writes whose handler has yet to publish
          announced, \* the latest write that has been published
          boot,      \* listBootNonce: restarts so far
          cache,     \* listCache: the last listing stored, and its age
          online,    \* clients whose websocket is authenticated
          kept,      \* Client.listETag and lastList
          due,       \* the caller was told to list again
          call,      \* the ListFiles call of each caller
          owed       \* history: a change was published that the caller has not
                     \* listed, its client being connected; a failed listing
                     \* is shown as such and owes nothing

storeVars  == <<bucket, toPublish, announced>>
clientVars == <<online, kept, due, owed>>
vars == <<hubVars, storeVars, boot, cache, clientVars, call>>

\* An entry of the cache, listed under a version by a request that began at a
\* time, and what clients keep of it.
Entry(v, t, n) == [version |-> v, at |-> t, objects |-> n]
List(tag, n) == [tag |-> tag, objects |-> n]
NoEntry      == Entry(0, None, 0)
NoList       == List(None, 0)
NoCall       == [pc |-> "idle", from |-> 0, kept |-> NoList, entry |-> NoEntry, reply |-> NoList]

At(k, pc) == call[k].pc = pc

Init ==
  /\ HubInit
  /\ bucket = 0 /\ toPublish = {} /\ announced = 0
  /\ boot = 0 /\ cache = [entry |-> NoEntry, old |-> TRUE]
  /\ online = {}
  /\ kept = [c \in Conns |-> NoList]
  /\ due = [k \in Callers |-> TRUE]
  /\ call = [k \in Callers |-> NoCall]
  /\ owed = [k \in Callers |-> FALSE]

---------------------------------------------------------------------------
(* Writes to the bucket.                                                   *)

\* A handler writes the bucket; it publishes afterwards.
Write ==
  /\ bucket + boot < MaxEvents
  /\ bucket' = bucket + 1 /\ toPublish' = toPublish \cup {bucket'}
  /\ UNCHANGED <<hubVars, announced, boot, cache, clientVars, call>>

\* Someone edits the bucket with the tools of MinIO: nobody publishes.
WriteOutside ==
  /\ bucket + boot < MaxEvents
  /\ bucket' = bucket + 1
  /\ UNCHANGED <<hubVars, toPublish, announced, boot, cache, clientVars, call>>

PublishChange(n) ==
  /\ n \in toPublish
  /\ Publish
  /\ toPublish' = toPublish \ {n}
  /\ announced' = IF n > announced THEN n ELSE announced
  /\ owed' = [k \in Callers |-> owed[k] \/ (n > announced /\ Owner[k] \in online)]
  /\ UNCHANGED <<bucket, boot, cache, online, kept, due, call>>

---------------------------------------------------------------------------
(* A listing, from ListFiles in the client through listRoot and back.      *)

\* The ETag names the process, the version and the time, not what it lists.
\* Mutant: it leaves out the process, and names the same after a restart.
ListETagBootless(e) == <<0, e.version, e.at>>
ListETag(e) == <<boot, e.version, e.at>>

\* The answer is the listing, or "not modified" when it is the one that the
\* client named; then the client replays that.
NotModified(mine, e) == mine.tag = ListETag(e)
Replied(from, mine, e) ==
  [pc |-> "reply", from |-> from, entry |-> e,
   kept  |-> IF NotModified(mine, e) THEN mine ELSE NoList,
   reply |-> IF NotModified(mine, e) THEN mine ELSE List(ListETag(e), e.objects)]

\* A cached listing is served at its version, while it is young.
Valid(v) == cache.entry.version = v /\ ~cache.old

\* The clock is in nanoseconds: no two requests that list the bucket under one
\* version read the same time; one that nobody remembers is as good as new.
\* Under different versions, and in different processes, they may read the
\* same: a clock can be set back.
Remembered ==
  {ListETag(e) : e \in {cache.entry} \cup {call[k].entry : k \in Callers}}
    \cup {kept[c].tag : c \in Conns} \cup {call[k].kept.tag : k \in Callers}
Unread(t) == <<boot, version, t>> \notin Remembered

\* The client names the listing it has; the server reads the clock and the
\* version first, before the bucket.
ListFiles(k) ==
  LET mine == kept[Owner[k]] IN
    /\ At(k, "idle") /\ due[k]
    /\ due' = [due EXCEPT ![k] = FALSE]
    /\ \/ /\ Valid(version)
          /\ call' = [call EXCEPT ![k] = Replied(announced, mine, cache.entry)]
       \/ /\ ~Valid(version)
          /\ \E t \in Times :
               /\ Unread(t)
               /\ call' = [call EXCEPT ![k] =
                    [NoCall EXCEPT !.pc = "list", !.from = announced, !.kept = mine,
                                   !.entry = Entry(version, t, 0)]]
    /\ UNCHANGED <<hubVars, storeVars, boot, cache, online, kept, owed>>

ListObjects(k) ==
  /\ At(k, "list")
  /\ call' = [call EXCEPT ![k].pc = "put", ![k].entry.objects = bucket]
  /\ UNCHANGED <<hubVars, storeVars, boot, cache, clientVars>>

\* Of two listings at once, the last one to end stays in the cache.
\* Mutant: the entry is filed under the version that is current by now.
ListPutLate(k) ==
  /\ At(k, "put")
  /\ cache' = [entry |-> [call[k].entry EXCEPT !.version = version], old |-> FALSE]
  /\ call' = [call EXCEPT ![k] = Replied(@.from, @.kept, cache'.entry)]
  /\ UNCHANGED <<hubVars, storeVars, boot, clientVars>>
ListPut(k) ==
  /\ At(k, "put")
  /\ cache' = [entry |-> call[k].entry, old |-> FALSE]
  /\ call' = [call EXCEPT ![k] = Replied(@.from, @.kept, @.entry)]
  /\ UNCHANGED <<hubVars, storeVars, boot, clientVars>>

\* The client keeps a new listing; another call may have kept a later one.
ListReturn(k) ==
  LET list == call[k].reply IN
    /\ At(k, "reply")
    /\ owed' = [owed EXCEPT ![k] = @ /\ list.objects < announced]
    /\ kept' = IF list = call[k].kept THEN kept ELSE [kept EXCEPT ![Owner[k]] = list]
    /\ call' = [call EXCEPT ![k] = NoCall]
    /\ UNCHANGED <<hubVars, storeVars, boot, cache, online, due>>

\* The listing fails, or the request or its answer is lost.
ListFails(k) ==
  /\ ~At(k, "idle")
  /\ call' = [call EXCEPT ![k] = NoCall]
  /\ owed' = [owed EXCEPT ![k] = FALSE]
  /\ UNCHANGED <<hubVars, storeVars, boot, cache, online, kept, due>>

\* listCacheTTL has passed since the listing in the cache.
CacheExpires ==
  /\ ~cache.old
  /\ cache' = [cache EXCEPT !.old = TRUE]
  /\ UNCHANGED <<hubVars, storeVars, boot, clientVars, call>>

---------------------------------------------------------------------------
(* Events and connections.                                                 *)

HubSteps == (TimerFires \/ FanOut) /\ UNCHANGED <<storeVars, boot, cache, clientVars, call>>

\* A websocket is authenticated and subscribed: what was published before, the
\* client will not hear of.
Connect(c) ==
  /\ c \notin online
  /\ Subscribe(c)
  /\ online' = online \cup {c}
  /\ UNCHANGED <<storeVars, boot, cache, kept, due, owed, call>>

Disconnect(c) ==
  /\ c \in online
  /\ Unsubscribe(c)
  /\ online' = online \ {c}
  /\ owed' = [k \in Callers |-> owed[k] /\ Owner[k] # c]
  /\ UNCHANGED <<storeVars, boot, cache, kept, due, call>>

\* An event makes every part of the client list again; one that is listing
\* does so when it has finished.
\* Mutant: a part that is listing already ignores it (no buffer in nudge).
DeliverIdle(c) ==
  /\ c \in online /\ Send(c)
  /\ due' = [k \in Callers |-> due[k] \/ (Owner[k] = c /\ At(k, "idle"))]
  /\ UNCHANGED <<storeVars, boot, cache, online, kept, owed, call>>
Deliver(c) ==
  /\ c \in online /\ Send(c)
  /\ due' = [k \in Callers |-> due[k] \/ Owner[k] = c]
  /\ UNCHANGED <<storeVars, boot, cache, online, kept, owed, call>>

\* The ticker of the sync engine.
Tick(k) ==
  /\ k \in Ticking /\ ~due[k]
  /\ due' = [due EXCEPT ![k] = TRUE]
  /\ UNCHANGED <<hubVars, storeVars, boot, cache, online, kept, owed, call>>

\* The API process restarts: its hub, its cache and its handlers are gone.
Restart ==
  /\ bucket + boot < MaxEvents
  /\ HubReset
  /\ boot' = boot + 1 /\ cache' = [entry |-> NoEntry, old |-> TRUE]
  /\ toPublish' = {} /\ online' = {}
  /\ call' = [k \in Callers |-> NoCall] /\ owed' = [k \in Callers |-> FALSE]
  /\ UNCHANGED <<bucket, announced, kept, due>>

---------------------------------------------------------------------------
CallSteps(k) == ListFiles(k) \/ ListObjects(k) \/ ListPut(k) \/ ListReturn(k)

Next ==
  \/ Write \/ WriteOutside
  \/ \E n \in toPublish : PublishChange(n)
  \/ HubSteps \/ CacheExpires \/ Restart
  \/ \E k \in Callers : CallSteps(k) \/ ListFails(k) \/ Tick(k)
  \/ \E c \in Conns : Connect(c) \/ Disconnect(c) \/ Deliver(c)

Spec == Init /\ [][Next]_vars

---------------------------------------------------------------------------
TypeOK ==
  /\ HubTypeOK
  /\ bucket \in 0..MaxEvents /\ announced \in 0..bucket /\ toPublish \subseteq 1..bucket

\* Whatever requests and changes interleave, a listing shows every change that
\* was published before the client asked for it: the cache never holds, under
\* the current version, a listing from before a published change.
ListingFresh ==
  \A k \in Callers : At(k, "reply") => call[k].reply.objects >= call[k].from

\* "Not modified" is said only when the client has the listing that it would
\* be sent, although the tag names the process, the version and the time and
\* not the listing: across restarts, which count versions from 0 again,
\* expiries, and listings of one version that ran at the same time and saw
\* different buckets.
NotModifiedExact ==
  \A k \in Callers : At(k, "reply") => call[k].reply.objects = call[k].entry.objects

\* What a caller has listed, or will list without being told again.
Coming(k) ==
  /\ call[k].pc \in {"put", "reply"}
  /\ call[k].entry.objects >= announced

\* News of a change are on their way to a connected client until it has listed
\* the change: an event that is collected, dropped or late, or arrives during
\* a listing, never leaves the client with an older view for good.
NoNewsLost ==
  \A k \in Callers : owed[k] =>
    \/ pending \/ firing > 0 \/ inbox[Owner[k]] > 0
    \/ due[k] \/ At(k, "list") \/ Coming(k)

=============================================================================
