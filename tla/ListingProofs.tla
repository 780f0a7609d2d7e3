--------------------------- MODULE ListingProofs ---------------------------
(***************************************************************************)
(* Proofs about Listing, for any numbers of clients and callers and any    *)
(* size of the channels.                                                   *)
(***************************************************************************)
EXTENDS Listing, TLAPS

Tags    == Nat \X Nat \X Times
Entries == [version : Nat, at : Times \cup {None}, objects : Nat]
Lists   == [tag : Tags \cup {None}, objects : Nat]
Calls == [pc : {"idle", "list", "put", "reply"}, from : Nat, kept : Lists,
          entry : Entries, reply : Lists]

Types ==
  /\ TypeOK
  /\ boot \in Nat
  /\ cache \in [entry : Entries, old : BOOLEAN]
  /\ kept \in [Conns -> Lists]
  /\ call \in [Callers -> Calls]

\* What was listed under the version that is still current has all that was
\* published.
Recent(e) == e.version <= version /\ (e.version = version => e.objects >= announced)

CacheRecent ==
  /\ cache.entry.version <= version
  /\ Valid(version) => cache.entry.objects >= announced
  /\ ~cache.old => cache.entry.at \in Times

CallRecent(k) ==
  /\ At(k, "list")  => /\ call[k].entry.version <= version /\ call[k].from <= announced
                       /\ call[k].entry.at \in Times
  /\ At(k, "put")   => /\ Recent(call[k].entry) /\ call[k].entry.objects >= call[k].from
                       /\ call[k].entry.at \in Times
  /\ At(k, "reply") => /\ call[k].reply.objects >= call[k].from
                       /\ call[k].reply.objects = call[k].entry.objects

ListingInv == Types /\ CacheRecent /\ \A k \in Callers : CallRecent(k)

\* All that is shown under a tag: by the cache, by calls that have listed, and by
\* what clients keep.
SentBy(b, e) == List(<<b, e.version, e.at>>, e.objects)
Sent(e) == SentBy(boot, e)
Shown ==
  {NoList, Sent(cache.entry)}
    \cup {Sent(call[k].entry) : k \in {j \in Callers : call[j].pc \in {"put", "reply"}}}
    \cup {kept[c] : c \in Conns}
    \cup {call[k].kept : k \in Callers} \cup {call[k].reply : k \in Callers}

\* Whatever has the same tag shows the same; a listing that is still being made
\* will have a tag of its own; and no tag is from a later process.
TagsExact ==
  /\ \A l, m \in Shown : l.tag = m.tag => l.objects = m.objects
  /\ \A k \in Callers : At(k, "list") =>
       /\ \A l \in Shown : l.tag # ListETag(call[k].entry)
       /\ \A j \in Callers \ {k} : At(j, "list") => ListETag(call[j].entry) # ListETag(call[k].entry)
  /\ \A l \in Shown : l.tag # None => l.tag[1] <= boot
  /\ \A k \in Callers : call[k].reply.tag \in {None, ListETag(call[k].entry)}

---------------------------------------------------------------------------
\* An answer, a listing or "not modified".
LEMMA RepliedIs ==
  ASSUME NEW from \in Nat, NEW mine \in Lists, NEW e \in Entries, e.at \in Times, boot \in Nat
  PROVE  /\ Replied(from, mine, e) \in Calls
         /\ Replied(from, mine, e).pc = "reply"
         /\ Replied(from, mine, e).from = from
         /\ Replied(from, mine, e).entry = e
         /\ Replied(from, mine, e).kept \in {mine, NoList}
         /\ Replied(from, mine, e).reply \in {mine, Sent(e)}
<1>1. ListETag(e) \in Tags
  BY DEF ListETag, Tags, Entries
<1>2. Sent(e) \in Lists
  BY <1>1 DEF Sent, SentBy, ListETag, List, Lists, Entries
<1>3. NoList \in Lists
  BY DEF NoList, List, Lists
<1> QED
  BY <1>2, <1>3 DEF Replied, Calls, Sent, SentBy, ListETag

\* It is what the entry shows: who has the tag has the listing.
LEMMA RepliedShows ==
  ASSUME TagsExact, NEW from, NEW mine \in Shown, NEW e, Sent(e) \in Shown
  PROVE  Replied(from, mine, e).reply.objects = e.objects
<1>1. Sent(e).tag = ListETag(e) /\ Sent(e).objects = e.objects
  BY DEF Sent, SentBy, ListETag, List
<1>2. NotModified(mine, e) => mine.objects = e.objects
  BY <1>1 DEF TagsExact, NotModified
<1> QED
  BY <1>1, <1>2 DEF Replied, Sent, SentBy, ListETag

LEMMA NoCallIsCall == NoCall \in Calls /\ NoCall.pc = "idle" /\ NoList \in Lists /\ NoEntry \in Entries
<1>1. NoList \in Lists
  BY DEF NoList, List, Lists
<1>2. NoEntry \in Entries
  BY DEF NoEntry, Entry, Entries
<1> QED
  BY <1>1, <1>2 DEF NoCall, Calls

LEMMA InitListing == Init => ListingInv
<1> SUFFICES ASSUME Init PROVE ListingInv
  OBVIOUS
<1>1. TypeOK
  <2>1. pending \in BOOLEAN
    BY Zenon DEF Init, HubInit
  <2>2. inbox \in [Conns -> 0..Buffer] /\ subs \subseteq Conns /\ version \in Nat /\ firing \in Nat
    BY BufferAssumption DEF Init, HubInit
  <2>3. bucket \in 0..MaxEvents /\ announced \in 0..bucket /\ toPublish \subseteq 1..bucket
    BY BoundAssumption DEF Init
  <2> QED
    BY <2>1, <2>2, <2>3 DEF TypeOK, HubTypeOK
<1>2. Types
  BY <1>1, NoCallIsCall DEF Init, Types
<1>3. CacheRecent
  BY DEF Init, HubInit, CacheRecent, Valid, NoEntry, Entry
<1>4. \A k \in Callers : CallRecent(k)
  BY NoCallIsCall DEF Init, CallRecent, At
<1> QED
  BY <1>2, <1>3, <1>4 DEF ListingInv

---------------------------------------------------------------------------
\* Steps that leave calls, cache, kept listings and all counters alone, but for
\* growing the bucket.
LEMMA QuietStep ==
  ASSUME ListingInv, TypeOK',
         UNCHANGED <<version, announced, boot, cache, kept, call>>
  PROVE  ListingInv'
<1>1. Types'
  BY DEF ListingInv, Types
<1>2. CacheRecent'
  BY DEF ListingInv, CacheRecent, Valid
<1>3. (\A k \in Callers : CallRecent(k))'
  BY DEF ListingInv, CallRecent, Recent, At
<1> QED
  BY <1>1, <1>2, <1>3 DEF ListingInv

LEMMA WriteStep ==
  ASSUME ListingInv, Write \/ WriteOutside
  PROVE  ListingInv'
<1>1. TypeOK'
  <2>1. HubTypeOK'
    <3>1. UNCHANGED hubVars
      BY Zenon DEF Write, WriteOutside
    <3> QED
      BY <3>1 DEF ListingInv, Types, TypeOK, HubTypeOK, hubVars
  <2>2. bucket' \in 0..MaxEvents /\ announced' \in 0..bucket' /\ toPublish' \subseteq 1..bucket'
    <3>1. bucket + boot < MaxEvents /\ bucket' = bucket + 1 /\ announced' = announced
      BY Zenon DEF Write, WriteOutside, storeVars
    <3>2. toPublish' = toPublish \/ toPublish' = toPublish \cup {bucket'}
      <4>1. ASSUME Write PROVE toPublish' = toPublish \cup {bucket'}
        BY <4>1, Zenon DEF Write
      <4>2. ASSUME WriteOutside PROVE toPublish' = toPublish
        BY <4>2 DEF WriteOutside
      <4> QED
        BY <4>1, <4>2, Zenon
    <3>3. /\ bucket \in 0..MaxEvents /\ announced \in 0..bucket
          /\ toPublish \subseteq 1..bucket /\ boot \in Nat
      BY DEF ListingInv, Types, TypeOK
    <3>4. bucket' \in 0..MaxEvents /\ announced' \in 0..bucket'
      BY <3>1, <3>3, BoundAssumption
    <3>5. bucket \in Nat /\ 1..bucket \subseteq 1..bucket' /\ bucket' \in 1..bucket'
      BY <3>1, <3>3, BoundAssumption
    <3>6. toPublish' \subseteq 1..bucket'
      BY <3>2, <3>3, <3>5, Zenon
    <3> QED
      BY <3>4, <3>6
  <2> QED
    BY <2>1, <2>2 DEF TypeOK
<1> QED
  BY <1>1, QuietStep DEF Write, WriteOutside, hubVars, clientVars

\* Publishing makes every entry older than the version.
LEMMA PublishStep ==
  ASSUME ListingInv, NEW n \in toPublish, PublishChange(n)
  PROVE  ListingInv'
<1> USE DEF ListingInv
<1>1. version' = version + 1 /\ version \in Nat /\ announced' \in Nat /\ announced' >= announced
  BY DEF PublishChange, Publish, Types, TypeOK, HubTypeOK
<1>2. TypeOK'
  BY DEF PublishChange, Publish, Types, TypeOK, HubTypeOK
<1>3. UNCHANGED <<boot, cache, kept, call>>
  BY DEF PublishChange
<1>4. Types'
  BY <1>2, <1>3 DEF Types
<1>5. CacheRecent'
  BY <1>1, <1>3 DEF CacheRecent, Valid, Types, Entries
<1>6. ASSUME NEW k \in Callers PROVE CallRecent(k)'
  <2>1. CallRecent(k) /\ call[k].entry.version \in Nat /\ call[k].from \in Nat
    BY DEF Types, Calls, Entries
  <2>2. announced \in Nat
    BY DEF Types, TypeOK
  <2> QED
    BY <1>1, <1>3, <2>1, <2>2 DEF CallRecent, Recent, At
<1> QED
  BY <1>4, <1>5, <1>6

---------------------------------------------------------------------------
\* A step of one call that leaves the cache alone.
LEMMA CallStep ==
  ASSUME ListingInv, NEW k \in Callers, NEW new \in Calls, TypeOK',
         call' = [call EXCEPT ![k] = new],
         kept' \in [Conns -> Lists],
         UNCHANGED <<version, announced, boot, cache>>,
         CallRecent(k)'
  PROVE  ListingInv'
<1>1. Types'
  BY DEF ListingInv, Types
<1>2. CacheRecent'
  BY DEF ListingInv, CacheRecent, Valid
<1>3. ASSUME NEW j \in Callers, j # k PROVE CallRecent(j)'
  BY <1>3 DEF ListingInv, Types, CallRecent, Recent, At
<1> QED
  BY <1>1, <1>2, <1>3 DEF ListingInv

LEMMA TypeKept ==
  ASSUME TypeOK, UNCHANGED <<hubVars, storeVars>>
  PROVE  TypeOK'
BY DEF TypeOK, HubTypeOK, hubVars, storeVars

LEMMA ListFilesStep ==
  ASSUME ListingInv, TagsExact, NEW k \in Callers, ListFiles(k)
  PROVE  ListingInv'
<1> DEFINE mine == kept[Owner[k]]
<1>1. /\ mine \in Lists /\ announced \in Nat /\ version \in Nat /\ boot \in Nat
      /\ cache.entry \in Entries
  BY OwnerAssumption DEF ListingInv, Types, TypeOK, HubTypeOK
<1>2. TypeOK' /\ UNCHANGED <<version, announced, boot, cache, kept>>
  BY TypeKept DEF ListFiles, ListingInv, Types, hubVars, storeVars
<1>3. CASE Valid(version)
  <2> DEFINE new == Replied(announced, mine, cache.entry)
  <2>1. call' = [call EXCEPT ![k] = new]
    BY <1>3 DEF ListFiles
  <2>2. /\ new \in Calls /\ new.pc = "reply" /\ new.from = announced
        /\ new.entry = cache.entry
    <3>1. cache.entry.at \in Times
      BY <1>3 DEF ListingInv, CacheRecent, Valid
    <3> QED
      BY <1>1, <3>1, RepliedIs
  <2>6. new.reply.objects = cache.entry.objects
    <3>1. mine \in Shown /\ Sent(cache.entry) \in Shown
      BY OwnerAssumption DEF Shown
    <3> HIDE DEF mine
    <3> QED
      BY <3>1, RepliedShows
  <2>3. call'[k] = new
    BY <2>1 DEF ListingInv, Types
  <2>4. cache.entry.objects >= announced
    BY <1>3 DEF ListingInv, CacheRecent
  <2> HIDE DEF new
  <2>5. CallRecent(k)'
    BY <2>2, <2>3, <2>4, <2>6, <1>2 DEF CallRecent, At
  <2> QED
    BY <1>2, <2>1, <2>2, <2>5, CallStep DEF ListingInv, Types
<1>4. CASE ~Valid(version)
  <2>0. PICK t \in Times : call' = [call EXCEPT ![k] =
           [NoCall EXCEPT !.pc = "list", !.from = announced, !.kept = mine,
                          !.entry = Entry(version, t, 0)]]
    BY <1>4 DEF ListFiles
  <2> DEFINE new == [NoCall EXCEPT !.pc = "list", !.from = announced, !.kept = mine,
                                   !.entry = Entry(version, t, 0)]
  <2>1. call' = [call EXCEPT ![k] = new]
    BY <2>0
  <2>2. /\ new \in Calls /\ new.pc = "list" /\ new.from = announced
        /\ new.entry.version = version /\ new.entry.at \in Times
    BY <1>1, NoCallIsCall DEF Calls, NoCall, Entry, Entries
  <2>3. call'[k] = new
    BY <2>1 DEF ListingInv, Types
  <2> HIDE DEF new
  <2>5. CallRecent(k)'
    BY <2>2, <2>3, <1>1, <1>2 DEF CallRecent, At
  <2> QED
    BY <1>2, <2>1, <2>2, <2>5, CallStep DEF ListingInv, Types
<1> QED
  BY <1>3, <1>4

LEMMA ListObjectsStep ==
  ASSUME ListingInv, NEW k \in Callers, ListObjects(k)
  PROVE  ListingInv'
<1> DEFINE new == [call[k] EXCEPT !.pc = "put", !.entry.objects = bucket]
<1>1. call[k] \in Calls /\ bucket \in Nat /\ announced \in Nat /\ announced <= bucket /\ version \in Nat
  BY BoundAssumption DEF ListingInv, Types, TypeOK, HubTypeOK
<1>2. TypeOK' /\ UNCHANGED <<version, announced, boot, cache, kept>>
  BY TypeKept DEF ListObjects, ListingInv, Types, hubVars, storeVars, clientVars
<1>3. call' = [call EXCEPT ![k] = new] /\ At(k, "list")
  BY DEF ListObjects, ListingInv, Types
<1>4. /\ new \in Calls /\ new.pc = "put" /\ new.from = call[k].from
      /\ new.entry.version = call[k].entry.version /\ new.entry.objects = bucket
      /\ new.entry.at = call[k].entry.at
  BY <1>1 DEF Calls, Entries
<1>5. call'[k] = new
  BY <1>3 DEF ListingInv, Types
<1>6. /\ call[k].entry.version <= version /\ call[k].from <= announced /\ call[k].from \in Nat
      /\ call[k].entry.at \in Times
  BY <1>1, <1>3 DEF ListingInv, CallRecent, Calls
<1> HIDE DEF new
<1>7. CallRecent(k)'
  BY <1>1, <1>2, <1>4, <1>5, <1>6 DEF CallRecent, Recent, At
<1> QED
  BY <1>2, <1>3, <1>4, <1>7, CallStep DEF ListingInv, Types

LEMMA ListPutStep ==
  ASSUME ListingInv, TagsExact, NEW k \in Callers, ListPut(k)
  PROVE  ListingInv'
<1> DEFINE e == call[k].entry
           new == Replied(call[k].from, call[k].kept, e)
<1>1. call[k].from \in Nat /\ call[k].kept \in Lists /\ e \in Entries /\ boot \in Nat
  BY DEF ListingInv, Types, Calls
<1>2. TypeOK' /\ UNCHANGED <<version, announced, boot, kept>>
  BY TypeKept DEF ListPut, ListingInv, Types, hubVars, storeVars, clientVars
<1>3. call' = [call EXCEPT ![k] = new] /\ At(k, "put") /\ cache' = [entry |-> e, old |-> FALSE]
  BY DEF ListPut, ListingInv, Types
<1>4. Recent(e) /\ e.objects >= call[k].from /\ e.at \in Times
  BY <1>3 DEF ListingInv, CallRecent
<1>5. /\ new \in Calls /\ new.pc = "reply" /\ new.from = call[k].from
      /\ new.entry = e /\ new.reply.objects = e.objects
  <2>1. call[k].kept \in Shown /\ Sent(e) \in Shown
    BY <1>3 DEF Shown, At
  <2> HIDE DEF e
  <2> QED
    BY <1>1, <1>4, <2>1, RepliedIs, RepliedShows
<1>6. call'[k] = new
  BY <1>3 DEF ListingInv, Types
<1> HIDE DEF new
<1>7. Types'
  BY <1>1, <1>2, <1>3, <1>5 DEF ListingInv, Types
<1>8. CacheRecent'
  BY <1>2, <1>3, <1>4 DEF CacheRecent, Valid, Recent
<1>9. ASSUME NEW j \in Callers PROVE CallRecent(j)'
  <2>1. CASE j = k
    BY <2>1, <1>2, <1>5, <1>6, <1>4 DEF CallRecent, At
  <2>2. CASE j # k
    BY <2>2, <1>2, <1>3 DEF ListingInv, Types, CallRecent, Recent, At
  <2> QED
    BY <2>1, <2>2
<1> QED
  BY <1>7, <1>8, <1>9 DEF ListingInv

\* The end of a call.
LEMMA CallEnds ==
  ASSUME ListingInv, NEW k \in Callers, ListReturn(k) \/ ListFails(k)
  PROVE  ListingInv'
<1>1. TypeOK' /\ UNCHANGED <<version, announced, boot, cache>>
  BY TypeKept DEF ListReturn, ListFails, ListingInv, Types, hubVars, storeVars
<1>2. call' = [call EXCEPT ![k] = NoCall]
  BY DEF ListReturn, ListFails
<1>3. kept' \in [Conns -> Lists]
  <2>1. call[k].reply \in Lists
    BY DEF ListingInv, Types, Calls
  <2> QED
    BY <2>1 DEF ListReturn, ListFails, ListingInv, Types
<1>4. CallRecent(k)'
  BY <1>2, NoCallIsCall DEF CallRecent, At, ListingInv, Types
<1> QED
  BY <1>1, <1>2, <1>3, <1>4, NoCallIsCall, CallStep

---------------------------------------------------------------------------
LEMMA CacheExpiresStep ==
  ASSUME ListingInv, CacheExpires
  PROVE  ListingInv'
<1>1. TypeOK' /\ UNCHANGED <<version, announced, boot, kept, call>>
  BY TypeKept DEF CacheExpires, ListingInv, Types, hubVars, storeVars, clientVars
<1>2. cache' = [cache EXCEPT !.old = TRUE]
  BY DEF CacheExpires
<1>3. Types'
  BY <1>1, <1>2 DEF ListingInv, Types
<1>4. CacheRecent'
  BY <1>1, <1>2 DEF ListingInv, Types, CacheRecent, Valid
<1>5. (\A k \in Callers : CallRecent(k))'
  BY <1>1 DEF ListingInv, CallRecent, Recent, At
<1> QED
  BY <1>3, <1>4, <1>5 DEF ListingInv

\* The hub, connections and tickers.
LEMMA EventStep ==
  ASSUME ListingInv,
         \/ HubSteps
         \/ \E k \in Callers : Tick(k)
         \/ \E c \in Conns : Connect(c) \/ Disconnect(c) \/ Deliver(c)
  PROVE  ListingInv'
<1> USE DEF ListingInv, Types
<1>1. CASE HubSteps
  <2>1. pending' \in BOOLEAN
    BY <1>1, Zenon DEF HubSteps, TimerFires, FanOut, TypeOK, HubTypeOK
  <2>2. /\ version' \in Nat /\ firing' \in Nat /\ subs' \subseteq Conns
        /\ inbox' \in [Conns -> 0..Buffer]
    BY <1>1, BufferAssumption DEF HubSteps, TimerFires, FanOut, TypeOK, HubTypeOK
  <2>3. TypeOK'
    BY <1>1, <2>1, <2>2 DEF HubSteps, TypeOK, HubTypeOK, storeVars
  <2> QED
    BY <1>1, <2>3, QuietStep DEF HubSteps, TimerFires, FanOut, storeVars, clientVars
<1>2. ASSUME NEW k \in Callers, Tick(k) PROVE ListingInv'
  <2>1. TypeOK'
    BY <1>2, TypeKept DEF Tick
  <2> QED
    BY <1>2, <2>1, QuietStep DEF Tick, hubVars, storeVars
<1>3. ASSUME NEW c \in Conns, Connect(c) \/ Disconnect(c) \/ Deliver(c) PROVE ListingInv'
  <2>1. TypeOK'
    BY <1>3, BufferAssumption
    DEF Connect, Disconnect, Deliver, Subscribe, Unsubscribe, Send, TypeOK, HubTypeOK, storeVars
  <2> QED
    BY <1>3, <2>1, QuietStep
    DEF Connect, Disconnect, Deliver, Subscribe, Unsubscribe, Send, storeVars
<1> QED
  BY <1>1, <1>2, <1>3

LEMMA RestartStep ==
  ASSUME ListingInv, Restart
  PROVE  ListingInv'
<1>1. TypeOK'
  <2>1. pending' \in BOOLEAN
    BY Zenon DEF Restart, HubReset
  <2>2. /\ version' \in Nat /\ firing' \in Nat /\ subs' \subseteq Conns
        /\ inbox' \in [Conns -> 0..Buffer]
    BY BufferAssumption DEF Restart, HubReset
  <2>3. bucket' \in 0..MaxEvents /\ announced' \in 0..bucket' /\ toPublish' \subseteq 1..bucket'
    BY DEF Restart, ListingInv, Types, TypeOK
  <2> QED
    BY <2>1, <2>2, <2>3 DEF TypeOK, HubTypeOK
<1>2. Types'
  BY <1>1, NoCallIsCall DEF Restart, ListingInv, Types
<1>3. CacheRecent'
  BY DEF Restart, HubReset, CacheRecent, Valid, NoEntry, Entry
<1>4. (\A k \in Callers : CallRecent(k))'
  BY NoCallIsCall DEF Restart, CallRecent, At
<1> QED
  BY <1>2, <1>3, <1>4 DEF ListingInv

LEMMA NextListing == ListingInv /\ TagsExact /\ [Next]_vars => ListingInv'
<1> SUFFICES ASSUME ListingInv, TagsExact, [Next]_vars PROVE ListingInv'
  OBVIOUS
<1>1. CASE Write \/ WriteOutside
  BY <1>1, WriteStep
<1>2. ASSUME NEW n \in toPublish, PublishChange(n) PROVE ListingInv'
  BY <1>2, PublishStep
<1>3. CASE HubSteps
  BY <1>3, EventStep
<1>4. CASE CacheExpires
  BY <1>4, CacheExpiresStep
<1>5. CASE Restart
  BY <1>5, RestartStep
<1>6. ASSUME NEW k \in Callers, CallSteps(k) PROVE ListingInv'
  BY <1>6, ListFilesStep, ListObjectsStep, ListPutStep, CallEnds DEF CallSteps
<1>7. ASSUME NEW k \in Callers, ListFails(k) PROVE ListingInv'
  BY <1>7, CallEnds
<1>8. ASSUME NEW k \in Callers, Tick(k) PROVE ListingInv'
  BY <1>8, EventStep
<1>9. ASSUME NEW c \in Conns, Connect(c) \/ Disconnect(c) \/ Deliver(c) PROVE ListingInv'
  BY <1>9, EventStep
<1>10. CASE UNCHANGED vars
  <2>1. TypeOK'
    BY <1>10, TypeKept DEF vars, ListingInv, Types
  <2> QED
    BY <1>10, <2>1, QuietStep DEF vars, hubVars, storeVars, clientVars
<1> QED
  BY <1>1, <1>2, <1>3, <1>4, <1>5, <1>6, <1>7, <1>8, <1>9, <1>10 DEF Next

---------------------------------------------------------------------------
(* Tags.  What is shown only grows by a listing that ends, under the tag    *)
(* that was kept for it since it began.                                     *)

LEMMA InitTags == Init => TagsExact
<1> SUFFICES ASSUME Init PROVE TagsExact
  OBVIOUS
<1>1. /\ cache.entry = NoEntry /\ boot = 0
      /\ \A c \in Conns : kept[c] = NoList
      /\ \A k \in Callers : call[k] = NoCall
  BY DEF Init
<1>2. \A l \in Shown : l \in {NoList, Sent(NoEntry)}
  BY <1>1 DEF Shown, NoCall
<1>3. /\ NoList.tag = None /\ NoList.objects = 0
      /\ Sent(NoEntry).tag = <<0, 0, None>> /\ Sent(NoEntry).objects = 0
  BY <1>1 DEF NoList, List, Sent, SentBy, NoEntry, Entry, ListETag
<1>4. \A k \in Callers : ~At(k, "list") /\ call[k].reply = NoList
  BY <1>1 DEF At, NoCall
<1> QED
  BY <1>1, <1>2, <1>3, <1>4 DEF TagsExact

\* Nothing new is shown and no listing begins.
LEMMA TagsKept ==
  ASSUME TagsExact, UNCHANGED boot, Shown' \subseteq Shown,
         \A k \in Callers : At(k, "list")' => At(k, "list") /\ call'[k] = call[k],
         \A k \in Callers : call'[k].reply.tag \in {None, ListETag(call'[k].entry)}
  PROVE  TagsExact'
<1>1. \A k \in Callers : At(k, "list")' => ListETag(call[k].entry)' = ListETag(call[k].entry)
  BY DEF ListETag
<1>2. \A k \in Callers : (call[k].reply.tag \in {None, ListETag(call[k].entry)})'
  BY DEF ListETag
<1> QED
  BY <1>1, <1>2 DEF TagsExact

LEMMA QuietTags ==
  ASSUME TagsExact, UNCHANGED <<boot, kept, call>>, cache'.entry = cache.entry
  PROVE  TagsExact'
<1>1. Shown' = Shown
  BY DEF Shown, Sent, SentBy, ListETag
<1>2. \A k \in Callers : At(k, "list")' => At(k, "list") /\ call'[k] = call[k]
  BY DEF At
<1>3. \A k \in Callers : call'[k].reply.tag \in {None, ListETag(call'[k].entry)}
  BY DEF TagsExact
<1> QED
  BY <1>1, <1>2, <1>3, TagsKept

\* One call becomes another one, that shows nothing new and does not list.
LEMMA CallTags ==
  ASSUME ListingInv, TagsExact, NEW k \in Callers, NEW new \in Calls,
         call' = [call EXCEPT ![k] = new], new.pc # "list", UNCHANGED boot,
         new.pc \in {"put", "reply"} => Sent(new.entry) \in Shown,
         new.kept \in Shown, new.reply \in Shown,
         new.reply.tag \in {None, ListETag(new.entry)},
         Sent(cache'.entry) \in Shown, \A c \in Conns : kept'[c] \in Shown
  PROVE  TagsExact'
<1>1. call \in [Callers -> Calls]
  BY DEF ListingInv, Types
<1>2. call'[k] = new /\ \A j \in Callers \ {k} : call'[j] = call[j]
  BY <1>1
<1>3. \A e : SentBy(boot', e) = Sent(e)
  BY DEF Sent
<1>4. ASSUME NEW j \in Callers
      PROVE  /\ call'[j].pc \in {"put", "reply"} => Sent(call'[j].entry) \in Shown
             /\ call'[j].kept \in Shown /\ call'[j].reply \in Shown
             /\ call'[j].reply.tag \in {None, ListETag(call'[j].entry)}
             /\ At(j, "list")' => At(j, "list") /\ call'[j] = call[j]
  <2>1. CASE j = k
    BY <1>2, <2>1 DEF At
  <2>2. CASE j # k
    BY <1>2, <2>2 DEF At, Shown, TagsExact
  <2> QED
    BY <2>1, <2>2
<1>5. ASSUME NEW l \in Shown' PROVE l \in Shown
  <2>1. NoList \in Shown
    BY DEF Shown
  <2>2. \/ l \in {NoList, SentBy(boot', cache'.entry)}
        \/ \E j \in Callers : call'[j].pc \in {"put", "reply"} /\ l = SentBy(boot', call'[j].entry)
        \/ \E c \in Conns : l = kept'[c]
        \/ \E j \in Callers : l = call'[j].kept \/ l = call'[j].reply
    BY DEF Shown, Sent
  <2> QED
    BY <1>3, <1>4, <2>1, <2>2
<1> QED
  BY <1>4, <1>5, TagsKept

LEMMA RepliedTag ==
  ASSUME NEW from, NEW mine, NEW e
  PROVE  Replied(from, mine, e).reply.tag = ListETag(e)
BY DEF Replied, NotModified, List

LEMMA CachedTags ==
  ASSUME ListingInv, TagsExact, NEW k \in Callers, ListFiles(k), Valid(version)
  PROVE  TagsExact'
<1> DEFINE mine == kept[Owner[k]]
           new == Replied(announced, mine, cache.entry)
<1>1. /\ mine \in Lists /\ announced \in Nat /\ boot \in Nat /\ cache.entry \in Entries
      /\ cache.entry.at \in Times
  BY OwnerAssumption, BoundAssumption DEF ListingInv, Types, TypeOK, CacheRecent, Valid
<1>2. mine \in Shown /\ Sent(cache.entry) \in Shown /\ NoList \in Shown
  BY OwnerAssumption DEF Shown
<1>3. /\ new \in Calls /\ new.pc = "reply" /\ new.entry = cache.entry
      /\ new.kept \in {mine, NoList} /\ new.reply \in {mine, Sent(cache.entry)}
      /\ new.reply.tag = ListETag(cache.entry)
  BY <1>1, RepliedIs, RepliedTag
<1>4. call' = [call EXCEPT ![k] = new] /\ UNCHANGED <<boot, cache, kept>>
  BY DEF ListFiles
<1>5. \A c \in Conns : kept'[c] \in Shown
  BY <1>4 DEF Shown
<1> HIDE DEF new, mine
<1> QED
  BY <1>2, <1>3, <1>4, <1>5, CallTags

\* A listing that begins reads a time that no one remembers.
LEMMA BeginTags ==
  ASSUME ListingInv, TagsExact, NEW k \in Callers, ListFiles(k), ~Valid(version)
  PROVE  TagsExact'
<1> DEFINE mine == kept[Owner[k]]
<1>1. PICK t \in Times :
        /\ Unread(t)
        /\ call' = [call EXCEPT ![k] =
              [NoCall EXCEPT !.pc = "list", !.from = announced, !.kept = mine,
                             !.entry = Entry(version, t, 0)]]
  BY DEF ListFiles
<1> DEFINE new == [NoCall EXCEPT !.pc = "list", !.from = announced, !.kept = mine,
                                 !.entry = Entry(version, t, 0)]
           tag == <<boot, version, t>>
<1>2. /\ call \in [Callers -> Calls] /\ boot \in Nat /\ version \in Nat
      /\ UNCHANGED <<boot, cache, kept>>
  BY DEF ListingInv, Types, TypeOK, HubTypeOK, ListFiles
<1>3. /\ new.pc = "list" /\ new.kept = mine /\ new.reply = NoList
      /\ ListETag(new.entry) = tag /\ NoList.tag = None
  BY DEF NoCall, ListETag, Entry, NoList, List
<1>4. tag \notin Remembered /\ tag # None
  BY <1>1, <1>2, NoneAssumption DEF Unread
<1>5. call'[k] = new /\ \A j \in Callers \ {k} : call'[j] = call[j]
  BY <1>1, <1>2
<1>6. mine \in Shown /\ NoList \in Shown
  BY OwnerAssumption DEF Shown
<1>7. \A e : SentBy(boot', e) = Sent(e) /\ Sent(e).tag = ListETag(e)
  BY <1>2 DEF Sent, SentBy, ListETag, List
<1> HIDE DEF new, mine, tag
<1>8. ASSUME NEW l \in Shown' PROVE l \in Shown
  <2>1. \/ l \in {NoList, SentBy(boot', cache'.entry)}
        \/ \E j \in Callers : call'[j].pc \in {"put", "reply"} /\ l = SentBy(boot', call'[j].entry)
        \/ \E c \in Conns : l = kept'[c]
        \/ \E j \in Callers : l = call'[j].kept \/ l = call'[j].reply
    BY DEF Shown, Sent
  <2>2. CASE l \in {NoList, SentBy(boot', cache'.entry)} \/ \E c \in Conns : l = kept'[c]
    BY <1>2, <1>7, <2>2 DEF Shown
  <2>3. ASSUME NEW j \in Callers, call'[j].pc \in {"put", "reply"}, l = SentBy(boot', call'[j].entry)
        PROVE  l \in Shown
    BY <1>3, <1>5, <1>7, <2>3 DEF Shown
  <2>4. ASSUME NEW j \in Callers, l = call'[j].kept \/ l = call'[j].reply PROVE l \in Shown
    <3>1. CASE j = k
      BY <1>3, <1>5, <1>6, <2>4, <3>1
    <3>2. CASE j # k
      BY <1>5, <2>4, <3>2 DEF Shown
    <3> QED
      BY <3>1, <3>2
  <2> QED
    BY <2>1, <2>2, <2>3, <2>4
<1>9. ASSUME NEW l \in Shown PROVE l.tag # tag
  <2>1. l.tag \in Remembered \cup {None}
    <3>1. CASE l = NoList \/ l = Sent(cache.entry)
      BY <1>3, <1>7, <3>1 DEF Remembered
    <3>2. ASSUME NEW j \in Callers, l = Sent(call[j].entry) \/ l = call[j].kept
          PROVE  l.tag \in Remembered \cup {None}
      BY <1>7, <3>2 DEF Remembered
    <3>3. ASSUME NEW j \in Callers, l = call[j].reply PROVE l.tag \in Remembered \cup {None}
      BY <3>3 DEF Remembered, TagsExact
    <3>4. ASSUME NEW c \in Conns, l = kept[c] PROVE l.tag \in Remembered \cup {None}
      BY <3>4 DEF Remembered
    <3> QED
      BY <3>1, <3>2, <3>3, <3>4 DEF Shown
  <2> QED
    BY <1>4, <2>1
<1>10. \A j \in Callers : ListETag(call[j].entry) # tag
  BY <1>4 DEF Remembered
<1>11. \A l, m \in Shown' : l.tag = m.tag => l.objects = m.objects
  BY <1>8 DEF TagsExact
<1>12. ASSUME NEW j \in Callers, At(j, "list")'
       PROVE  /\ \A l \in Shown' : l.tag # ListETag(call'[j].entry)
              /\ \A i \in Callers \ {j} : At(i, "list")' => ListETag(call'[i].entry) # ListETag(call'[j].entry)
  <2>1. CASE j = k
    BY <1>3, <1>5, <1>8, <1>9, <1>10, <2>1
  <2>2. CASE j # k
    <3>1. At(j, "list") /\ call'[j] = call[j]
      BY <1>5, <1>12, <2>2 DEF At
    <3>2. ASSUME NEW i \in Callers \ {j}, At(i, "list")'
          PROVE  ListETag(call'[i].entry) # ListETag(call[j].entry)
      <4>1. CASE i = k
        BY <1>3, <1>5, <1>10, <4>1
      <4>2. CASE i # k
        BY <1>5, <3>1, <3>2, <4>2 DEF At, TagsExact
      <4> QED
        BY <4>1, <4>2
    <3> QED
      BY <1>8, <3>1, <3>2 DEF TagsExact
  <2> QED
    BY <2>1, <2>2
<1>13. \A l \in Shown' : l.tag # None => l.tag[1] <= boot'
  BY <1>2, <1>8 DEF TagsExact
<1>14. \A j \in Callers : call'[j].reply.tag \in {None, ListETag(call'[j].entry)}
  BY <1>3, <1>5 DEF TagsExact
<1> QED
  BY <1>2, <1>11, <1>12, <1>13, <1>14 DEF TagsExact, ListETag

\* A listing that ends is shown under the tag that was kept for it.
LEMMA ObjectsTags ==
  ASSUME ListingInv, TagsExact, NEW k \in Callers, ListObjects(k)
  PROVE  TagsExact'
<1> DEFINE new == [call[k] EXCEPT !.pc = "put", !.entry.objects = bucket]
           tag == ListETag(call[k].entry)
<1>1. call \in [Callers -> Calls] /\ UNCHANGED <<boot, cache, kept>> /\ boot \in Nat
  BY DEF ListingInv, Types, ListObjects, clientVars
<1>2. At(k, "list") /\ call' = [call EXCEPT ![k] = new]
  BY <1>1 DEF ListObjects
<1>3. call'[k] = new /\ \A j \in Callers \ {k} : call'[j] = call[j]
  BY <1>1, <1>2
<1>4. /\ new.pc = "put" /\ new.kept = call[k].kept /\ new.reply = call[k].reply
      /\ ListETag(new.entry) = tag
  BY <1>1 DEF Calls, Entries, ListETag
<1>5. \A e : SentBy(boot', e) = Sent(e) /\ Sent(e).tag = ListETag(e)
  BY <1>1 DEF Sent, SentBy, ListETag, List
<1>6. tag[1] = boot
  BY DEF ListETag
<1> HIDE DEF new, tag
<1>7. ASSUME NEW l \in Shown' PROVE l \in Shown \/ l = Sent(new.entry)
  <2>1. \/ l \in {NoList, SentBy(boot', cache'.entry)}
        \/ \E j \in Callers : call'[j].pc \in {"put", "reply"} /\ l = SentBy(boot', call'[j].entry)
        \/ \E c \in Conns : l = kept'[c]
        \/ \E j \in Callers : l = call'[j].kept \/ l = call'[j].reply
    BY DEF Shown, Sent
  <2>2. CASE l \in {NoList, SentBy(boot', cache'.entry)} \/ \E c \in Conns : l = kept'[c]
    BY <1>1, <1>5, <2>2 DEF Shown
  <2>3. ASSUME NEW j \in Callers, call'[j].pc \in {"put", "reply"}, l = SentBy(boot', call'[j].entry)
        PROVE  l \in Shown \/ l = Sent(new.entry)
    BY <1>3, <1>5, <2>3 DEF Shown
  <2>4. ASSUME NEW j \in Callers, l = call'[j].kept \/ l = call'[j].reply PROVE l \in Shown
    BY <1>3, <1>4, <2>4 DEF Shown
  <2> QED
    BY <2>1, <2>2, <2>3, <2>4
<1>8. \A l \in Shown : l.tag # tag
  BY <1>2 DEF TagsExact, tag
<1>9. Sent(new.entry).tag = tag
  BY <1>4, <1>5
<1>10. \A l, m \in Shown' : l.tag = m.tag => l.objects = m.objects
  BY <1>7, <1>8, <1>9 DEF TagsExact
<1>11. ASSUME NEW j \in Callers, At(j, "list")'
       PROVE  /\ \A l \in Shown' : l.tag # ListETag(call'[j].entry)
              /\ \A i \in Callers \ {j} : At(i, "list")' => ListETag(call'[i].entry) # ListETag(call'[j].entry)
  <2>1. j # k /\ call'[j] = call[j] /\ At(j, "list")
    BY <1>3, <1>4, <1>11 DEF At
  <2>2. ListETag(call[j].entry) # tag /\ \A l \in Shown : l.tag # ListETag(call[j].entry)
    BY <1>2, <2>1 DEF TagsExact, tag
  <2>3. ASSUME NEW i \in Callers \ {j}, At(i, "list")'
        PROVE  ListETag(call'[i].entry) # ListETag(call[j].entry)
    <3>1. i # k /\ call'[i] = call[i] /\ At(i, "list")
      BY <1>3, <1>4, <2>3 DEF At
    <3> QED
      BY <2>1, <3>1 DEF TagsExact
  <2> QED
    BY <1>7, <1>9, <2>1, <2>2, <2>3
<1>12. \A l \in Shown' : l.tag # None => l.tag[1] <= boot'
  BY <1>1, <1>6, <1>7, <1>9 DEF TagsExact
<1>13. ASSUME NEW j \in Callers PROVE call'[j].reply.tag \in {None, ListETag(call'[j].entry)}
  BY <1>3, <1>4 DEF TagsExact, tag
<1> QED
  BY <1>1, <1>10, <1>11, <1>12, <1>13 DEF TagsExact, ListETag

LEMMA PutTags ==
  ASSUME ListingInv, TagsExact, NEW k \in Callers, ListPut(k)
  PROVE  TagsExact'
<1> DEFINE e == call[k].entry
           new == Replied(call[k].from, call[k].kept, e)
<1>1. /\ call[k].from \in Nat /\ call[k].kept \in Lists /\ e \in Entries /\ boot \in Nat
      /\ e.at \in Times
  BY DEF ListingInv, Types, Calls, CallRecent, ListPut
<1>2. call[k].kept \in Shown /\ Sent(e) \in Shown /\ NoList \in Shown
  BY DEF Shown, ListPut, At
<1>3. /\ new \in Calls /\ new.pc = "reply" /\ new.entry = e
      /\ new.kept \in {call[k].kept, NoList} /\ new.reply \in {call[k].kept, Sent(e)}
      /\ new.reply.tag = ListETag(e)
  BY <1>1, RepliedIs, RepliedTag
<1>4. /\ call' = [call EXCEPT ![k] = new] /\ UNCHANGED <<boot, kept>>
      /\ cache'.entry = e
  BY DEF ListPut, ListingInv, Types, clientVars
<1>5. \A c \in Conns : kept'[c] \in Shown
  BY <1>4 DEF Shown
<1> HIDE DEF new, e
<1> QED
  BY <1>2, <1>3, <1>4, <1>5, CallTags

LEMMA EndTags ==
  ASSUME ListingInv, TagsExact, NEW k \in Callers, ListReturn(k) \/ ListFails(k)
  PROVE  TagsExact'
<1>1. call' = [call EXCEPT ![k] = NoCall] /\ UNCHANGED <<boot, cache>>
  BY DEF ListReturn, ListFails
<1>2. \A c \in Conns : kept'[c] \in Shown
  <2>1. kept' = kept \/ kept' = [kept EXCEPT ![Owner[k]] = call[k].reply]
    BY DEF ListReturn, ListFails
  <2>2. call[k].reply \in Shown /\ \A c \in Conns : kept[c] \in Shown
    BY DEF Shown
  <2> QED
    BY <2>1, <2>2 DEF ListingInv, Types
<1>3. /\ NoCall \in Calls /\ NoCall.pc = "idle" /\ NoCall.kept = NoList /\ NoCall.reply = NoList
      /\ NoList.tag = None
  BY NoCallIsCall DEF NoCall, NoList, List
<1>4. NoList \in Shown /\ Sent(cache.entry) \in Shown
  BY DEF Shown
<1> QED
  BY <1>1, <1>2, <1>3, <1>4, CallTags

\* What a new process shows is named by its nonce.
LEMMA RestartTags ==
  ASSUME ListingInv, TagsExact, Restart
  PROVE  TagsExact'
<1>1. /\ boot' = boot + 1 /\ boot \in Nat /\ UNCHANGED kept /\ cache'.entry = NoEntry
      /\ \A k \in Callers : call'[k] = NoCall
  BY DEF Restart, ListingInv, Types
<1>2. ASSUME NEW l \in Shown' PROVE l \in {NoList, SentBy(boot', NoEntry)} \/ \E c \in Conns : l = kept[c]
  BY <1>1 DEF Shown, Sent, NoCall
<1>3. /\ SentBy(boot', NoEntry).tag = <<boot + 1, 0, None>> /\ NoList.tag = None
      /\ SentBy(boot', NoEntry).objects = 0
  BY <1>1 DEF Sent, SentBy, NoEntry, Entry, NoList, List, ListETag
<1>4. ASSUME NEW c \in Conns
      PROVE  kept[c] \in Shown /\ (kept[c].tag # None => kept[c].tag[1] \in Nat /\ kept[c].tag[1] <= boot)
  <2>1. kept[c] \in Shown /\ kept[c] \in Lists
    BY DEF Shown, ListingInv, Types
  <2> QED
    BY <2>1 DEF TagsExact, Lists, Tags
<1>5. <<boot + 1, 0, None>>[1] = boot + 1
  OBVIOUS
<1> DEFINE b == boot + 1
           first == SentBy(boot', NoEntry)
<1>6. first.tag[1] = b /\ b \in Nat /\ boot' = b /\ ~(b <= boot) /\ (\A n \in Nat : n <= boot => n <= b)
  BY <1>1, <1>3, <1>5
<1>7. NoList \in Shown /\ NoList.tag = None /\ NoList.objects = 0
  BY <1>3 DEF Shown, NoList, List
<1>8. first.objects = 0
  BY <1>3
<1> HIDE DEF b, first
<1>9. ASSUME NEW l \in Shown', NEW m \in Shown', l.tag = m.tag PROVE l.objects = m.objects
  <2>1. \A x \in {l, m} : x = first \/ (x \in Shown /\ (x.tag # None => x.tag[1] # b))
    BY <1>2, <1>4, <1>6, <1>7 DEF first
  <2>2. \A x \in Shown : x.tag = None => x.objects = 0
    BY <1>7 DEF TagsExact
  <2>3. \A x \in {l, m} : x = first \/ (x \in Shown /\ (x.tag = first.tag => x.objects = 0))
    BY <1>6, <2>1, <2>2
  <2> QED
    BY <1>8, <1>9, <2>3 DEF TagsExact
<1>10. \A l \in Shown' : l.tag # None => l.tag[1] <= boot'
  BY <1>2, <1>4, <1>6, <1>7 DEF first
<1>11. \A k \in Callers : ~At(k, "list")' /\ call'[k].reply.tag = None
  BY <1>1, <1>3 DEF At, NoCall
<1> QED
  BY <1>9, <1>10, <1>11 DEF TagsExact

LEMMA NextTags == ListingInv /\ TagsExact /\ [Next]_vars => TagsExact'
<1> SUFFICES ASSUME ListingInv, TagsExact, [Next]_vars PROVE TagsExact'
  OBVIOUS
<1>1. ASSUME NEW k \in Callers, ListFiles(k) PROVE TagsExact'
  BY <1>1, CachedTags, BeginTags
<1>2. ASSUME NEW k \in Callers, ListObjects(k) PROVE TagsExact'
  BY <1>2, ObjectsTags
<1>3. ASSUME NEW k \in Callers, ListPut(k) PROVE TagsExact'
  BY <1>3, PutTags
<1>4. ASSUME NEW k \in Callers, ListReturn(k) \/ ListFails(k) PROVE TagsExact'
  BY <1>4, EndTags
<1>5. CASE Restart
  BY <1>5, RestartTags
<1>6. CASE CacheExpires
  <2>1. cache'.entry = cache.entry /\ UNCHANGED <<boot, kept, call>>
    BY <1>6 DEF CacheExpires, clientVars, ListingInv, Types
  <2> QED
    BY <2>1, QuietTags
<1>7. ASSUME \/ Write \/ WriteOutside \/ HubSteps \/ UNCHANGED vars
             \/ \E n \in toPublish : PublishChange(n)
             \/ \E k \in Callers : Tick(k)
             \/ \E c \in Conns : Connect(c) \/ Disconnect(c) \/ Deliver(c)
      PROVE  TagsExact'
  <2>1. UNCHANGED <<boot, cache, kept, call>>
    BY <1>7 DEF Write, WriteOutside, HubSteps, vars, PublishChange, Tick, Connect, Disconnect, Deliver,
       clientVars
  <2> QED
    BY <2>1, QuietTags
<1> QED
  BY <1>1, <1>2, <1>3, <1>4, <1>5, <1>6, <1>7 DEF Next, CallSteps

LEMMA ListingInvHolds == Spec => [](ListingInv /\ TagsExact)
BY InitListing, InitTags, NextListing, NextTags, PTL DEF Spec

\* The variables keep their types; in particular no channel ever holds more
\* events than it has room for, and what was announced was written.
THEOREM ListingTypes == Spec => []TypeOK
<1>1. ListingInv => TypeOK
  BY DEF ListingInv, Types
<1> QED
  BY <1>1, ListingInvHolds, PTL

\* Whoever lists is shown every change that was published before, whatever
\* listings, changes, expiries and restarts happen at the same time: listRoot
\* reads the version before it lists.
THEOREM ListingsFresh == Spec => []ListingFresh
<1>1. ListingInv => ListingFresh
  BY DEF ListingInv, CallRecent, ListingFresh
<1> QED
  BY <1>1, ListingInvHolds, PTL

\* A client that is told "not modified" has the very listing that the server
\* would have sent.  Tags only tell processes, versions and times: that whoever
\* has a tag has its listing is what TagsExact shows, for any clock that never
\* reads the same for two listings of one version.
THEOREM NotModifiedIsExact == Spec => []NotModifiedExact
<1>1. ListingInv => NotModifiedExact
  BY DEF ListingInv, CallRecent, NotModifiedExact
<1> QED
  BY <1>1, ListingInvHolds, PTL

---------------------------------------------------------------------------
(* News.  A caller is owed a change only while its client is connected, and *)
(* then the client is subscribed: the next event reaches its channel, even  *)
(* a full one, which already holds an event.                                *)

Flags == due \in [Callers -> BOOLEAN] /\ owed \in [Callers -> BOOLEAN]

\* News are collected, handed out or in the channel of the client ...
OnTheWay(k) == pending \/ firing > 0 \/ inbox[Owner[k]] > 0

\* ... or the caller has heard of them.
Heard(k) == due[k] \/ At(k, "list") \/ Coming(k)

News(k) == owed[k] => Owner[k] \in online /\ (OnTheWay(k) \/ Heard(k))

NewsInv ==
  /\ ListingInv /\ TagsExact /\ Flags
  /\ online \subseteq subs
  /\ \A k \in Callers : News(k)

LEMMA InitNews == Init => NewsInv
<1> SUFFICES ASSUME Init PROVE NewsInv
  OBVIOUS
<1>1. due = [k \in Callers |-> TRUE] /\ owed = [k \in Callers |-> FALSE]
  BY DEF Init
<1>2. Flags
  BY <1>1, Zenon DEF Flags
<1>3. \A k \in Callers : ~owed[k]
  BY <1>1
<1> QED
  BY <1>2, <1>3, InitListing, InitTags DEF NewsInv, News, Init

\* What a caller has heard is kept by steps that change neither calls nor what
\* was announced, and take nothing from due.
LEMMA HeardKept ==
  ASSUME NEW k, UNCHANGED <<call, announced>>, due[k] => due'[k]
  PROVE  Heard(k) => Heard(k)'
BY DEF Heard, At, Coming

\* Steps that leave all of it alone.
LEMMA NewsKept ==
  ASSUME NewsInv, UNCHANGED <<hubVars, announced, clientVars, call>>
  PROVE  (online \subseteq subs /\ Flags /\ \A k \in Callers : News(k))'
<1>1. UNCHANGED <<pending, firing, subs, inbox, online, due, owed>>
  BY DEF hubVars, clientVars
<1>2. ASSUME NEW k \in Callers PROVE News(k)'
  BY <1>1, HeardKept DEF NewsInv, News, OnTheWay
<1> QED
  BY <1>1, <1>2 DEF NewsInv, Flags

\* Whatever is published is collected first.
LEMMA PublishNews ==
  ASSUME NewsInv, NEW n \in toPublish, PublishChange(n)
  PROVE  (online \subseteq subs /\ Flags /\ \A k \in Callers : News(k))'
<1>1. /\ pending' = TRUE /\ UNCHANGED <<subs, online, due>>
      /\ owed' = [k \in Callers |-> owed[k] \/ (n > announced /\ Owner[k] \in online)]
  BY DEF PublishChange, Publish
<1>2. owed' \in [Callers -> BOOLEAN]
  BY <1>1, Zenon
<1>3. \A k \in Callers : owed'[k] => owed[k] \/ Owner[k] \in online
  BY <1>1, Zenon
<1> QED
  BY <1>1, <1>2, <1>3 DEF NewsInv, News, Flags, OnTheWay

\* The burst is closed, and handed out to everyone who is subscribed.
LEMMA HubNews ==
  ASSUME NewsInv, HubSteps
  PROVE  (online \subseteq subs /\ Flags /\ \A k \in Callers : News(k))'
<1>1. UNCHANGED <<online, due, owed, call, announced, subs>>
  BY DEF HubSteps, TimerFires, FanOut, clientVars, storeVars
<1>2. firing \in Nat /\ inbox \in [Conns -> 0..Buffer] /\ Buffer \in Nat \ {0}
  BY BufferAssumption DEF NewsInv, ListingInv, Types, TypeOK, HubTypeOK
<1>3. ASSUME NEW k \in Callers, Owner[k] \in online, OnTheWay(k) PROVE OnTheWay(k)'
  <2>1. Owner[k] \in subs /\ Owner[k] \in Conns
    BY <1>3, OwnerAssumption DEF NewsInv
  <2>2. CASE TimerFires
    BY <1>2, <2>2 DEF TimerFires, OnTheWay
  <2>3. CASE FanOut
    <3>1. inbox'[Owner[k]] = IF inbox[Owner[k]] < Buffer THEN inbox[Owner[k]] + 1 ELSE inbox[Owner[k]]
      BY <2>1, <2>3 DEF FanOut
    <3>2. inbox[Owner[k]] \in 0..Buffer
      BY <1>2, <2>1
    <3>3. inbox'[Owner[k]] > 0
      BY <1>2, <3>1, <3>2
    <3> QED
      BY <3>3 DEF OnTheWay
  <2> QED
    BY <2>2, <2>3 DEF HubSteps
<1>4. ASSUME NEW k \in Callers PROVE News(k)'
  BY <1>1, <1>3, HeardKept DEF NewsInv, News
<1> QED
  BY <1>1, <1>4 DEF NewsInv, Flags

\* A caller that lists gets all that was announced, or has still to look: from
\* the cache only a listing that is recent.
LEMMA CallNews ==
  ASSUME NewsInv, NEW k \in Callers, ListFiles(k) \/ ListObjects(k) \/ ListPut(k)
  PROVE  (online \subseteq subs /\ Flags /\ \A j \in Callers : News(j))'
<1>1. UNCHANGED <<pending, firing, subs, inbox, online, owed, announced>>
  BY DEF ListFiles, ListObjects, ListPut, hubVars, storeVars, clientVars
<1>2. due' \in [Callers -> BOOLEAN] /\ \A j \in Callers \ {k} : due'[j] = due[j]
  <2>1. ASSUME ListFiles(k) PROVE due' = [due EXCEPT ![k] = FALSE]
    BY <2>1 DEF ListFiles
  <2>2. ASSUME ListObjects(k) \/ ListPut(k) PROVE due' = due
    BY <2>2 DEF ListObjects, ListPut, clientVars
  <2> QED
    BY <2>1, <2>2, Zenon DEF NewsInv, Flags
<1>3. /\ call \in [Callers -> Calls] /\ bucket \in Nat /\ announced \in 0..bucket
      /\ boot \in Nat /\ kept[Owner[k]] \in Lists /\ cache.entry \in Entries
  BY BoundAssumption, OwnerAssumption DEF NewsInv, ListingInv, Types, TypeOK
<1>4. \A j \in Callers \ {k} : call'[j] = call[j]
  BY <1>3 DEF ListFiles, ListObjects, ListPut
<1>5. ASSUME ListFiles(k), Valid(version) PROVE Coming(k)'
  <2> DEFINE new == Replied(announced, kept[Owner[k]], cache.entry)
  <2>1. call'[k] = new
    BY <1>3, <1>5 DEF ListFiles
  <2>2. cache.entry.objects >= announced /\ cache.entry.at \in Times
    BY <1>5 DEF NewsInv, ListingInv, CacheRecent, Valid
  <2>3. new.pc = "reply" /\ new.entry = cache.entry
    BY <1>3, <2>2, RepliedIs
  <2> HIDE DEF new
  <2> QED
    BY <1>1, <2>1, <2>3, <2>2 DEF Coming
<1>6. ASSUME ListFiles(k), ~Valid(version) PROVE At(k, "list")'
  <2>1. \E t \in Times :
          call'[k] = [NoCall EXCEPT !.pc = "list", !.from = announced, !.kept = kept[Owner[k]],
                                    !.entry = Entry(version, t, 0)]
    BY <1>3, <1>6 DEF ListFiles
  <2> QED
    BY <2>1 DEF At, NoCall
<1>7. ASSUME ListObjects(k) PROVE Coming(k)'
  <2>1. call'[k] = [call[k] EXCEPT !.pc = "put", !.entry.objects = bucket]
    BY <1>3, <1>7 DEF ListObjects
  <2>2. call'[k].pc = "put" /\ call'[k].entry.objects = bucket
    BY <1>3, <2>1 DEF Calls, Entries
  <2> QED
    BY <1>1, <1>3, <2>2 DEF Coming
<1>8. ASSUME ListPut(k) PROVE Heard(k) => Heard(k)'
  <2> DEFINE new == Replied(call[k].from, call[k].kept, call[k].entry)
  <2>1. call'[k] = new
    BY <1>3, <1>8 DEF ListPut
  <2>2. call[k].pc = "put" /\ call[k].entry.at \in Times
    BY <1>8 DEF ListPut, At, NewsInv, ListingInv, CallRecent
  <2>3. new.pc = "reply" /\ new.entry = call[k].entry
    <3>1. call[k].from \in Nat /\ call[k].kept \in Lists /\ call[k].entry \in Entries
      BY <1>3 DEF Calls
    <3> QED
      BY <1>3, <2>2, <3>1, RepliedIs
  <2> HIDE DEF new
  <2>4. Coming(k) => Coming(k)'
    BY <1>1, <2>1, <2>3, <2>2 DEF Coming
  <2>5. UNCHANGED due
    BY <1>8 DEF ListPut, clientVars
  <2> QED
    BY <2>2, <2>4, <2>5 DEF Heard, At
<1>9. (At(k, "list") \/ Coming(k))' \/ (Heard(k) => Heard(k)')
  BY <1>5, <1>6, <1>7, <1>8
<1>10. ASSUME NEW j \in Callers PROVE News(j)'
  <2>1. CASE j = k
    BY <1>1, <1>9, <2>1 DEF NewsInv, News, OnTheWay, Heard
  <2>2. CASE j # k
    <3>1. Heard(j) => Heard(j)'
      BY <1>1, <1>2, <1>4, <2>2 DEF Heard, At, Coming
    <3> QED
      BY <1>1, <3>1 DEF NewsInv, News, OnTheWay
  <2> QED
    BY <2>1, <2>2
<1> QED
  BY <1>1, <1>2, <1>10 DEF NewsInv, Flags

\* A caller that returns has what it was owed, or was told again meanwhile.
LEMMA ReturnNews ==
  ASSUME NewsInv, NEW k \in Callers, ListReturn(k) \/ ListFails(k)
  PROVE  (online \subseteq subs /\ Flags /\ \A j \in Callers : News(j))'
<1>1. UNCHANGED <<pending, firing, subs, inbox, online, due, announced>>
  BY DEF ListReturn, ListFails, hubVars, storeVars
<1>2. call' = [call EXCEPT ![k] = NoCall] /\ call \in [Callers -> Calls]
  BY DEF ListReturn, ListFails, NewsInv, ListingInv, Types
<1> DEFINE still == ListReturn(k) /\ owed[k] /\ call[k].reply.objects < announced
<1>3. owed' = [owed EXCEPT ![k] = still]
  <2>1. CASE ListReturn(k)
    BY <2>1 DEF ListReturn, NewsInv, Flags
  <2>2. CASE ListFails(k) /\ ~ListReturn(k)
    BY <2>2 DEF ListFails
  <2> QED
    BY <2>1, <2>2
<1>4. still \in BOOLEAN
  OBVIOUS
<1>5. ASSUME still PROVE owed[k] /\ ~At(k, "list") /\ ~Coming(k)
  <2>1. call[k].pc = "reply" /\ call[k].reply.objects < announced /\ owed[k]
    BY <1>5 DEF ListReturn, At
  <2>2. call[k].reply.objects = call[k].entry.objects /\ call[k].entry.objects \in Nat
    BY <1>2, <2>1 DEF NewsInv, ListingInv, CallRecent, At, Calls, Entries
  <2>3. announced \in Nat
    BY BoundAssumption DEF NewsInv, ListingInv, Types, TypeOK
  <2> QED
    BY <2>1, <2>2, <2>3 DEF At, Coming
<1> HIDE DEF still
<1>6. owed' \in [Callers -> BOOLEAN] /\ owed'[k] = still /\ \A j \in Callers \ {k} : owed'[j] = owed[j]
  BY <1>3, <1>4, Zenon DEF NewsInv, Flags
<1>7. ASSUME NEW j \in Callers PROVE News(j)'
  <2>1. CASE j = k
    BY <1>1, <1>5, <1>6, <2>1 DEF NewsInv, News, OnTheWay, Heard
  <2>2. CASE j # k
    <3>1. Heard(j) => Heard(j)'
      BY <1>1, <1>2, <2>2 DEF Heard, At, Coming
    <3> QED
      BY <1>1, <1>6, <2>2, <3>1 DEF NewsInv, News, OnTheWay
  <2> QED
    BY <2>1, <2>2
<1> QED
  BY <1>1, <1>6, <1>7 DEF NewsInv, Flags

\* Connections: a client that connects is owed nothing yet, one that
\* disconnects nothing any more, and an event makes its callers list again.
LEMMA ConnNews ==
  ASSUME NewsInv, NEW c \in Conns, Connect(c) \/ Disconnect(c) \/ Deliver(c)
  PROVE  (online \subseteq subs /\ Flags /\ \A k \in Callers : News(k))'
<1>1. UNCHANGED <<pending, firing, announced, call>> /\ inbox \in [Conns -> 0..Buffer]
  BY DEF Connect, Disconnect, Deliver, Subscribe, Unsubscribe, Send, storeVars,
     NewsInv, ListingInv, Types, TypeOK, HubTypeOK
<1>2. online \subseteq subs /\ Owner \in [Callers -> Conns]
  BY OwnerAssumption DEF NewsInv
<1>3. \A b \in Conns \ {c} : inbox'[b] = inbox[b]
  BY <1>1 DEF Connect, Disconnect, Deliver, Subscribe, Unsubscribe, Send
<1>4. CASE Connect(c)
  <2>1. c \notin online /\ online' = online \cup {c} /\ subs' = subs \cup {c} /\ UNCHANGED <<due, owed>>
    BY <1>4 DEF Connect, Subscribe
  <2>2. ASSUME NEW k \in Callers PROVE News(k)'
    BY <1>1, <1>2, <1>3, <2>1, HeardKept DEF NewsInv, News, OnTheWay
  <2> QED
    BY <1>2, <2>1, <2>2 DEF NewsInv, Flags
<1>5. CASE Disconnect(c)
  <2>1. /\ online' = online \ {c} /\ subs' = subs \ {c} /\ UNCHANGED due
        /\ owed' = [k \in Callers |-> owed[k] /\ Owner[k] # c]
    BY <1>5 DEF Disconnect, Unsubscribe
  <2>2. owed' \in [Callers -> BOOLEAN]
    BY <2>1, Zenon
  <2>3. \A k \in Callers : owed'[k] => owed[k] /\ Owner[k] # c
    BY <2>1, Zenon
  <2>4. ASSUME NEW k \in Callers PROVE News(k)'
    BY <1>1, <1>2, <1>3, <2>1, <2>3, HeardKept DEF NewsInv, News, OnTheWay
  <2> QED
    BY <1>2, <2>1, <2>2, <2>4 DEF NewsInv, Flags
<1>6. CASE Deliver(c)
  <2>1. /\ UNCHANGED <<online, subs, owed>>
        /\ due' = [k \in Callers |-> due[k] \/ Owner[k] = c]
    BY <1>6 DEF Deliver, Send
  <2>2. due' \in [Callers -> BOOLEAN]
    BY <2>1, Zenon
  <2>3. \A k \in Callers : (due[k] => due'[k]) /\ (Owner[k] = c => due'[k])
    BY <2>1, Zenon
  <2>4. ASSUME NEW k \in Callers PROVE News(k)'
    <3>1. CASE Owner[k] = c
      BY <2>1, <2>3, <3>1 DEF NewsInv, News, Heard
    <3>2. CASE Owner[k] # c
      BY <1>1, <1>2, <1>3, <2>1, <2>3, <3>2, HeardKept DEF NewsInv, News, OnTheWay
    <3> QED
      BY <3>1, <3>2
  <2> QED
    BY <1>2, <2>1, <2>2, <2>4 DEF NewsInv, Flags
<1> QED
  BY <1>4, <1>5, <1>6

LEMMA TickNews ==
  ASSUME NewsInv, NEW k \in Callers, Tick(k)
  PROVE  (online \subseteq subs /\ Flags /\ \A j \in Callers : News(j))'
<1>1. /\ UNCHANGED <<pending, firing, subs, inbox, online, owed, announced, call>>
      /\ due' = [due EXCEPT ![k] = TRUE]
  BY DEF Tick, hubVars, storeVars
<1>2. due' \in [Callers -> BOOLEAN] /\ \A j \in Callers : due[j] => due'[j]
  BY <1>1, Zenon DEF NewsInv, Flags
<1>3. ASSUME NEW j \in Callers PROVE News(j)'
  BY <1>1, <1>2, HeardKept DEF NewsInv, News, OnTheWay
<1> QED
  BY <1>1, <1>2, <1>3 DEF NewsInv, Flags

LEMMA NextNews == NewsInv /\ [Next]_vars => NewsInv'
<1> SUFFICES ASSUME NewsInv, [Next]_vars PROVE NewsInv'
  OBVIOUS
<1>0. ListingInv' /\ TagsExact'
  BY NextListing, NextTags DEF NewsInv
<1> SUFFICES (online \subseteq subs /\ Flags /\ \A k \in Callers : News(k))'
  BY <1>0 DEF NewsInv
<1>1. CASE Write \/ WriteOutside \/ CacheExpires \/ UNCHANGED vars
  <2>1. UNCHANGED <<hubVars, announced, clientVars, call>>
    BY <1>1 DEF Write, WriteOutside, CacheExpires, vars, storeVars
  <2> QED
    BY <2>1, NewsKept
<1>2. ASSUME NEW n \in toPublish, PublishChange(n)
      PROVE  (online \subseteq subs /\ Flags /\ \A k \in Callers : News(k))'
  BY <1>2, PublishNews
<1>3. CASE HubSteps
  BY <1>3, HubNews
<1>4. CASE Restart
  <2>1. online' = {} /\ due' = due /\ owed' = [k \in Callers |-> FALSE]
    BY <1>4 DEF Restart
  <2>2. owed' \in [Callers -> BOOLEAN] /\ \A k \in Callers : ~owed'[k]
    BY <2>1, Zenon
  <2> QED
    BY <2>1, <2>2 DEF NewsInv, News, Flags
<1>5. ASSUME NEW k \in Callers, CallSteps(k) \/ ListFails(k) \/ Tick(k)
      PROVE  (online \subseteq subs /\ Flags /\ \A j \in Callers : News(j))'
  BY <1>5, CallNews, ReturnNews, TickNews DEF CallSteps
<1>6. ASSUME NEW c \in Conns, Connect(c) \/ Disconnect(c) \/ Deliver(c)
      PROVE  (online \subseteq subs /\ Flags /\ \A k \in Callers : News(k))'
  BY <1>6, ConnNews
<1> QED
  BY <1>1, <1>2, <1>3, <1>4, <1>5, <1>6 DEF Next

\* A connected client is never left with an older view for good: however
\* events are collected, dropped by a full channel, or arrive during a listing,
\* there is news on its way or a listing that will show it.
THEOREM NewsArrives == Spec => []NoNewsLost
<1>1. NewsInv => NoNewsLost
  BY DEF NewsInv, News, NoNewsLost, OnTheWay, Heard
<1> QED
  BY <1>1, InitNews, NextNews, PTL DEF Spec

=============================================================================
