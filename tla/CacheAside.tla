----------------------------- MODULE CacheAside -----------------------------
(***************************************************************************)
(* Lists and settings kept in Redis beside the database:                   *)
(* delivery-zones, categories and products with their administration,      *)
(* preferences and store.                                                  *)
(*                                                                         *)
(* Each handler is a sequence of statements on Redis and the database, one *)
(* step each; requests interleave between them, stop after any of them,    *)
(* and Redis may fail.  A table is the number of its writes: what a reader *)
(* makes of it (filters, order, page) is the same for the same number and  *)
(* query.  The families of tables share no key, so a behaviour is about    *)
(* one of them.                                                            *)
(***************************************************************************)
EXTENDS Integers, Sequences, FiniteSets

CONSTANTS
    Requests,
    ShortTTL,     \* 60 seconds: zones, categories, products
    LongTTL,      \* 300 seconds: preferences, store
    MaxFill,      \* bound: seconds from reading a table to filling the keys
    MaxTime,      \* bound of the clock
    MaxWrites,    \* bound of the writes
    None

ASSUME CacheAssumption ==
    /\ {ShortTTL, LongTTL, MaxFill, MaxTime, MaxWrites} \subseteq Nat
    /\ None \notin Nat

Families == {"zones", "catalogue", "preferences", "store"}
Keys == {"delivery-zones", "zonas-entrega", "categories", "categorias",
         "products", "produtos", "preferences", "store"}

VARIABLES
    family,     \* the tables that this behaviour is about
    now,        \* the clock, in seconds
    exists,     \* the row of a singleton is there
    content,    \* the write that the table shows
    cache,      \* Redis: what a key holds, until when
    req,        \* the requests under way
    saved,      \* history: the last write
    ended,      \* history: when a write was superseded
    floor       \* history: the last answered write that deleted the key

vars == <<family, now, exists, content, cache, req, saved, ended, floor>>

-----------------------------------------------------------------------------
(* The handlers.  A Redis statement with try set is in a try block that    *)
(* swallows the error; elsewhere the request fails.                        *)

Op(name) == [op |-> name, key |-> None, ttl |-> 0, try |-> FALSE]
Get(k) == [Op("get") EXCEPT !.key = k]
Fill(k, ttl) == [Op("set") EXCEPT !.key = k, !.ttl = ttl]
Del(k) == [Op("del") EXCEPT !.key = k]
Try(op) == [op EXCEPT !.try = TRUE]

\* delByPattern: KEYS, then DEL of what it listed.  All lists of products
\* that a pattern matches behave alike: one key stands for them.
DelByPattern(k) == <<[Op("keys") EXCEPT !.key = k], [Op("listed") EXCEPT !.key = k]>>

ZonesFindAll ==
    <<Get("delivery-zones"), Op("load"), Fill("delivery-zones", ShortTTL)>>

CategoriesFindAll ==
    <<Get("categories"), Op("load"), Fill("categories", ShortTTL)>>

ProductsFindAll ==
    <<Get("products"), Get("produtos"), Op("load"),
      Fill("products", ShortTTL), Fill("produtos", ShortTTL)>>

GetPreferences ==
    <<Try(Get("preferences")), Op("find"), Op("create"),
      Try(Fill("preferences", LongTTL))>>

GetStore ==
    <<Try(Get("store")), Op("find"), Op("create"), Try(Fill("store", LongTTL))>>

\* Mutant of ZoneWrite: the cache is cleared before the table is written.
ZoneWriteLast == <<Del("delivery-zones"), Del("zonas-entrega"), Op("write")>>

\* create, update and remove of a zone.
ZoneWrite == <<Op("write"), Del("delivery-zones"), Del("zonas-entrega")>>

InvalidateCatalogCache ==
    DelByPattern("products") \o DelByPattern("produtos")
      \o <<Del("categories"), Del("categorias")>>

\* create, update and remove of a product.
ProductWrite == <<Op("write")>> \o InvalidateCatalogCache

\* Checkout and cancellation change the stock and clear nothing.
StockWrite == <<Op("write")>>

UpdatePreferences == <<Op("upsert"), Try(Del("preferences"))>>

UpdateStore == <<Op("upsert"), Try(Del("store"))>>

\* What the routes of the controllers run.
ZoneHandlers == {ZonesFindAll, ZoneWrite}
CatalogueHandlers == {CategoriesFindAll, ProductsFindAll, ProductWrite, StockWrite}
PreferencesHandlers == {GetPreferences, UpdatePreferences}
StoreHandlers == {GetStore, UpdateStore}

Handlers ==
    CASE family = "zones" -> ZoneHandlers
      [] family = "catalogue" -> CatalogueHandlers
      [] family = "preferences" -> PreferencesHandlers
      [] family = "store" -> StoreHandlers

Singletons == {"preferences", "store"}

-----------------------------------------------------------------------------
OpNames == {"get", "load", "find", "create", "set", "write", "upsert", "del",
            "keys", "listed"}
Operation == [op: OpNames, key: Keys \cup {None}, ttl: Nat, try: BOOLEAN]

Entry == [write: Nat, until: Nat, overtaken: BOOLEAN]
NoEntry == [write |-> 0, until |-> 0, overtaken |-> FALSE]

Request ==
    [todo: Seq(Operation),
     read: Nat \cup {None},     \* the write it found in the table
     since: Nat,                \* when it found it
     overtaken: BOOLEAN,        \* history: a write came after that
     wrote: Nat,                \* its own write
     cleared: SUBSET Keys]      \* keys it has deleted

Idle == [todo |-> <<>>, read |-> None, since |-> 0, overtaken |-> FALSE,
         wrote |-> 0, cleared |-> {}]

CacheTypeOK ==
    /\ family \in Families
    /\ now \in 0..MaxTime
    /\ exists \in BOOLEAN /\ (content > 0 => exists)
    /\ content \in 0..MaxWrites
    /\ cache \in [Keys -> Entry]
    /\ req \in [Requests -> Request]
    /\ saved \in 0..MaxWrites
    /\ ended \in [0..MaxWrites -> Nat \cup {None}]
    /\ floor \in [Keys -> 0..MaxWrites]

Init ==
    /\ family \in Families
    /\ now = 0
    /\ exists \in BOOLEAN /\ (family \notin Singletons => exists)
    /\ content = 0
    /\ cache = [k \in Keys |-> NoEntry]
    /\ req = [r \in Requests |-> Idle]
    /\ saved = 0
    /\ ended = [w \in 0..MaxWrites |-> None]
    /\ floor = [k \in Keys |-> 0]

Readable(k) == now < cache[k].until

\* The next statement of a request.
At(r, name) == req[r].todo # <<>> /\ Head(req[r].todo).op = name
Key(r) == Head(req[r].todo).key

\* The statement was the last one, or state has the rest to do.  Once a
\* handler has answered, its write counts for the keys that it deleted.
Done(r, state) ==
    LET rest == Tail(state.todo)
    IN  /\ req' = [req EXCEPT ![r] = IF rest = <<>> THEN Idle
                                     ELSE [state EXCEPT !.todo = rest]]
        /\ floor' = IF rest # <<>> THEN floor
                    ELSE [k \in Keys |-> IF k \in state.cleared /\ floor[k] < state.wrote
                                           THEN state.wrote ELSE floor[k]]

End(r) == req' = [req EXCEPT ![r] = Idle] /\ UNCHANGED floor

Begin(r, handler) ==
    /\ req[r].todo = <<>>
    /\ req' = [req EXCEPT ![r] = [Idle EXCEPT !.todo = handler]]
    /\ UNCHANGED <<family, now, exists, content, cache, saved, ended, floor>>

-----------------------------------------------------------------------------
(* Reading.                                                                *)

\* A hit is the answer.
GetKey(r) ==
    /\ At(r, "get")
    /\ IF Readable(Key(r)) THEN End(r) ELSE Done(r, req[r])
    /\ UNCHANGED <<family, now, exists, content, cache, saved, ended>>

Found(r) == [req[r] EXCEPT !.read = content, !.since = now]

Load(r) ==
    /\ At(r, "load")
    /\ Done(r, Found(r))
    /\ UNCHANGED <<family, now, exists, content, cache, saved, ended>>

\* findUnique of the singleton; the next statement is for a missing row.
Find(r) ==
    /\ At(r, "find")
    /\ Done(r, IF exists THEN [Found(r) EXCEPT !.todo = Tail(@)] ELSE req[r])
    /\ UNCHANGED <<family, now, exists, content, cache, saved, ended>>

\* Mutant of Create: upsert with the defaults.
CreateOrReset(r) ==
    /\ At(r, "create")
    /\ exists' = TRUE
    /\ content' = 0
    /\ Done(r, [req[r] EXCEPT !.read = 0, !.since = now])
    /\ UNCHANGED <<family, now, cache, saved, ended>>

\* The row with the defaults; the second of two creations throws.
Create(r) ==
    /\ At(r, "create")
    /\ exists' = TRUE
    /\ IF exists THEN End(r) ELSE Done(r, Found(r))
    /\ UNCHANGED <<family, now, content, cache, saved, ended>>

\* Mutant of SetKey: redis.set without a lifetime.
SetKeyForever(r) ==
    /\ At(r, "set")
    /\ cache' = [cache EXCEPT ![Key(r)] =
                   [write |-> req[r].read, until |-> MaxTime + 1,
                    overtaken |-> req[r].overtaken]]
    /\ Done(r, req[r])
    /\ UNCHANGED <<family, now, exists, content, saved, ended>>

SetKey(r) ==
    /\ At(r, "set")
    /\ cache' = [cache EXCEPT ![Key(r)] =
                   [write |-> req[r].read, until |-> now + Head(req[r].todo).ttl,
                    overtaken |-> req[r].overtaken]]
    /\ Done(r, req[r])
    /\ UNCHANGED <<family, now, exists, content, saved, ended>>

-----------------------------------------------------------------------------
(* Writing.                                                                *)

\* What the statement leaves in the table, and what it makes out of date.
Record(r) ==
    LET n == saved + 1
        others == [s \in Requests |->
                     IF req[s].read = None THEN req[s]
                                           ELSE [req[s] EXCEPT !.overtaken = TRUE]]
        rest == Tail(req[r].todo)
    IN  /\ n <= MaxWrites
        /\ content' = n
        /\ saved' = n
        /\ ended' = [ended EXCEPT ![saved] = now]
        /\ req' = [others EXCEPT ![r] = IF rest = <<>> THEN Idle
                                        ELSE [req[r] EXCEPT !.todo = rest, !.wrote = n]]
        /\ floor' = [k \in Keys |-> IF rest = <<>> /\ k \in req[r].cleared THEN n
                                    ELSE floor[k]]
        /\ UNCHANGED <<family, now, cache>>

Write(r) ==
    /\ At(r, "write")
    /\ Record(r)
    /\ UNCHANGED exists

\* Mutant of Upsert: update, which finds no row to change.
UpdateOnly(r) ==
    /\ At(r, "upsert")
    /\ Record(r)
    /\ UNCHANGED exists

Upsert(r) ==
    /\ At(r, "upsert")
    /\ Record(r)
    /\ exists' = TRUE

DelKey(r) ==
    /\ \/ At(r, "del")
       \/ At(r, "listed")
    /\ cache' = [cache EXCEPT ![Key(r)] = NoEntry]
    /\ Done(r, [req[r] EXCEPT !.cleared = @ \cup {Key(r)}])
    /\ UNCHANGED <<family, now, exists, content, saved, ended>>

\* KEYS: with nothing listed there is no DEL.
ListKeys(r) ==
    /\ At(r, "keys")
    /\ Done(r, IF Readable(Key(r)) THEN req[r]
               ELSE [req[r] EXCEPT !.cleared = @ \cup {Key(r)}, !.todo = Tail(@)])
    /\ UNCHANGED <<family, now, exists, content, cache, saved, ended>>

-----------------------------------------------------------------------------
(* Failures and time.                                                      *)

\* Redis does not answer: swallowed in the try blocks.
RedisFails(r) ==
    /\ req[r].todo # <<>>
    /\ Head(req[r].todo).try
    /\ Done(r, req[r])
    /\ UNCHANGED <<family, now, exists, content, cache, saved, ended>>

\* The request stops here: any other error, or a restart.
Die(r) ==
    /\ req[r].todo # <<>>
    /\ End(r)
    /\ UNCHANGED <<family, now, exists, content, cache, saved, ended>>

\* Redis forgets: eviction, restart.
Evict(k) ==
    /\ Readable(k)
    /\ cache' = [cache EXCEPT ![k] = NoEntry]
    /\ UNCHANGED <<family, now, exists, content, req, saved, ended, floor>>

Tick ==
    /\ now < MaxTime
    /\ \A r \in Requests : req[r].read # None => now < req[r].since + MaxFill
    /\ now' = now + 1
    /\ UNCHANGED <<family, exists, content, cache, req, saved, ended, floor>>

-----------------------------------------------------------------------------
Next ==
    \/ \E r \in Requests :
          \/ \E handler \in Handlers : Begin(r, handler)
          \/ GetKey(r) \/ Load(r) \/ Find(r) \/ Create(r) \/ SetKey(r)
          \/ Write(r) \/ Upsert(r) \/ DelKey(r) \/ ListKeys(r)
          \/ RedisFails(r) \/ Die(r)
    \/ \E k \in Keys : Evict(k)
    \/ Tick

Spec == Init /\ [][Next]_vars

-----------------------------------------------------------------------------
(* Properties that hold.                                                   *)

\* When a write has been answered, the keys that its handler deleted show it
\* or a later one to everybody, unless the entry is of a reader who had read
\* the table before the write and was overtaken: no other order of reads,
\* fills, writes and deletions brings an old state back
\* (admin-delivery-zones.service.ts:43-44, products-admin.service.ts:19-24,
\* admin-preferences.service.ts:87-106, admin-store.service.ts:73-88).
WritesShow ==
    \A k \in Keys :
        Readable(k) /\ cache[k].write < floor[k] => cache[k].overtaken

\* However readers, writers and failures of Redis interleave, what a key
\* shows was in the table at most one lifetime and one fill ago, also when
\* its deletion was overtaken, failed or never ran, and for the stock, whose
\* writers delete nothing (delivery-zones.service.ts:73, products.service.ts:133-135).
BoundedStaleness ==
    \A k \in Keys :
        LET w == cache[k].write
            ttl == IF family \in Singletons THEN LongTTL ELSE ShortTTL
        IN  Readable(k) /\ ended[w] # None => now < ended[w] + ttl + MaxFill

\* The defaults that a reader creates never replace what an administrator
\* saved meanwhile (admin-preferences.service.ts:37-53, 87-102).
SavedStays == exists => content = saved
=============================================================================
