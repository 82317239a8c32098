---------------------------- MODULE CacheProofs -----------------------------
(* Theorems about CacheAside.tla, for any number of requests, lifetimes    *)
(* and bounds.                                                             *)
EXTENDS CacheAside, SequenceTheorems, TLAPS

-----------------------------------------------------------------------------
(* The inductive invariant.  First the shape of what a request has left to *)
(* do, then what it knows, and what the keys show.                         *)

Lifetime(fam) == IF fam \in Singletons THEN LongTTL ELSE ShortTTL

ReaderOps(fam) ==
    {op \in Operation :
        /\ op.op \in {"get", "load", "find", "create", "set"}
        /\ op.ttl <= Lifetime(fam)
        /\ op.op \in {"get", "set"} => op.key \in Keys
        /\ op.try => op.op \in {"get", "set"}}

WriterOps(fam) ==
    {op \in Operation :
        /\ op.op \in {"write", "upsert", "del", "keys", "listed"}
        /\ op.op \in {"del", "keys", "listed"} => op.key \in Keys
        /\ op.op = "write" => fam \notin Singletons
        /\ op.try => op.op = "del"}

\* A reader reads the table before it fills keys.
Reads(q, fam) ==
    /\ q.todo \in Seq(ReaderOps(fam))
    /\ \A i \in 1..Len(q.todo) :
         q.todo[i].op = "set" /\ q.read = None =>
           \E j \in 1..(i - 1) : q.todo[j].op \in {"load", "create"}
    /\ \A i \in 1..Len(q.todo) : q.todo[i].op = "find" => i < Len(q.todo)
    /\ q.cleared = {} /\ q.wrote = 0

\* A writer writes the table before it deletes keys.
Writes(q, fam) ==
    /\ q.todo \in Seq(WriterOps(fam))
    /\ \A i \in 1..Len(q.todo) :
         q.todo[i].op \in {"write", "upsert"} => i = 1 /\ q.cleared = {}
    /\ \A i \in 1..Len(q.todo) : q.todo[i].op = "keys" => i < Len(q.todo)
    /\ q.read = None

Shaped(q, fam) == Reads(q, fam) \/ Writes(q, fam)

\* n: the clock; sv: the last write; en: ends of writes; ch: Redis.
Knows(q, n, sv, en, ch) ==
    /\ q.read # None =>
         /\ q.read <= sv
         /\ q.since <= n /\ n <= q.since + MaxFill
         /\ en[q.read] # None => q.since <= en[q.read]
         /\ ~q.overtaken => q.read = sv
    /\ q.wrote <= sv
    /\ \A k \in q.cleared :
         n < ch[k].until => ch[k].write >= q.wrote \/ ch[k].overtaken

Tables ==
    /\ family \in Families
    /\ now \in 0..MaxTime
    /\ exists \in BOOLEAN
    /\ content > 0 \/ family \notin Singletons => exists
    /\ content = saved /\ saved \in 0..MaxWrites
    /\ cache \in [Keys -> Entry]
    /\ ended \in [0..MaxWrites -> Nat \cup {None}]
    /\ floor \in [Keys -> 0..MaxWrites]
    /\ \A w \in 0..MaxWrites : w >= saved => ended[w] = None

\* What a key holds was in the table not long before it ends.
InTime(e) ==
    /\ e.write <= saved
    /\ e.until <= (IF ended[e.write] # None THEN ended[e.write] ELSE now)
                    + Lifetime(family) + MaxFill

Entries == \A k \in Keys : InTime(cache[k])

Floors == \A k \in Keys : floor[k] <= saved

AllFit ==
    /\ req \in [Requests -> Request]
    /\ \A r \in Requests : Shaped(req[r], family)
                           /\ Knows(req[r], now, saved, ended, cache)

Inv == Tables /\ Entries /\ Floors /\ WritesShow /\ AllFit

LEMMA Numbers ==
  /\ ShortTTL \in Nat /\ LongTTL \in Nat /\ MaxFill \in Nat
  /\ MaxTime \in Nat /\ MaxWrites \in Nat
  /\ \A fam : Lifetime(fam) \in Nat
  BY CacheAssumption DEF Lifetime

LEMMA EntryTyped ==
  ASSUME Inv, NEW k \in Keys
  PROVE  cache[k].write \in Nat /\ cache[k].until \in Nat /\ cache[k].overtaken \in BOOLEAN
         /\ floor[k] \in Nat /\ now \in Nat /\ saved \in Nat
  BY Numbers DEF Inv, Tables, Entry

LEMMA IdleFits ==
  /\ Idle \in Request /\ Idle.todo = <<>>
  /\ \A fam : Shaped(Idle, fam)
  /\ \A n, en, ch : \A sv \in Nat : Knows(Idle, n, sv, en, ch)
<1>1. <<>> \in Seq(Operation) /\ \A fam : <<>> \in Seq(ReaderOps(fam))
  OBVIOUS
<1>2. Idle \in Request
  BY <1>1, CacheAssumption DEF Idle, Request
<1>3. Len(<<>>) = 0
  OBVIOUS
<1> QED  BY <1>1, <1>2, <1>3 DEF Idle, Shaped, Reads, Knows

LEMMA InitInv == Init => Inv
<1> SUFFICES ASSUME Init PROVE Inv
  OBVIOUS
<1>1. NoEntry \in Entry /\ NoEntry.until = 0 /\ NoEntry.write = 0
  BY DEF NoEntry, Entry
<1>2. Tables
  BY <1>1, Numbers DEF Init, Tables
<1>3. Entries
  BY <1>1, Numbers DEF Init, Entries, InTime
<1>4. Floors /\ WritesShow
  BY <1>1, Numbers DEF Init, Floors, WritesShow, Readable
<1>5. AllFit
  BY IdleFits DEF Init, AllFit
<1> QED  BY <1>2, <1>3, <1>4, <1>5 DEF Inv

-----------------------------------------------------------------------------
(* Shapes.                                                                 *)

LEMMA TailReads ==
  ASSUME NEW q \in Request, NEW fam, Reads(q, fam), q.todo # <<>>, NEW d \in Request,
         d.todo = Tail(q.todo), d.cleared = q.cleared, d.wrote = q.wrote,
         \/ d.read # None
         \/ d.read = q.read /\ Head(q.todo).op \notin {"load", "create"}
  PROVE  Reads(d, fam)
<1>1. /\ Tail(q.todo) \in Seq(ReaderOps(fam))
      /\ Len(Tail(q.todo)) = Len(q.todo) - 1 /\ Len(q.todo) \in Nat
      /\ \A i \in 1..Len(Tail(q.todo)) : Tail(q.todo)[i] = q.todo[i + 1]
      /\ Head(q.todo) = q.todo[1]
  BY HeadTailProperties DEF Reads
<1>2. ASSUME NEW i \in 1..Len(d.todo), d.todo[i].op = "set", d.read = None
      PROVE  \E j \in 1..(i - 1) : d.todo[j].op \in {"load", "create"}
  <2>1. i + 1 \in 1..Len(q.todo) /\ q.todo[i + 1].op = "set" /\ q.read = None
    BY <1>1, <1>2
  <2>2. PICK j \in 1..i : q.todo[j].op \in {"load", "create"}
    BY <2>1 DEF Reads
  <2>3. j # 1
    BY <1>1, <1>2, <2>2
  <2>4. j - 1 \in 1..(i - 1) /\ d.todo[j - 1] = q.todo[j]
    BY <1>1, <1>2, <2>2, <2>3
  <2> QED  BY <2>2, <2>4
<1>3. ASSUME NEW i \in 1..Len(d.todo), d.todo[i].op = "find"
      PROVE  i < Len(d.todo)
  BY <1>1, <1>3 DEF Reads
<1> QED  BY <1>1, <1>2, <1>3 DEF Reads

LEMMA TailWrites ==
  ASSUME NEW q \in Request, NEW fam, Writes(q, fam), q.todo # <<>>, NEW d \in Request,
         d.todo = Tail(q.todo), d.read = None
  PROVE  /\ Writes(d, fam)
         /\ \A i \in 1..Len(d.todo) : d.todo[i].op \notin {"write", "upsert"}
<1>1. /\ Tail(q.todo) \in Seq(WriterOps(fam))
      /\ Len(Tail(q.todo)) = Len(q.todo) - 1 /\ Len(q.todo) \in Nat
      /\ \A i \in 1..Len(Tail(q.todo)) : Tail(q.todo)[i] = q.todo[i + 1]
  BY HeadTailProperties DEF Writes
<1>2. \A i \in 1..Len(d.todo) : d.todo[i].op \notin {"write", "upsert"}
  BY <1>1 DEF Writes
<1>3. \A i \in 1..Len(d.todo) : d.todo[i].op = "keys" => i < Len(d.todo)
  BY <1>1 DEF Writes
<1> QED  BY <1>1, <1>2, <1>3 DEF Writes

\* The next statement of a reader, and of a writer.
LEMMA NextRead ==
  ASSUME NEW q \in Request, NEW fam, Reads(q, fam), q.todo # <<>>
  PROVE  /\ Head(q.todo) \in ReaderOps(fam) /\ Tail(q.todo) \in Seq(Operation)
         /\ Head(q.todo).op = "set" => q.read # None
         /\ Head(q.todo).op = "find" => Tail(q.todo) # <<>>
<1>1. /\ Head(q.todo) \in ReaderOps(fam)
      /\ Len(Tail(q.todo)) = Len(q.todo) - 1 /\ Len(q.todo) \in Nat
      /\ Head(q.todo) = q.todo[1] /\ Len(q.todo) >= 1
  BY HeadTailProperties, EmptySeq DEF Reads
<1>2. q.todo \in Seq(Operation)
  BY DEF Request
<1>3. Tail(q.todo) \in Seq(Operation)
  BY <1>2, HeadTailProperties
<1>4. 1 \in 1..Len(q.todo) /\ 1..(1 - 1) = {}
  BY <1>1
<1>5. Head(q.todo).op = "set" => q.read # None
  BY <1>1, <1>4 DEF Reads
<1>6. Head(q.todo).op = "find" => Len(Tail(q.todo)) # Len(<<>>)
  BY <1>1, <1>4 DEF Reads
<1> QED  BY <1>1, <1>3, <1>5, <1>6

LEMMA NextWrite ==
  ASSUME NEW q \in Request, NEW fam, Writes(q, fam), q.todo # <<>>
  PROVE  /\ Head(q.todo) \in WriterOps(fam) /\ Tail(q.todo) \in Seq(Operation)
         /\ Head(q.todo).op \in {"write", "upsert"} => q.cleared = {}
         /\ Head(q.todo).op = "keys" => Tail(q.todo) # <<>>
<1>1. /\ Head(q.todo) \in WriterOps(fam)
      /\ Len(Tail(q.todo)) = Len(q.todo) - 1 /\ Len(q.todo) \in Nat
      /\ Head(q.todo) = q.todo[1] /\ Len(q.todo) >= 1
  BY HeadTailProperties, EmptySeq DEF Writes
<1>2. q.todo \in Seq(Operation)
  BY DEF Request
<1>3. Tail(q.todo) \in Seq(Operation)
  BY <1>2, HeadTailProperties
<1>4. 1 \in 1..Len(q.todo)
  BY <1>1
<1>5. Head(q.todo).op \in {"write", "upsert"} => q.cleared = {}
  BY <1>1, <1>4 DEF Writes
<1>6. Head(q.todo).op = "keys" => Len(Tail(q.todo)) # Len(<<>>)
  BY <1>1, <1>4 DEF Writes
<1> QED  BY <1>1, <1>3, <1>5, <1>6

-----------------------------------------------------------------------------
(* Steps of one request.                                                   *)

\* Redis holds for a key what it held, or an entry that is of an overtaken
\* reader or shows the last write, or nothing.
Refilled(ch) ==
    /\ ch \in [Keys -> Entry]
    /\ \A k \in Keys : InTime(ch[k])
    /\ \A k \in Keys : now < ch[k].until =>
         ch[k] = cache[k] \/ ch[k].overtaken \/ ch[k].write = saved

LEMMA SameCache ==
  ASSUME Inv
  PROVE  Refilled(cache)
  BY DEF Refilled, Inv, Tables, Entries

LEMMA KnowsRefilled ==
  ASSUME Inv, NEW ch, Refilled(ch), NEW q \in Request,
         Knows(q, now, saved, ended, cache)
  PROVE  Knows(q, now, saved, ended, ch)
  BY DEF Knows, Refilled, Request

\* A step of one request to state d; q is d, or what d was when the last
\* statement of its handler ran.
LEMMA StepInv ==
  ASSUME Inv, NEW r \in Requests, NEW d \in Request, NEW q \in Request,
         req' = [req EXCEPT ![r] = d],
         Shaped(d, family), Knows(d, now, saved, ended, cache'),
         Knows(q, now, saved, ended, cache'),
         floor' \in {floor,
                     [k \in Keys |-> IF k \in q.cleared /\ floor[k] < q.wrote
                                       THEN q.wrote ELSE floor[k]]},
         Refilled(cache'), exists' \in {exists, TRUE},
         UNCHANGED <<family, now, content, saved, ended>>
  PROVE  Inv'
<1>1. q.wrote \in Nat /\ q.wrote <= saved /\ saved \in 0..MaxWrites
  BY DEF Knows, Request, Inv, Tables
<1>2. /\ floor' \in [Keys -> 0..MaxWrites]
      /\ \A k \in Keys : floor'[k] <= saved
  <2> DEFINE w == q.wrote
             C == q.cleared
  <2>1. /\ floor \in [Keys -> 0..MaxWrites]
        /\ \A k \in Keys : floor[k] <= saved
        /\ w \in 0..MaxWrites
    BY <1>1, Numbers DEF Inv, Tables, Floors
  <2>2. CASE floor' = [k \in Keys |-> IF k \in C /\ floor[k] < w THEN w ELSE floor[k]]
    <3> HIDE DEF w, C
    <3>1. \A k \in Keys : floor'[k] \in {floor[k], w}
      BY <2>2
    <3>2. floor' \in [Keys -> 0..MaxWrites]
      BY <2>1, <2>2
    <3>3. w <= saved
      BY <1>1 DEF w
    <3> QED  BY <2>1, <3>1, <3>2, <3>3
  <2> QED  BY <2>1, <2>2
<1>3. WritesShow'
  <2> SUFFICES ASSUME NEW k \in Keys, now < cache'[k].until, cache'[k].write < floor'[k]
               PROVE  cache'[k].overtaken
    BY DEF WritesShow, Readable
  <2>1. /\ cache'[k].write \in Nat /\ floor'[k] \in Nat /\ saved \in Nat
        /\ floor'[k] <= saved /\ floor[k] \in Nat
    BY <1>1, <1>2, Numbers DEF Refilled, Entry, Inv, Tables
  <2>2. CASE cache'[k].write = saved
    BY <2>1, <2>2
  <2>3. CASE cache'[k] = cache[k]
    <3>1. CASE floor'[k] = floor[k]
      BY <2>3, <3>1 DEF Inv, WritesShow, Readable
    <3>2. CASE k \in q.cleared /\ floor'[k] = q.wrote
      BY <1>1, <2>1, <3>2 DEF Knows
    <3> QED  BY <3>1, <3>2
  <2> QED  BY <2>2, <2>3 DEF Refilled
<1>4. AllFit'
  <2>1. req' \in [Requests -> Request]
    BY DEF Inv, AllFit
  <2>2. ASSUME NEW x \in Requests
        PROVE  Shaped(req'[x], family) /\ Knows(req'[x], now, saved, ended, cache')
    <3>1. CASE x = r
      BY <3>1 DEF Inv, AllFit
    <3>2. CASE x # r
      BY <3>2, KnowsRefilled DEF Inv, AllFit
    <3> QED  BY <3>1, <3>2
  <2> QED  BY <2>1, <2>2 DEF AllFit
<1>5. Entries'
  BY DEF Entries, Refilled, InTime
<1>6. Tables'
  BY <1>2 DEF Tables, Inv, Refilled
<1>7. Floors'
  BY <1>2 DEF Floors
<1> QED  BY <1>3, <1>4, <1>5, <1>6, <1>7 DEF Inv

LEMMA IdleKnows ==
  ASSUME Inv, NEW ch
  PROVE  Knows(Idle, now, saved, ended, ch)
  BY IdleFits, Numbers DEF Inv, Tables

LEMMA EndInv ==
  ASSUME Inv, NEW r \in Requests, End(r), exists' \in {exists, TRUE},
         UNCHANGED <<family, now, content, cache, saved, ended>>
  PROVE  Inv'
<1>1. req' = [req EXCEPT ![r] = Idle] /\ floor' = floor
  BY DEF End
<1>2. Refilled(cache') /\ Knows(Idle, now, saved, ended, cache')
  BY SameCache, IdleKnows
<1> QED  BY <1>1, <1>2, IdleFits, StepInv

\* The statement is done; state has the same to do from here.
LEMMA DoneInv ==
  ASSUME Inv, NEW r \in Requests, NEW q \in Request, Done(r, q),
         NEW d \in Request, d = [q EXCEPT !.todo = Tail(q.todo)],
         Shaped(d, family), Knows(d, now, saved, ended, cache'),
         Refilled(cache'), exists' \in {exists, TRUE},
         UNCHANGED <<family, now, content, saved, ended>>
  PROVE  Inv'
<1>1. d.cleared = q.cleared /\ d.wrote = q.wrote /\ d.todo = Tail(q.todo)
  BY DEF Request
<1>2. /\ req' = [req EXCEPT ![r] = IF d.todo = <<>> THEN Idle ELSE d]
      /\ floor' \in {floor,
                     [k \in Keys |-> IF k \in d.cleared /\ floor[k] < d.wrote
                                       THEN d.wrote ELSE floor[k]]}
  BY <1>1 DEF Done
<1>3. CASE d.todo = <<>>
  <2>1. Knows(Idle, now, saved, ended, cache')
    BY IdleKnows
  <2> QED  BY <1>2, <1>3, <2>1, IdleFits, StepInv
<1>4. CASE d.todo # <<>>
  BY <1>2, <1>4, StepInv
<1> QED  BY <1>3, <1>4

LEMMA Fitting ==
  ASSUME Inv, NEW r \in Requests
  PROVE  /\ req[r] \in Request /\ Shaped(req[r], family)
         /\ Knows(req[r], now, saved, ended, cache)
  BY DEF Inv, AllFit

\* A statement that neither reads the table nor changes what is known: the
\* rest is left to do.
LEMMA SkipInv ==
  ASSUME Inv, NEW r \in Requests, req[r].todo # <<>>, Done(r, req[r]),
         Head(req[r].todo).op \notin {"load", "create", "write", "upsert"},
         Refilled(cache'), exists' \in {exists, TRUE},
         UNCHANGED <<family, now, content, saved, ended>>
  PROVE  Inv'
<1> DEFINE q == req[r]
           d == [q EXCEPT !.todo = Tail(q.todo)]
<1>1. q \in Request /\ Shaped(q, family) /\ Knows(q, now, saved, ended, cache')
  BY Fitting, KnowsRefilled
<1>2. Tail(q.todo) \in Seq(Operation)
  BY <1>1, NextRead, NextWrite DEF Shaped
<1>3. /\ d \in Request /\ d.todo = Tail(q.todo) /\ d.cleared = q.cleared
      /\ d.wrote = q.wrote /\ d.read = q.read /\ d.since = q.since
      /\ d.overtaken = q.overtaken
  BY <1>1, <1>2 DEF Request
<1>4. d = [q EXCEPT !.todo = Tail(q.todo)]
  OBVIOUS
<1>5. q.todo # <<>> /\ Head(q.todo).op \notin {"load", "create", "write", "upsert"}
      /\ Done(r, q)
  OBVIOUS
<1> HIDE DEF q, d
<1>6. Shaped(d, family)
  <2>1. CASE Reads(q, family)
    BY <1>1, <1>3, <1>5, <2>1, TailReads DEF Shaped
  <2>2. CASE Writes(q, family)
    <3>1. d.read = None
      BY <1>3, <2>2 DEF Writes
    <3> QED  BY <1>1, <1>3, <1>5, <2>2, <3>1, TailWrites DEF Shaped
  <2> QED  BY <1>1, <2>1, <2>2 DEF Shaped
<1>7. Knows(d, now, saved, ended, cache')
  BY <1>1, <1>3 DEF Knows
<1> QED  BY <1>1, <1>3, <1>4, <1>5, <1>6, <1>7, DoneInv

-----------------------------------------------------------------------------
(* The handlers have the shapes that readers and writers should have.      *)

ReadShape(todo, fam) ==
    /\ todo \in Seq(ReaderOps(fam))
    /\ \A i \in 1..Len(todo) :
         todo[i].op = "set" => \E j \in 1..(i - 1) : todo[j].op \in {"load", "create"}
    /\ \A i \in 1..Len(todo) : todo[i].op = "find" => i < Len(todo)

WriteShape(todo, fam) ==
    /\ todo \in Seq(WriterOps(fam))
    /\ \A i \in 1..Len(todo) : todo[i].op \in {"write", "upsert"} => i = 1
    /\ \A i \in 1..Len(todo) : todo[i].op = "keys" => i < Len(todo)

LEMMA OpTyped ==
  ASSUME NEW n \in OpNames
  PROVE  Op(n) \in Operation /\ Op(n).op = n /\ ~Op(n).try /\ Op(n).ttl = 0
  BY DEF Op, Operation

LEMMA TryTyped ==
  ASSUME NEW o \in Operation
  PROVE  /\ Try(o) \in Operation /\ Try(o).op = o.op
         /\ Try(o).key = o.key /\ Try(o).ttl = o.ttl
  BY DEF Try, Operation

LEMMA GetTyped ==
  ASSUME NEW k \in Keys
  PROVE  Get(k) \in Operation /\ Get(k).op = "get" /\ Get(k).key = k /\ Get(k).ttl = 0
  BY DEF Get, Op, Operation, OpNames

LEMMA FillTyped ==
  ASSUME NEW k \in Keys, NEW ttl \in Nat
  PROVE  /\ Fill(k, ttl) \in Operation /\ Fill(k, ttl).op = "set"
         /\ Fill(k, ttl).key = k /\ Fill(k, ttl).ttl = ttl
  BY DEF Fill, Op, Operation, OpNames

LEMMA DelTyped ==
  ASSUME NEW k \in Keys
  PROVE  Del(k) \in Operation /\ Del(k).op = "del" /\ Del(k).key = k
  BY DEF Del, Op, Operation, OpNames

LEMMA ReaderStatements ==
  ASSUME NEW fam, NEW k \in Keys, NEW ttl \in Nat, ttl <= Lifetime(fam)
  PROVE  /\ Get(k) \in ReaderOps(fam) /\ Get(k).op = "get"
         /\ Try(Get(k)) \in ReaderOps(fam) /\ Try(Get(k)).op = "get"
         /\ Fill(k, ttl) \in ReaderOps(fam) /\ Fill(k, ttl).op = "set"
         /\ Try(Fill(k, ttl)) \in ReaderOps(fam) /\ Try(Fill(k, ttl)).op = "set"
         /\ Op("load") \in ReaderOps(fam) /\ Op("load").op = "load"
         /\ Op("find") \in ReaderOps(fam) /\ Op("find").op = "find"
         /\ Op("create") \in ReaderOps(fam) /\ Op("create").op = "create"
<1>1. 0 <= Lifetime(fam)
  BY Numbers
<1>2. \A o \in Operation :
        o.op \in {"get", "set"} /\ o.ttl <= Lifetime(fam) /\ o.key = k => o \in ReaderOps(fam)
  BY DEF ReaderOps
<1>3. \A n \in {"load", "find", "create"} : Op(n) \in ReaderOps(fam) /\ Op(n).op = n
  BY <1>1, OpTyped DEF ReaderOps, OpNames
<1>4. /\ Get(k) \in ReaderOps(fam) /\ Get(k).op = "get"
      /\ Try(Get(k)) \in ReaderOps(fam) /\ Try(Get(k)).op = "get"
  BY <1>1, <1>2, GetTyped, TryTyped
<1>5. /\ Fill(k, ttl) \in ReaderOps(fam) /\ Fill(k, ttl).op = "set"
      /\ Try(Fill(k, ttl)) \in ReaderOps(fam) /\ Try(Fill(k, ttl)).op = "set"
  BY <1>2, FillTyped, TryTyped
<1> QED  BY <1>3, <1>4, <1>5

LEMMA WriterStatements ==
  ASSUME NEW fam, NEW k \in Keys
  PROVE  /\ Del(k) \in WriterOps(fam) /\ Del(k).op = "del"
         /\ Try(Del(k)) \in WriterOps(fam) /\ Try(Del(k)).op = "del"
         /\ Op("upsert") \in WriterOps(fam) /\ Op("upsert").op = "upsert"
         /\ fam \notin Singletons => Op("write") \in WriterOps(fam)
         /\ Op("write").op = "write"
         /\ DelByPattern(k) \in Seq(WriterOps(fam)) /\ Len(DelByPattern(k)) = 2
         /\ DelByPattern(k)[1].op = "keys" /\ DelByPattern(k)[2].op = "listed"
<1>1. /\ Del(k) \in WriterOps(fam) /\ Del(k).op = "del"
      /\ Try(Del(k)) \in WriterOps(fam) /\ Try(Del(k)).op = "del"
  BY DelTyped, TryTyped DEF WriterOps
<1>2. /\ Op("upsert") \in WriterOps(fam) /\ Op("upsert").op = "upsert"
      /\ fam \notin Singletons => Op("write") \in WriterOps(fam)
      /\ Op("write").op = "write"
  BY OpTyped DEF WriterOps, OpNames
<1> DEFINE a == [Op("keys") EXCEPT !.key = k]
           b == [Op("listed") EXCEPT !.key = k]
<1>3. /\ a \in Operation /\ a.op = "keys" /\ a.key = k /\ ~a.try
      /\ b \in Operation /\ b.op = "listed" /\ b.key = k /\ ~b.try
  BY DEF Op, Operation, OpNames
<1>4. DelByPattern(k) = <<a, b>>
  BY DEF DelByPattern
<1> HIDE DEF a, b
<1>5. a \in WriterOps(fam) /\ b \in WriterOps(fam)
  BY <1>3 DEF WriterOps
<1>6. /\ DelByPattern(k) \in Seq(WriterOps(fam)) /\ Len(DelByPattern(k)) = 2
      /\ DelByPattern(k)[1].op = "keys" /\ DelByPattern(k)[2].op = "listed"
  BY <1>3, <1>4, <1>5
<1> QED  BY <1>1, <1>2, <1>6

\* Sequences of three, four and five statements of a reader.
LEMMA ShortReaders ==
  ASSUME NEW fam, NEW a \in ReaderOps(fam), NEW b \in ReaderOps(fam),
         NEW c \in ReaderOps(fam), NEW d \in ReaderOps(fam), NEW e \in ReaderOps(fam)
  PROVE  /\ a.op = "get" /\ b.op = "load" /\ c.op = "set" => ReadShape(<<a, b, c>>, fam)
         /\ a.op = "get" /\ b.op = "find" /\ c.op = "create" /\ d.op = "set"
              => ReadShape(<<a, b, c, d>>, fam)
         /\ a.op = "get" /\ b.op = "get" /\ c.op = "load" /\ d.op = "set" /\ e.op = "set"
              => ReadShape(<<a, b, c, d, e>>, fam)
<1>1. ASSUME a.op = "get", b.op = "load", c.op = "set"
      PROVE  ReadShape(<<a, b, c>>, fam)
  <2> DEFINE t == <<a, b, c>>
  <2>1. t \in Seq(ReaderOps(fam)) /\ Len(t) = 3 /\ t[1] = a /\ t[2] = b /\ t[3] = c
    OBVIOUS
  <2> HIDE DEF t
  <2>2. \A i \in 1..Len(t) : t[i].op = "set" => i = 3
    BY <1>1, <2>1
  <2>3. 2 \in 1..(3 - 1) /\ t[2].op = "load"
    BY <1>1, <2>1
  <2>4. \A i \in 1..Len(t) : t[i].op # "find"
    BY <1>1, <2>1
  <2> QED  BY <2>1, <2>2, <2>3, <2>4 DEF ReadShape, t
<1>2. ASSUME a.op = "get", b.op = "find", c.op = "create", d.op = "set"
      PROVE  ReadShape(<<a, b, c, d>>, fam)
  <2> DEFINE t == <<a, b, c, d>>
  <2>1. t \in Seq(ReaderOps(fam)) /\ Len(t) = 4 /\ t[1] = a /\ t[2] = b /\ t[3] = c
        /\ t[4] = d
    OBVIOUS
  <2> HIDE DEF t
  <2>2. \A i \in 1..Len(t) : t[i].op = "set" => i = 4
    BY <1>2, <2>1
  <2>3. 3 \in 1..(4 - 1) /\ t[3].op = "create"
    BY <1>2, <2>1
  <2>4. \A i \in 1..Len(t) : t[i].op = "find" => i = 2
    BY <1>2, <2>1
  <2> QED  BY <2>1, <2>2, <2>3, <2>4 DEF ReadShape, t
<1>3. ASSUME a.op = "get", b.op = "get", c.op = "load", d.op = "set", e.op = "set"
      PROVE  ReadShape(<<a, b, c, d, e>>, fam)
  <2> DEFINE t == <<a, b, c, d, e>>
  <2>1. t \in Seq(ReaderOps(fam)) /\ Len(t) = 5 /\ t[1] = a /\ t[2] = b /\ t[3] = c
        /\ t[4] = d /\ t[5] = e
    OBVIOUS
  <2> HIDE DEF t
  <2>2. \A i \in 1..Len(t) : t[i].op = "set" => i \in {4, 5}
    BY <1>3, <2>1
  <2>3. \A i \in {4, 5} : 3 \in 1..(i - 1) /\ t[3].op = "load"
    BY <1>3, <2>1
  <2>4. \A i \in 1..Len(t) : t[i].op # "find"
    BY <1>3, <2>1
  <2> QED  BY <2>1, <2>2, <2>3, <2>4 DEF ReadShape, t
<1> QED  BY <1>1, <1>2, <1>3

LEMMA ReaderHandlers ==
  ASSUME NEW fam
  PROVE  /\ fam \notin Singletons =>
              /\ ReadShape(ZonesFindAll, fam)
              /\ ReadShape(CategoriesFindAll, fam)
              /\ ReadShape(ProductsFindAll, fam)
         /\ fam \in Singletons =>
              ReadShape(GetPreferences, fam) /\ ReadShape(GetStore, fam)
<1>1. /\ fam \notin Singletons => ShortTTL <= Lifetime(fam)
      /\ fam \in Singletons => LongTTL <= Lifetime(fam)
  BY Numbers DEF Lifetime
<1>2. /\ {"delivery-zones", "categories", "products", "produtos"} \subseteq Keys
      /\ {"preferences", "store"} \subseteq Keys
  BY DEF Keys
<1>3. ASSUME NEW k \in Keys, NEW l \in Keys, NEW ttl \in Nat, ttl <= Lifetime(fam)
      PROVE  /\ ReadShape(<<Get(k), Op("load"), Fill(k, ttl)>>, fam)
             /\ ReadShape(<<Get(k), Get(l), Op("load"), Fill(k, ttl), Fill(l, ttl)>>, fam)
             /\ ReadShape(<<Try(Get(k)), Op("find"), Op("create"), Try(Fill(k, ttl))>>, fam)
  BY <1>3, ReaderStatements, ShortReaders
<1>4. fam \notin Singletons => ReadShape(ZonesFindAll, fam) /\ ReadShape(CategoriesFindAll, fam)
  BY <1>1, <1>2, <1>3, Numbers DEF ZonesFindAll, CategoriesFindAll
<1>5. fam \notin Singletons => ReadShape(ProductsFindAll, fam)
  BY <1>1, <1>2, <1>3, Numbers DEF ProductsFindAll
<1>6. fam \in Singletons => ReadShape(GetPreferences, fam) /\ ReadShape(GetStore, fam)
  BY <1>1, <1>2, <1>3, Numbers DEF GetPreferences, GetStore
<1> QED  BY <1>4, <1>5, <1>6

\* A writer writes, then clears.
LEMMA WritesThenClears ==
  ASSUME NEW fam, NEW w \in WriterOps(fam), w.op \in {"write", "upsert"},
         NEW rest \in Seq(WriterOps(fam)),
         \A i \in 1..Len(rest) : rest[i].op \notin {"write", "upsert"},
         \A i \in 1..Len(rest) : rest[i].op = "keys" => i < Len(rest)
  PROVE  WriteShape(<<w>> \o rest, fam)
<1> DEFINE t == <<w>> \o rest
<1>1. <<w>> \in Seq(WriterOps(fam)) /\ Len(<<w>>) = 1 /\ <<w>>[1] = w
  OBVIOUS
<1>2. /\ t \in Seq(WriterOps(fam)) /\ Len(t) = 1 + Len(rest)
      /\ \A i \in 1..Len(t) : t[i] = IF i <= 1 THEN <<w>>[i] ELSE rest[i - 1]
  BY <1>1, ConcatProperties
<1>3. Len(rest) \in Nat
  BY LenProperties
<1> HIDE DEF t
<1>4. \A i \in 1..Len(t) : i # 1 => i - 1 \in 1..Len(rest) /\ t[i] = rest[i - 1]
  BY <1>2, <1>3
<1>5. 1 \in 1..Len(t) /\ t[1] = w
  BY <1>1, <1>2, <1>3
<1>6. \A i \in 1..Len(t) : t[i].op = "keys" => i < Len(t)
  BY <1>2, <1>3, <1>4, <1>5
<1> QED  BY <1>2, <1>4, <1>6 DEF WriteShape, t

\* Deletions one after the other are a sequence to clear with.
LEMMA ClearsConcat ==
  ASSUME NEW fam, NEW s \in Seq(WriterOps(fam)), NEW t \in Seq(WriterOps(fam)),
         \A i \in 1..Len(s) : /\ s[i].op \notin {"write", "upsert"}
                              /\ s[i].op = "keys" => i < Len(s),
         \A i \in 1..Len(t) : /\ t[i].op \notin {"write", "upsert"}
                              /\ t[i].op = "keys" => i < Len(t)
  PROVE  /\ s \o t \in Seq(WriterOps(fam))
         /\ \A i \in 1..Len(s \o t) : /\ (s \o t)[i].op \notin {"write", "upsert"}
                                      /\ (s \o t)[i].op = "keys" => i < Len(s \o t)
<1>1. /\ s \o t \in Seq(WriterOps(fam)) /\ Len(s \o t) = Len(s) + Len(t)
      /\ \A i \in 1..Len(s \o t) : (s \o t)[i] = IF i <= Len(s) THEN s[i] ELSE t[i - Len(s)]
  BY ConcatProperties
<1>2. Len(s) \in Nat /\ Len(t) \in Nat
  BY LenProperties
<1> DEFINE c == s \o t
<1> HIDE DEF c
<1>3. ASSUME NEW i \in 1..Len(c)
      PROVE  c[i].op \notin {"write", "upsert"} /\ (c[i].op = "keys" => i < Len(c))
  <2>1. Len(c) = Len(s) + Len(t) /\ c[i] = IF i <= Len(s) THEN s[i] ELSE t[i - Len(s)]
    BY <1>1 DEF c
  <2>2. CASE i <= Len(s)
    <3>1. i \in 1..Len(s) /\ c[i] = s[i]
      BY <1>2, <2>1, <2>2
    <3> QED  BY <1>2, <2>1, <3>1
  <2>3. CASE ~(i <= Len(s))
    <3>1. i - Len(s) \in 1..Len(t) /\ c[i] = t[i - Len(s)]
      BY <1>2, <2>1, <2>3
    <3> QED  BY <1>2, <2>1, <3>1
  <2> QED  BY <2>2, <2>3
<1> QED  BY <1>1, <1>3 DEF c

LEMMA ShortWriters ==
  ASSUME NEW fam, NEW w \in WriterOps(fam), w.op \in {"write", "upsert"},
         NEW a \in WriterOps(fam), a.op = "del", NEW b \in WriterOps(fam), b.op = "del"
  PROVE  WriteShape(<<w>>, fam) /\ WriteShape(<<w, a>>, fam) /\ WriteShape(<<w, a, b>>, fam)
<1>1. WriteShape(<<w>>, fam)
  BY DEF WriteShape
<1>2. WriteShape(<<w, a>>, fam)
  <2> DEFINE t == <<w, a>>
  <2>1. t \in Seq(WriterOps(fam)) /\ Len(t) = 2 /\ t[1] = w /\ t[2] = a
    OBVIOUS
  <2> HIDE DEF t
  <2> QED  BY <2>1 DEF WriteShape, t
<1>3. WriteShape(<<w, a, b>>, fam)
  <2> DEFINE t == <<w, a, b>>
  <2>1. t \in Seq(WriterOps(fam)) /\ Len(t) = 3 /\ t[1] = w /\ t[2] = a /\ t[3] = b
    OBVIOUS
  <2> HIDE DEF t
  <2> QED  BY <2>1 DEF WriteShape, t
<1> QED  BY <1>1, <1>2, <1>3

LEMMA CatalogueCleared ==
  ASSUME NEW fam, fam \notin Singletons
  PROVE  WriteShape(ProductWrite, fam)
<1>1. {"products", "produtos", "categories", "categorias"} \subseteq Keys
  BY DEF Keys
<1> DEFINE Clears(t) ==
             /\ t \in Seq(WriterOps(fam))
             /\ \A i \in 1..Len(t) : /\ t[i].op \notin {"write", "upsert"}
                                     /\ t[i].op = "keys" => i < Len(t)
<1>2. \A k \in Keys : Clears(DelByPattern(k))
  <2> SUFFICES ASSUME NEW k \in Keys PROVE Clears(DelByPattern(k))
    OBVIOUS
  <2> DEFINE t == DelByPattern(k)
  <2>1. /\ t \in Seq(WriterOps(fam)) /\ Len(t) = 2
        /\ t[1].op = "keys" /\ t[2].op = "listed"
    BY WriterStatements
  <2> HIDE DEF t
  <2>2. Clears(t)
    BY <2>1
  <2> QED  BY <2>2 DEF t
<1>3. Clears(<<Del("categories"), Del("categorias")>>)
  <2> DEFINE a == Del("categories")
             b == Del("categorias")
             t == <<a, b>>
  <2>1. a \in WriterOps(fam) /\ a.op = "del" /\ b \in WriterOps(fam) /\ b.op = "del"
    BY <1>1, WriterStatements
  <2> HIDE DEF a, b
  <2>2. t \in Seq(WriterOps(fam)) /\ Len(t) = 2 /\ t[1] = a /\ t[2] = b
    BY <2>1
  <2> HIDE DEF t
  <2>3. Clears(t)
    BY <2>1, <2>2
  <2> QED  BY <2>3 DEF t, a, b
<1>4. \A s, t : Clears(s) /\ Clears(t) => Clears(s \o t)
  BY ClearsConcat
<1> DEFINE rest == InvalidateCatalogCache
<1>5. Clears(rest)
  <2> DEFINE s == DelByPattern("products")
             t == DelByPattern("produtos")
             u == <<Del("categories"), Del("categorias")>>
  <2>1. Clears(s) /\ Clears(t) /\ Clears(u)
    BY <1>1, <1>2, <1>3
  <2>2. rest = s \o t \o u
    BY DEF InvalidateCatalogCache
  <2> HIDE DEF Clears, s, t, u, rest
  <2>3. Clears(s \o t)
    BY <1>4, <2>1
  <2> QED  BY <1>4, <2>1, <2>2, <2>3
<1>6. Op("write") \in WriterOps(fam) /\ Op("write").op = "write"
  BY <1>1, WriterStatements
<1> DEFINE w == Op("write")
<1>7. ProductWrite = <<w>> \o rest
  BY DEF ProductWrite
<1> HIDE DEF rest, w
<1>8. WriteShape(<<w>> \o rest, fam)
  BY <1>5, <1>6, WritesThenClears DEF w
<1> QED  BY <1>7, <1>8

LEMMA WriterHandlers ==
  ASSUME NEW fam
  PROVE  /\ fam \notin Singletons =>
              /\ WriteShape(ZoneWrite, fam)
              /\ WriteShape(ProductWrite, fam)
              /\ WriteShape(StockWrite, fam)
         /\ fam \in Singletons =>
              WriteShape(UpdatePreferences, fam) /\ WriteShape(UpdateStore, fam)
<1>1. {"delivery-zones", "zonas-entrega", "preferences", "store"} \subseteq Keys
  BY DEF Keys
<1>2. ASSUME NEW k \in Keys, NEW l \in Keys
      PROVE  /\ fam \notin Singletons => WriteShape(<<Op("write"), Del(k), Del(l)>>, fam)
             /\ fam \notin Singletons => WriteShape(<<Op("write")>>, fam)
             /\ WriteShape(<<Op("upsert"), Try(Del(k))>>, fam)
  BY WriterStatements, ShortWriters
<1>3. fam \notin Singletons => WriteShape(ZoneWrite, fam) /\ WriteShape(StockWrite, fam)
  BY <1>1, <1>2 DEF ZoneWrite, StockWrite
<1>4. WriteShape(UpdatePreferences, fam) /\ WriteShape(UpdateStore, fam)
  BY <1>1, <1>2 DEF UpdatePreferences, UpdateStore
<1> QED  BY <1>3, <1>4, CatalogueCleared

LEMMA HandlersShaped ==
  ASSUME Inv, NEW handler \in Handlers
  PROVE  ReadShape(handler, family) \/ WriteShape(handler, family)
<1>1. family \in Singletons <=> family \in {"preferences", "store"}
  BY DEF Singletons
<1>2. family \in Families
  BY DEF Inv, Tables
<1>3. CASE family = "zones"
  BY <1>1, <1>3, ReaderHandlers, WriterHandlers DEF Handlers, ZoneHandlers
<1>4. CASE family = "catalogue"
  BY <1>1, <1>4, ReaderHandlers, WriterHandlers DEF Handlers, CatalogueHandlers
<1>5. CASE family = "preferences"
  BY <1>1, <1>5, ReaderHandlers, WriterHandlers DEF Handlers, PreferencesHandlers
<1>6. CASE family = "store"
  BY <1>1, <1>6, ReaderHandlers, WriterHandlers DEF Handlers, StoreHandlers
<1> QED  BY <1>2, <1>3, <1>4, <1>5, <1>6 DEF Families

-----------------------------------------------------------------------------
(* The actions.                                                            *)

LEMMA BeginInv ==
  ASSUME Inv, NEW r \in Requests, NEW handler \in Handlers, Begin(r, handler)
  PROVE  Inv'
<1> DEFINE d == [Idle EXCEPT !.todo = handler]
<1>1. ReadShape(handler, family) \/ WriteShape(handler, family)
  BY HandlersShaped
<1>2. handler \in Seq(Operation)
  <2>1. ReaderOps(family) \subseteq Operation /\ WriterOps(family) \subseteq Operation
    BY DEF ReaderOps, WriterOps
  <2> QED  BY <1>1, <2>1 DEF ReadShape, WriteShape
<1>3. /\ d \in Request /\ d.todo = handler /\ d.read = None
      /\ d.cleared = {} /\ d.wrote = 0
  BY <1>2, IdleFits DEF Idle, Request
<1>4. req' = [req EXCEPT ![r] = d] /\ UNCHANGED <<family, now, exists, content, cache,
                                                  saved, ended, floor>>
  BY DEF Begin
<1> HIDE DEF d
<1>5. Shaped(d, family)
  BY <1>1, <1>3 DEF Shaped, Reads, Writes, ReadShape, WriteShape
<1>6. Knows(d, now, saved, ended, cache')
  BY <1>3, Numbers DEF Knows, Inv, Tables
<1> QED  BY <1>3, <1>4, <1>5, <1>6, SameCache, StepInv

LEMMA GetInv ==
  ASSUME Inv, NEW r \in Requests, GetKey(r)
  PROVE  Inv'
  BY EndInv, SkipInv, SameCache DEF GetKey, At

\* What a reader finds in the table is the last write.
LEMMA FoundInv ==
  ASSUME Inv, NEW r \in Requests, req[r].todo # <<>>, NEW rest \in Seq(Operation),
         LET d == [Found(r) EXCEPT !.todo = rest]
         IN  /\ \E q \in Request : /\ Done(r, q) /\ d = [q EXCEPT !.todo = Tail(q.todo)]
             /\ d \in Request /\ Reads(d, family),
         exists' \in {exists, TRUE},
         UNCHANGED <<family, now, content, cache, saved, ended>>
  PROVE  Inv'
<1> DEFINE d == [Found(r) EXCEPT !.todo = rest]
<1>1. d \in Request /\ Reads(d, family)
  OBVIOUS
<1>2. PICK q \in Request : Done(r, q) /\ d = [q EXCEPT !.todo = Tail(q.todo)]
  OBVIOUS
<1>3. /\ req[r] \in Request
      /\ d.read = content /\ d.since = now
      /\ d.wrote = req[r].wrote /\ d.cleared = req[r].cleared
  BY Fitting DEF Found, Request
<1>4. Knows(req[r], now, saved, ended, cache)
  BY Fitting
<1> HIDE DEF d
<1>5. /\ content = saved /\ saved \in 0..MaxWrites /\ now \in Nat
      /\ ended[saved] = None
  BY Numbers DEF Inv, Tables
<1>6. Knows(d, now, saved, ended, cache')
  BY <1>3, <1>4, <1>5, Numbers DEF Knows
<1> QED  BY <1>1, <1>2, <1>6, SameCache, DoneInv DEF Shaped

LEMMA LoadInv ==
  ASSUME Inv, NEW r \in Requests, Load(r) \/ (Create(r) /\ ~exists)
  PROVE  Inv'
<1> DEFINE q == Found(r)
           rest == Tail(req[r].todo)
           d == [q EXCEPT !.todo = rest]
<1>1. /\ req[r].todo # <<>> /\ Head(req[r].todo).op \in {"load", "create"}
      /\ Done(r, q) /\ exists' \in {exists, TRUE}
      /\ UNCHANGED <<family, now, content, cache, saved, ended>>
  BY DEF Load, Create, At
<1>2. /\ req[r] \in Request /\ Shaped(req[r], family)
      /\ content \in Nat /\ now \in Nat /\ content # None
  BY Fitting, Numbers, CacheAssumption DEF Inv, Tables
<1>3. Reads(req[r], family)
  <2>1. CASE Writes(req[r], family)
    BY <1>1, <1>2, <2>1, NextWrite DEF WriterOps
  <2> QED  BY <1>2, <2>1 DEF Shaped
<1>4. rest \in Seq(Operation)
  BY <1>1, <1>2, <1>3, NextRead
<1>5. q \in Request /\ q.todo = req[r].todo
  BY <1>2 DEF Found, Request
<1>6. /\ d \in Request /\ d.todo = Tail(req[r].todo) /\ d.read # None
      /\ d.cleared = req[r].cleared /\ d.wrote = req[r].wrote
  BY <1>2, <1>4 DEF Found, Request
<1>7. d = [q EXCEPT !.todo = Tail(q.todo)]
  BY <1>5
<1>8. Reads(d, family)
  <2> HIDE DEF d, q, rest
  <2> QED  BY <1>1, <1>2, <1>3, <1>6, TailReads
<1> QED  BY <1>1, <1>4, <1>5, <1>6, <1>7, <1>8, FoundInv

LEMMA FindInv ==
  ASSUME Inv, NEW r \in Requests, Find(r)
  PROVE  Inv'
<1>1. /\ req[r].todo # <<>> /\ Head(req[r].todo).op = "find"
      /\ UNCHANGED <<family, now, exists, content, cache, saved, ended>>
  BY DEF Find, At
<1>2. CASE ~exists
  <2>1. Done(r, req[r])
    BY <1>2 DEF Find
  <2> QED  BY <1>1, <2>1, SkipInv, SameCache
<1>3. CASE exists
  <2> DEFINE t == Tail(req[r].todo)
             q == [Found(r) EXCEPT !.todo = t]
             rest == Tail(t)
             d == [Found(r) EXCEPT !.todo = rest]
  <2>1. Done(r, q)
    <3>1. [Found(r) EXCEPT !.todo = Tail(@)] = q
      BY DEF Found
    <3> QED  BY <1>3, <3>1 DEF Find
  <2>2. /\ req[r] \in Request /\ Shaped(req[r], family)
        /\ content \in Nat /\ now \in Nat /\ content # None
    BY Fitting, Numbers, CacheAssumption DEF Inv, Tables
  <2>3. Reads(req[r], family)
    <3>1. CASE Writes(req[r], family)
      BY <1>1, <2>2, <3>1, NextWrite DEF WriterOps
    <3> QED  BY <2>2, <3>1 DEF Shaped
  <2>4. t \in Seq(Operation) /\ t # <<>>
    BY <1>1, <2>2, <2>3, NextRead
  <2>5. /\ q \in Request /\ q.todo = t /\ q.read = content /\ q.read # None
        /\ q.cleared = req[r].cleared /\ q.wrote = req[r].wrote
    BY <2>2, <2>4 DEF Found, Request
  <2>6. Reads(q, family)
    <3> HIDE DEF q
    <3> QED  BY <1>1, <2>2, <2>3, <2>5, TailReads
  <2>7. rest \in Seq(Operation)
    <3> HIDE DEF q
    <3> QED  BY <2>4, <2>5, <2>6, NextRead
  <2>8. /\ d \in Request /\ d.todo = Tail(q.todo) /\ d.read # None
        /\ d.cleared = q.cleared /\ d.wrote = q.wrote
    BY <2>2, <2>5, <2>7 DEF Found, Request
  <2>9. Reads(d, family)
    <3> HIDE DEF d, q, t
    <3> QED  BY <2>4, <2>5, <2>6, <2>8, TailReads
  <2>10. d = [q EXCEPT !.todo = Tail(q.todo)]
    BY <2>5 DEF Found
  <2> QED  BY <1>1, <2>1, <2>5, <2>7, <2>8, <2>9, <2>10, FoundInv
<1> QED  BY <1>2, <1>3

LEMMA SetInv ==
  ASSUME Inv, NEW r \in Requests, SetKey(r)
  PROVE  Inv'
<1> DEFINE q == req[r]
           h == Head(q.todo)
           e == [write |-> q.read, until |-> now + h.ttl, overtaken |-> q.overtaken]
<1>1. /\ q.todo # <<>> /\ h.op = "set" /\ Done(r, q)
      /\ cache' = [cache EXCEPT ![h.key] = e]
      /\ UNCHANGED <<family, now, exists, content, saved, ended>>
  BY DEF SetKey, At, Key
<1>2. q \in Request /\ Shaped(q, family) /\ Knows(q, now, saved, ended, cache)
  BY Fitting
<1>3. Reads(q, family)
  <2>1. CASE Writes(q, family)
    BY <1>1, <1>2, <2>1, NextWrite DEF WriterOps
  <2> QED  BY <1>2, <2>1 DEF Shaped
<1>4. /\ h \in Operation /\ h.ttl <= Lifetime(family) /\ h.key \in Keys /\ q.read # None
  BY <1>1, <1>2, <1>3, NextRead DEF ReaderOps
<1>5. h.ttl \in Nat /\ q.read \in Nat /\ q.since \in Nat /\ q.overtaken \in BOOLEAN
      /\ now \in Nat /\ saved \in 0..MaxWrites
  BY <1>2, <1>4, Numbers DEF Operation, Request, Inv, Tables
<1>6. /\ q.read <= saved /\ now <= q.since + MaxFill
      /\ ended[q.read] # None => q.since <= ended[q.read]
      /\ ~q.overtaken => q.read = saved
  BY <1>2, <1>4 DEF Knows
<1>7. ended[q.read] # None => ended[q.read] \in Nat
  BY <1>5, <1>6, Numbers DEF Inv, Tables
<1> DEFINE k == h.key
           w == q.read
           o == q.overtaken
           u == now + h.ttl
<1>8. u \in Nat /\ u <= (IF ended[w] # None THEN ended[w] ELSE now)
                            + Lifetime(family) + MaxFill
  BY <1>4, <1>5, <1>6, <1>7, Numbers
<1>9. k \in Keys /\ w \in Nat /\ o \in BOOLEAN /\ w <= saved /\ (~o => w = saved)
  BY <1>4, <1>5, <1>6
<1>10. e = [write |-> w, until |-> u, overtaken |-> o]
  OBVIOUS
<1>11. Done(r, req[r]) /\ cache' = [cache EXCEPT ![k] = e]
  BY <1>1
<1> HIDE DEF w, o, u, k, e
<1>12. e \in Entry /\ InTime(e) /\ (e.overtaken \/ e.write = saved)
  <2>1. e.write = w /\ e.until = u /\ e.overtaken = o
    BY <1>10
  <2>2. e \in Entry
    BY <1>8, <1>9, <1>10 DEF Entry
  <2>3. InTime(e)
    BY <1>8, <1>9, <2>1 DEF InTime
  <2> QED  BY <1>9, <2>1, <2>2, <2>3
<1>13. Refilled(cache')
  BY <1>9, <1>11, <1>12 DEF Refilled, Inv, Tables, Entries
<1> QED  BY <1>1, <1>11, <1>13, SkipInv

LEMMA CreateInv ==
  ASSUME Inv, NEW r \in Requests, Create(r)
  PROVE  Inv'
<1>1. CASE exists
  <2>1. /\ End(r) /\ exists' \in {exists, TRUE}
        /\ UNCHANGED <<family, now, content, cache, saved, ended>>
    BY <1>1 DEF Create
  <2> QED  BY <2>1, EndInv
<1>2. CASE ~exists
  BY <1>2, LoadInv
<1> QED  BY <1>1, <1>2

\* A request that deletes keys is a writer, and has written.
LEMMA Deleter ==
  ASSUME Inv, NEW r \in Requests, req[r].todo # <<>>,
         Head(req[r].todo).op \in {"del", "keys", "listed"}
  PROVE  /\ req[r] \in Request /\ Writes(req[r], family)
         /\ Knows(req[r], now, saved, ended, cache)
         /\ Head(req[r].todo).key \in Keys
         /\ Tail(req[r].todo) \in Seq(Operation)
         /\ req[r].read = None
<1>1. /\ req[r] \in Request /\ Shaped(req[r], family)
      /\ Knows(req[r], now, saved, ended, cache)
  BY Fitting
<1>2. Writes(req[r], family)
  <2>1. CASE Reads(req[r], family)
    BY <1>1, <2>1, NextRead DEF ReaderOps
  <2> QED  BY <1>1, <2>1 DEF Shaped
<1> QED  BY <1>1, <1>2, NextWrite DEF WriterOps, Writes

LEMMA Emptied ==
  ASSUME Inv, NEW k \in Keys, cache' = [cache EXCEPT ![k] = NoEntry]
  PROVE  Refilled(cache') /\ cache'[k].until = 0
<1>1. NoEntry \in Entry /\ NoEntry.write = 0 /\ NoEntry.until = 0
  BY DEF NoEntry, Entry
<1>2. InTime(NoEntry)
  <2>1. /\ saved \in 0..MaxWrites /\ now \in Nat
        /\ ended[0] # None => ended[0] \in Nat
    BY Numbers DEF Inv, Tables
  <2> QED  BY <1>1, <2>1, Numbers DEF InTime
<1>3. now \in Nat /\ cache \in [Keys -> Entry]
  BY Numbers DEF Inv, Tables
<1> HIDE DEF NoEntry
<1> QED  BY <1>1, <1>2, <1>3 DEF Refilled, Inv, Entries

LEMMA DelInv ==
  ASSUME Inv, NEW r \in Requests, DelKey(r)
  PROVE  Inv'
<1> DEFINE k == Head(req[r].todo).key
           q == [req[r] EXCEPT !.cleared = @ \cup {k}]
           d == [q EXCEPT !.todo = Tail(q.todo)]
<1>1. /\ req[r].todo # <<>> /\ Head(req[r].todo).op \in {"del", "listed"}
      /\ cache' = [cache EXCEPT ![k] = NoEntry] /\ Done(r, q)
      /\ UNCHANGED <<family, now, exists, content, saved, ended>>
  BY DEF DelKey, At, Key
<1>2. /\ req[r] \in Request /\ Writes(req[r], family) /\ k \in Keys
      /\ Knows(req[r], now, saved, ended, cache)
      /\ Tail(req[r].todo) \in Seq(Operation) /\ req[r].read = None
  BY <1>1, Deleter
<1>3. q \in Request /\ q.todo = req[r].todo
  BY <1>2 DEF Request
<1>4. /\ d \in Request /\ d.todo = Tail(req[r].todo) /\ d.read = None
      /\ d.wrote = req[r].wrote /\ d.cleared = req[r].cleared \cup {k}
  BY <1>2 DEF Request
<1>5. d = [q EXCEPT !.todo = Tail(q.todo)]
  OBVIOUS
<1> HIDE DEF k, q, d
<1>6. Refilled(cache') /\ cache'[k].until = 0
  BY <1>1, <1>2, Emptied
<1>7. Shaped(d, family)
  BY <1>1, <1>2, <1>4, TailWrites DEF Shaped
<1>8. Knows(d, now, saved, ended, cache')
  <2>1. Knows(req[r], now, saved, ended, cache') /\ now \in Nat
    BY <1>2, <1>6, KnowsRefilled, Numbers DEF Inv, Tables
  <2> QED  BY <1>4, <1>6, <2>1 DEF Knows
<1> QED  BY <1>1, <1>3, <1>4, <1>5, <1>6, <1>7, <1>8, DoneInv

LEMMA KeysInv ==
  ASSUME Inv, NEW r \in Requests, ListKeys(r)
  PROVE  Inv'
<1> DEFINE k == Head(req[r].todo).key
           t == Tail(req[r].todo)
           q == [req[r] EXCEPT !.cleared = @ \cup {k}, !.todo = t]
           d == [q EXCEPT !.todo = Tail(q.todo)]
<1>1. /\ req[r].todo # <<>> /\ Head(req[r].todo).op = "keys"
      /\ UNCHANGED <<family, now, exists, content, cache, saved, ended>>
  BY DEF ListKeys, At
<1>2. CASE Readable(k)
  <2>1. Done(r, req[r])
    BY <1>2 DEF ListKeys, Key
  <2> QED  BY <1>1, <2>1, SkipInv, SameCache
<1>3. CASE ~Readable(k)
  <2>1. Done(r, q)
    <3>1. [req[r] EXCEPT !.cleared = @ \cup {k}, !.todo = Tail(@)] = q
      OBVIOUS
    <3> QED  BY <1>3, <3>1 DEF ListKeys, Key
  <2>2. /\ req[r] \in Request /\ Writes(req[r], family) /\ k \in Keys
        /\ Knows(req[r], now, saved, ended, cache)
        /\ t \in Seq(Operation) /\ req[r].read = None
    BY <1>1, Deleter
  <2>3. t # <<>>
    BY <1>1, <2>2, NextWrite
  <2>4. /\ q \in Request /\ q.todo = t /\ q.read = None
        /\ q.wrote = req[r].wrote /\ q.cleared = req[r].cleared \cup {k}
    BY <2>2 DEF Request
  <2>5. Writes(q, family)
    <3> HIDE DEF q, k
    <3> QED  BY <1>1, <2>2, <2>4, TailWrites
  <2>6. Tail(t) \in Seq(Operation)
    <3> HIDE DEF q, k, t
    <3> QED  BY <2>3, <2>4, <2>5, NextWrite
  <2>7. /\ d \in Request /\ d.todo = Tail(q.todo) /\ d.read = None
        /\ d.wrote = q.wrote /\ d.cleared = q.cleared
    <3>1. \A x \in Request : \A y \in Seq(Operation) :
            LET z == [x EXCEPT !.todo = y]
            IN  z \in Request /\ z.todo = y /\ z.read = x.read /\ z.wrote = x.wrote
                /\ z.cleared = x.cleared
      BY DEF Request
    <3> HIDE DEF q, t
    <3> QED  BY <2>4, <2>6, <3>1
  <2>8. d = [q EXCEPT !.todo = Tail(q.todo)]
    OBVIOUS
  <2> HIDE DEF q, d, k, t
  <2>9. Shaped(d, family)
    BY <2>3, <2>4, <2>5, <2>7, TailWrites DEF Shaped
  <2>10. Knows(d, now, saved, ended, cache')
    BY <1>1, <1>3, <2>2, <2>4, <2>7 DEF Knows, Readable
  <2> QED  BY <1>1, <2>1, <2>4, <2>7, <2>8, <2>9, <2>10, SameCache, DoneInv
<1> QED  BY <1>2, <1>3

LEMMA RedisFailsInv ==
  ASSUME Inv, NEW r \in Requests, RedisFails(r)
  PROVE  Inv'
<1>1. /\ req[r].todo # <<>> /\ Head(req[r].todo).try /\ Done(r, req[r])
      /\ UNCHANGED <<family, now, exists, content, cache, saved, ended>>
  BY DEF RedisFails
<1>2. Head(req[r].todo).op \notin {"load", "create", "write", "upsert"}
  BY <1>1, Fitting, NextRead, NextWrite DEF Shaped, ReaderOps, WriterOps
<1> QED  BY <1>1, <1>2, SameCache, SkipInv

LEMMA RecordInv ==
  ASSUME Inv, NEW r \in Requests, Write(r) \/ Upsert(r)
  PROVE  Inv'
<1> DEFINE n == saved + 1
           rest == Tail(req[r].todo)
           d == [req[r] EXCEPT !.todo = rest, !.wrote = n]
           others == [s \in Requests |->
                        IF req[s].read = None THEN req[s]
                        ELSE [req[s] EXCEPT !.overtaken = TRUE]]
<1>1. /\ req[r].todo # <<>> /\ Head(req[r].todo).op \in {"write", "upsert"}
      /\ n <= MaxWrites /\ content' = n /\ saved' = n
      /\ ended' = [ended EXCEPT ![saved] = now]
      /\ req' = [others EXCEPT ![r] = IF rest = <<>> THEN Idle ELSE d]
      /\ floor' = [k \in Keys |-> IF rest = <<>> /\ k \in req[r].cleared THEN n
                                  ELSE floor[k]]
      /\ UNCHANGED <<family, now, cache>>
  BY DEF Write, Upsert, At, Record
<1>2. /\ req[r] \in Request /\ Shaped(req[r], family)
      /\ Knows(req[r], now, saved, ended, cache)
  BY Fitting
<1>3. Writes(req[r], family)
  <2>1. CASE Reads(req[r], family)
    BY <1>1, <1>2, <2>1, NextRead DEF ReaderOps
  <2> QED  BY <1>2, <2>1 DEF Shaped
<1>4. /\ rest \in Seq(Operation) /\ req[r].cleared = {} /\ req[r].read = None
      /\ Head(req[r].todo) \in WriterOps(family)
  BY <1>1, <1>2, <1>3, NextWrite DEF Writes
<1>5. /\ saved \in Nat /\ saved \in 0..MaxWrites /\ n \in 0..MaxWrites /\ n \in Nat
      /\ now \in Nat /\ ended \in [0..MaxWrites -> Nat \cup {None}]
      /\ cache \in [Keys -> Entry] /\ floor \in [Keys -> 0..MaxWrites]
  BY <1>1, Numbers DEF Inv, Tables
<1>6. floor' = floor
  BY <1>1, <1>4, <1>5
<1>7. exists'
  <2>1. CASE Upsert(r)
    BY <2>1 DEF Upsert
  <2>2. CASE Write(r)
    <3>1. exists' = exists /\ Head(req[r].todo).op = "write"
      BY <2>2 DEF Write, At
    <3>2. family \notin Singletons
      BY <1>4, <3>1 DEF WriterOps
    <3> QED  BY <3>1, <3>2 DEF Inv, Tables
  <2> QED  BY <2>1, <2>2
<1>8. Tables'
  <2>1. exists' \in BOOLEAN
    BY <1>7
  <2>2. ended' \in [0..MaxWrites -> Nat \cup {None}]
    BY <1>1, <1>5
  <2>3. \A w \in 0..MaxWrites : w >= n => ended'[w] = None
    BY <1>1, <1>5 DEF Inv, Tables
  <2> HIDE DEF n
  <2> QED  BY <1>1, <1>5, <1>6, <1>7, <2>1, <2>2, <2>3 DEF Inv, Tables
<1>9. Entries' /\ Floors' /\ WritesShow'
  <2>1. ASSUME NEW k \in Keys
        PROVE  InTime(cache[k])' /\ floor'[k] <= saved'
    <3>1. /\ cache[k].write \in 0..MaxWrites /\ cache[k].write \in Nat
          /\ cache[k].until \in Nat /\ floor[k] \in Nat
      BY <1>5, EntryTyped, Numbers DEF Inv, Entries, InTime
    <3>2. floor[k] <= saved /\ InTime(cache[k])
      BY DEF Inv, Floors, Entries
    <3>3. ended[saved] = None
      BY <1>5 DEF Inv, Tables
    <3>4. \A w \in 0..MaxWrites : ended'[w] = IF w = saved THEN now ELSE ended[w]
      BY <1>1, <1>5
    <3>5. now # None
      BY <1>5, CacheAssumption
    <3>6. floor'[k] <= saved'
      BY <1>1, <1>5, <1>6, <3>1, <3>2
    <3>7. cache[k].write <= saved'
      BY <1>1, <1>5, <3>1, <3>2 DEF InTime
    <3>8. cache[k].until <= (IF ended'[cache[k].write] # None
                               THEN ended'[cache[k].write] ELSE now)
                              + Lifetime(family) + MaxFill
      BY <3>1, <3>2, <3>3, <3>4, <3>5 DEF InTime
    <3> QED  BY <1>1, <3>6, <3>7, <3>8 DEF InTime
  <2>2. Entries' /\ Floors'
    BY <1>1, <2>1 DEF Entries, Floors
  <2>3. WritesShow'
    BY <1>1, <1>6 DEF Inv, WritesShow, Readable
  <2> QED  BY <2>2, <2>3
<1>10. d \in Request /\ d.todo = rest /\ d.read = None /\ d.wrote = n /\ d.cleared = {}
  BY <1>2, <1>4, <1>5 DEF Request
<1>11. ASSUME NEW x \in Requests, x # r
       PROVE  others[x] \in Request /\ Shaped(others[x], family)
              /\ Knows(others[x], now, n, ended', cache)
  <2> DEFINE q == req[x]
             e == [q EXCEPT !.overtaken = TRUE]
  <2>1. q \in Request /\ Shaped(q, family) /\ Knows(q, now, saved, ended, cache)
    BY Fitting
  <2>2. others[x] = IF q.read = None THEN q ELSE e
    OBVIOUS
  <2>3. /\ e \in Request /\ e.todo = q.todo /\ e.read = q.read /\ e.since = q.since
        /\ e.overtaken /\ e.wrote = q.wrote /\ e.cleared = q.cleared
    BY <2>1 DEF Request
  <2>4. \A w \in 0..MaxWrites : ended'[w] = IF w = saved THEN now ELSE ended[w]
    BY <1>1, <1>5
  <2>5. q.wrote \in Nat /\ q.since \in Nat /\ (q.read # None => q.read \in Nat)
    BY <2>1 DEF Request
  <2> HIDE DEF q, e, others
  <2>6. Shaped(e, family)
    BY <2>1, <2>3 DEF Shaped, Reads, Writes
  <2>7. q.wrote <= n
    BY <1>5, <2>1, <2>5 DEF Knows
  <2>8. CASE q.read = None
    BY <2>1, <2>2, <2>7, <2>8 DEF Knows
  <2>9. CASE q.read # None
    <3>1. q.read \in 0..MaxWrites /\ q.read <= n
      <4>1. q.read \in Nat /\ q.read <= saved
        BY <2>1, <2>5, <2>9 DEF Knows
      <4> QED  BY <1>5, <4>1, Numbers
    <3>2. q.since <= now /\ now <= q.since + MaxFill
      BY <2>1, <2>9 DEF Knows
    <3>3. ended'[q.read] # None => q.since <= ended'[q.read]
      BY <2>1, <2>4, <2>9, <3>1, <3>2 DEF Knows
    <3>4. Knows(e, now, n, ended', cache)
      BY <2>1, <2>3, <2>7, <3>1, <3>2, <3>3 DEF Knows
    <3> QED  BY <2>2, <2>3, <2>6, <2>9, <3>4
  <2> QED  BY <2>8, <2>9
<1>12. Shaped(d, family) /\ Knows(d, now, n, ended', cache)
  <2> HIDE DEF d, rest, n
  <2>1. Writes(d, family)
    BY <1>1, <1>2, <1>3, <1>10, TailWrites DEF rest
  <2> QED  BY <1>5, <1>10, <2>1 DEF Shaped, Knows
<1>13. AllFit'
  <2>1. /\ Idle \in Request /\ Shaped(Idle, family)
        /\ Knows(Idle, now, n, ended', cache)
    BY <1>5, IdleFits
  <2> DEFINE f == IF rest = <<>> THEN Idle ELSE d
  <2>2. f \in Request /\ Shaped(f, family) /\ Knows(f, now, n, ended', cache)
    <3> HIDE DEF d, n
    <3> QED  BY <1>10, <1>12, <2>1
  <2>3. \A x \in Requests : req'[x] = IF x = r THEN f ELSE others[x]
    <3> HIDE DEF d
    <3> QED  BY <1>1
  <2>4. req' = [x \in Requests |-> req'[x]]
    <3> HIDE DEF d
    <3> QED  BY <1>1
  <2> HIDE DEF f, others, n, d
  <2>5. ASSUME NEW x \in Requests
        PROVE  req'[x] \in Request /\ Shaped(req'[x], family)
               /\ Knows(req'[x], now, n, ended', cache)
    BY <1>11, <2>2, <2>3
  <2>6. req' \in [Requests -> Request]
    BY <2>4, <2>5
  <2> QED  BY <1>1, <2>5, <2>6 DEF AllFit
<1> QED  BY <1>8, <1>9, <1>13 DEF Inv

LEMMA EvictInv ==
  ASSUME Inv, NEW k \in Keys, Evict(k)
  PROVE  Inv'
<1>1. /\ cache' = [cache EXCEPT ![k] = NoEntry]
      /\ UNCHANGED <<family, now, exists, content, req, saved, ended, floor>>
  BY DEF Evict
<1>2. Refilled(cache') /\ cache'[k].until = 0
  BY <1>1, Emptied
<1>3. AllFit'
  <2>1. ASSUME NEW x \in Requests
        PROVE  Shaped(req[x], family) /\ Knows(req[x], now, saved, ended, cache')
    BY <1>2, Fitting, KnowsRefilled
  <2> QED  BY <1>1, <2>1 DEF Inv, AllFit
<1>4. WritesShow'
  <2>1. now \in Nat /\ \A x \in Keys : x # k => cache'[x] = cache[x]
    BY <1>1, Numbers DEF Inv, Tables
  <2> QED  BY <1>1, <1>2, <2>1 DEF Inv, WritesShow, Readable
<1> QED  BY <1>1, <1>2, <1>3, <1>4 DEF Inv, Tables, Entries, Floors, Refilled, InTime

LEMMA TickInv ==
  ASSUME Inv, Tick
  PROVE  Inv'
<1>1. /\ now \in Nat /\ now < MaxTime /\ now' = now + 1 /\ now' \in 0..MaxTime
      /\ UNCHANGED <<family, exists, content, cache, req, saved, ended, floor>>
  BY Numbers DEF Tick, Inv, Tables
<1>2. ASSUME NEW x \in Requests
      PROVE  Knows(req[x], now', saved, ended, cache)
  <2>1. Knows(req[x], now, saved, ended, cache) /\ req[x] \in Request
    BY Fitting
  <2>2. req[x].read # None => now < req[x].since + MaxFill
    BY DEF Tick
  <2>3. req[x].since \in Nat
    BY <2>1 DEF Request
  <2>4. \A k \in Keys : cache[k].until \in Nat
    BY EntryTyped
  <2>5. req[x].cleared \subseteq Keys
    BY <2>1 DEF Request
  <2>6. req[x].read # None =>
          req[x].since <= now' /\ now' <= req[x].since + MaxFill
    BY <1>1, <2>1, <2>2, <2>3, Numbers DEF Knows
  <2>7. \A k \in req[x].cleared : now' < cache[k].until => now < cache[k].until
    BY <1>1, <2>4, <2>5
  <2> QED  BY <2>1, <2>6, <2>7 DEF Knows
<1>3. AllFit'
  BY <1>1, <1>2 DEF Inv, AllFit
<1>4. Entries' /\ WritesShow'
  <2>1. ASSUME NEW k \in Keys
        PROVE  InTime(cache[k])' /\ (now' < cache[k].until => now < cache[k].until)
    <3>1. cache[k].write \in 0..MaxWrites /\ cache[k].until \in Nat
      BY EntryTyped, Numbers DEF Inv, Entries, InTime, Tables
    <3>2. InTime(cache[k])
      BY DEF Inv, Entries
    <3>3. ended[cache[k].write] # None => ended[cache[k].write] \in Nat
      BY <3>1 DEF Inv, Tables
    <3> QED  BY <1>1, <3>1, <3>2, <3>3, Numbers DEF InTime
  <2> QED  BY <1>1, <2>1 DEF Entries, WritesShow, Readable, Inv
<1> QED  BY <1>1, <1>3, <1>4 DEF Inv, Tables, Floors

-----------------------------------------------------------------------------
LEMMA NextInv == Inv /\ [Next]_vars => Inv'
<1> SUFFICES ASSUME Inv, [Next]_vars PROVE Inv'
  OBVIOUS
<1>1. CASE UNCHANGED vars
  BY <1>1 DEF vars, Inv, Tables, Entries, InTime, Floors, WritesShow, Readable, AllFit
<1>2. ASSUME NEW r \in Requests, Die(r)
      PROVE  Inv'
  BY <1>2, EndInv DEF Die
<1> QED  BY <1>1, <1>2, BeginInv, GetInv, LoadInv, FindInv, CreateInv, SetInv, RecordInv,
            DelInv, KeysInv, RedisFailsInv, EvictInv, TickInv
         DEF Next

\* Every reachable state satisfies the inductive invariant, which the theorems
\* below read off.
THEOREM Invariant == Spec => []Inv
  BY InitInv, NextInv, PTL DEF Spec

\* The type invariant: the tables, Redis, and what requests carry.
THEOREM CacheTyped == Spec => []CacheTypeOK
<1>1. Inv => CacheTypeOK
  BY DEF Inv, Tables, AllFit, CacheTypeOK
<1> QED  BY <1>1, Invariant, PTL

\* An answered write shows at every key that its handler deleted, unless
\* the entry is of a reader that it overtook.
THEOREM AnsweredWritesShow == Spec => []WritesShow
<1>1. Inv => WritesShow
  BY DEF Inv
<1> QED  BY <1>1, Invariant, PTL

\* Whatever was overtaken, failed or never ran, what a key shows was in the
\* table at most a lifetime and a fill ago.
THEOREM StalenessEnds == Spec => []BoundedStaleness
<1>1. ASSUME Inv PROVE BoundedStaleness
  <2> SUFFICES ASSUME NEW k \in Keys, now < cache[k].until, ended[cache[k].write] # None
               PROVE  now < ended[cache[k].write] + Lifetime(family) + MaxFill
    BY DEF BoundedStaleness, Readable, Lifetime
  <2>1. /\ cache[k].write \in 0..MaxWrites /\ cache[k].until \in Nat /\ now \in Nat
        /\ ended[cache[k].write] \in Nat
    BY <1>1, EntryTyped, Numbers DEF Inv, Entries, InTime, Tables
  <2>2. cache[k].until <= ended[cache[k].write] + Lifetime(family) + MaxFill
    BY <1>1 DEF Inv, Entries, InTime
  <2> QED  BY <2>1, <2>2, Numbers
<1> QED  BY <1>1, Invariant, PTL

\* What an administrator saved is not reset by a reader that creates the
\* row of defaults.
THEOREM SavedSettingsStay == Spec => []SavedStays
<1>1. Inv => SavedStays
  BY DEF Inv, Tables, SavedStays
<1> QED  BY <1>1, Invariant, PTL

=============================================================================
