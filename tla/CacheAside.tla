------------------------------ MODULE CacheAside ------------------------------
(***************************************************************************)
(* One key of utils/cache.util.js: the read-through cache that every list  *)
(* of the API and the session check of middleware/auth.middleware.js go    *)
(* through, on several replicas of the API over one Redis.                 *)
(*                                                                         *)
(* The cached value is the version of the document in MongoDB. A replica   *)
(* has one connection to Redis, which answers its commands in the order    *)
(* they were issued, late or never; a command whose caller gave up is      *)
(* still executed.                                                         *)
(***************************************************************************)
EXTENDS Naturals, Sequences

CONSTANTS
    Replicas,   \* API processes
    Readers,    \* calls of cacheGetOrSet: <<replica, n>>
    Writers,    \* handlers that write the document and then invalidate
    None,       \* no value, no flight, nobody
    Troubles,   \* what may happen: Redis is down for a replica ("down"), is
                \* late ("late"), or a fetch fails ("fetch")
    MaxVersion, \* bound: versions of the document
    MaxWire     \* bound: commands issued on one connection and not answered

ASSUME ReadersType == Readers \subseteq Replicas \X Nat
ASSUME NoneIsNobody == None \notin Replicas \cup Readers \cup Writers \cup Nat
ASSUME KindsApart ==
    Replicas \cap Readers = {} /\ Replicas \cap Writers = {} /\ Readers \cap Writers = {}
ASSUME TroublesKnown == Troubles \subseteq {"down", "late", "fetch"}
ASSUME BoundsNat == MaxVersion \in Nat /\ MaxWire \in Nat

VARIABLES
    document,   \* the version MongoDB has
    redis,      \* the version Redis has
    up,         \* whether a replica sees its connection as ready
    wire,       \* the commands of a replica that Redis has not executed
    memory,     \* memoryStore of a replica
    inFlight,   \* inFlight of a replica
    reader,     \* the calls of cacheGetOrSet
    writer,     \* the handlers that write
    fetches,    \* fetches a replica has made: 0, 1, or 2 for more
    calm        \* nothing has emptied or disturbed the cache yet

vars == <<document, redis, up, wire, memory, inFlight, reader, writer,
          fetches, calm>>

-----------------------------------------------------------------------------
Version == 0..MaxVersion
Copy == Version \cup {None}

Home(r) == r[1]

\* by is whoever still waits for the answer.
Command == [op : {"get"}, by : Readers \cup {None}]
           \cup [op : {"set"}, by : Replicas \cup {None}, version : Version]
           \cup [op : {"scan"}, by : Writers \cup {None}]
           \cup [op : {"del"}, by : Writers \cup {None}]

\* A flight reads MongoDB, has its answer on the way, or is over but for the
\* write of its result to Redis.
Flight == [phase : {"fetch"}] \cup [phase : {"fetched", "write"}, version : Version]
ASSUME NoneIsNoFlight == None \notin Flight

Reader == {"idle", "get", "join", "done"}

IdleWriter == [pc |-> "idle"]
Writer == [pc : {"wrote"}] \cup [pc : {"clear"}, at : Replicas] \cup {IdleWriter}

Init ==
    /\ document = 0
    /\ redis = None
    /\ up \in [Replicas -> IF "down" \in Troubles THEN BOOLEAN ELSE {TRUE}]
    /\ wire = [i \in Replicas |-> <<>>]
    /\ memory = [i \in Replicas |-> None]
    /\ inFlight = [i \in Replicas |-> None]
    /\ reader = [r \in Readers |-> "idle"]
    /\ writer = [w \in Writers |-> IdleWriter]
    /\ fetches = [i \in Replicas |-> 0]
    /\ calm = TRUE

Issue(i, command) == wire' = [wire EXCEPT ![i] = Append(@, command)]

\* The caller stops waiting; the command stays.
Abandoned(queue, who) ==
    [n \in DOMAIN queue |->
       IF queue[n].by = who THEN [queue[n] EXCEPT !.by = None] ELSE queue[n]]

-----------------------------------------------------------------------------
(* cacheGetOrSet                                                           *)

\* A reader that found nothing joins the flight of its replica or begins one.
\* A flight whose fetch is over answers at once.
Joined(r) ==
    LET f == inFlight[Home(r)] IN
    IF f # None /\ f.phase = "write" THEN "done" ELSE "join"

JoinOrFetch(r) ==
    LET i == Home(r) IN
    /\ reader' = [reader EXCEPT ![r] = Joined(r)]
    /\ IF inFlight[i] = None
       THEN /\ inFlight' = [inFlight EXCEPT ![i] = [phase |-> "fetch"]]
            /\ fetches' = [fetches EXCEPT ![i] = IF @ = 0 THEN 1 ELSE 2]
       ELSE UNCHANGED <<inFlight, fetches>>

ReadRedis(r) ==
    LET i == Home(r) IN
    /\ reader[r] = "idle"
    /\ up[i] /\ Len(wire[i]) < MaxWire
    /\ Issue(i, [op |-> "get", by |-> r])
    /\ reader' = [reader EXCEPT ![r] = "get"]
    /\ UNCHANGED <<document, redis, up, memory, inFlight, writer, fetches, calm>>

ReadMemory(r) ==
    LET i == Home(r) IN
    /\ reader[r] = "idle"
    /\ ~up[i]
    /\ IF memory[i] # None
       THEN /\ reader' = [reader EXCEPT ![r] = "done"]
            /\ UNCHANGED <<inFlight, fetches>>
       ELSE JoinOrFetch(r)
    /\ UNCHANGED <<document, redis, up, wire, memory, writer, calm>>

\* What a hung GET would do if it were awaited as it is.
GetTimesOutNever(r) ==
    /\ reader[r] = "get" /\ FALSE
    /\ UNCHANGED vars

\* withTimeout gives the GET up, or the command throws: on to MongoDB.
GetTimesOut(r) ==
    LET i == Home(r) IN
    /\ "late" \in Troubles
    /\ reader[r] = "get"
    /\ wire' = [wire EXCEPT ![i] = Abandoned(@, r)]
    /\ JoinOrFetch(r)
    /\ calm' = FALSE
    /\ UNCHANGED <<document, redis, up, memory, writer>>

\* MongoDB executes the query.
FetchReads(i) ==
    /\ inFlight[i] # None /\ inFlight[i].phase = "fetch"
    /\ inFlight' = [inFlight EXCEPT ![i] = [phase |-> "fetched", version |-> document]]
    /\ UNCHANGED <<document, redis, up, wire, memory, reader, writer, fetches, calm>>

\* Everyone who waits for the flight has its result.
Served(i) ==
    reader' = [r \in Readers |->
                 IF Home(r) = i /\ reader[r] = "join" THEN "done" ELSE reader[r]]

\* What it would be if the flight ended with its fetch.
FetchReturnsUnguarded(i) ==
    LET f == inFlight[i] IN
    /\ f # None /\ f.phase = "fetched"
    /\ Served(i)
    /\ inFlight' = [inFlight EXCEPT ![i] = None]
    /\ IF up[i]
       THEN /\ Issue(i, [op |-> "set", by |-> None, version |-> f.version])
            /\ UNCHANGED memory
       ELSE /\ memory' = [memory EXCEPT ![i] = f.version]
            /\ UNCHANGED wire
    /\ UNCHANGED <<document, redis, up, writer, fetches, calm>>

\* The result goes to those who wait and, in the background, to the cache.
FetchReturns(i) ==
    LET f == inFlight[i] IN
    /\ f # None /\ f.phase = "fetched"
    /\ Served(i)
    /\ IF up[i]
       THEN /\ Issue(i, [op |-> "set", by |-> i, version |-> f.version])
            /\ inFlight' = [inFlight EXCEPT ![i] = [phase |-> "write", version |-> f.version]]
            /\ UNCHANGED memory
       ELSE /\ memory' = [memory EXCEPT ![i] = f.version]
            /\ inFlight' = [inFlight EXCEPT ![i] = None]
            /\ UNCHANGED wire
    /\ UNCHANGED <<document, redis, up, writer, fetches, calm>>

\* What a failure would be if only a success removed the flight.
FetchFailsKept(i) ==
    /\ "fetch" \in Troubles
    /\ inFlight[i] # None /\ inFlight[i].phase \in {"fetch", "fetched"}
    /\ reader' = [r \in Readers |->
                    IF Home(r) = i /\ reader[r] = "join" THEN "idle" ELSE reader[r]]
    /\ inFlight' = [inFlight EXCEPT ![i] = [phase |-> "failed"]]
    /\ calm' = FALSE
    /\ UNCHANGED <<document, redis, up, wire, memory, writer, fetches>>

\* A failed fetch fails everyone who waits for it and is not cached.
FetchFails(i) ==
    /\ "fetch" \in Troubles
    /\ inFlight[i] # None /\ inFlight[i].phase \in {"fetch", "fetched"}
    /\ reader' = [r \in Readers |->
                    IF Home(r) = i /\ reader[r] = "join" THEN "idle" ELSE reader[r]]
    /\ inFlight' = [inFlight EXCEPT ![i] = None]
    /\ calm' = FALSE
    /\ UNCHANGED <<document, redis, up, wire, memory, writer, fetches>>

\* The write of the result times out, which ends the flight.
SetTimesOut(i) ==
    /\ "late" \in Troubles
    /\ inFlight[i] # None /\ inFlight[i].phase = "write"
    /\ wire' = [wire EXCEPT ![i] = Abandoned(@, i)]
    /\ inFlight' = [inFlight EXCEPT ![i] = None]
    /\ calm' = FALSE
    /\ UNCHANGED <<document, redis, up, memory, reader, writer, fetches>>

\* The caller uses what it was given.
Return(r) ==
    /\ reader[r] = "done"
    /\ reader' = [reader EXCEPT ![r] = "idle"]
    /\ UNCHANGED <<document, redis, up, wire, memory, inFlight, writer, fetches, calm>>

-----------------------------------------------------------------------------
(* A write and cacheInvalidate                                             *)

Write(w) ==
    /\ writer[w] = IdleWriter
    /\ document < MaxVersion
    /\ document' = document + 1
    /\ writer' = [writer EXCEPT ![w] = [pc |-> "wrote"]]
    /\ calm' = FALSE
    /\ UNCHANGED <<redis, up, wire, memory, inFlight, reader, fetches>>

\* The handler answers its client.
Settle(w) == writer' = [writer EXCEPT ![w] = IdleWriter]

InvalidateRedis(w, i) ==
    /\ writer[w].pc = "wrote"
    /\ up[i]
    /\ Issue(i, [op |-> "scan", by |-> w])
    /\ writer' = [writer EXCEPT ![w] = [pc |-> "clear", at |-> i]]
    /\ UNCHANGED <<document, redis, up, memory, inFlight, reader, fetches, calm>>

InvalidateMemory(w, i) ==
    /\ writer[w].pc = "wrote"
    /\ ~up[i]
    /\ memory' = [memory EXCEPT ![i] = None]
    /\ Settle(w)
    /\ UNCHANGED <<document, redis, up, wire, inFlight, reader, fetches, calm>>

\* The scan goes on behind the timeout, and so does its DEL.
InvalidateTimesOut(w) ==
    /\ "late" \in Troubles
    /\ writer[w].pc = "clear"
    /\ wire' = [wire EXCEPT ![writer[w].at] = Abandoned(@, w)]
    /\ Settle(w)
    /\ UNCHANGED <<document, redis, up, memory, inFlight, reader, fetches, calm>>

-----------------------------------------------------------------------------
(* Redis executes the oldest command of a connection and answers           *)

Answer(i, op) == wire[i] # <<>> /\ Head(wire[i]).op = op
Executed(i) == wire' = [wire EXCEPT ![i] = Tail(@)]

AnswerGet(i) ==
    LET r == Head(wire[i]).by IN
    /\ Answer(i, "get")
    /\ Executed(i)
    /\ IF r = None
       THEN UNCHANGED <<reader, inFlight, fetches>>
       ELSE IF redis # None
       THEN /\ reader' = [reader EXCEPT ![r] = "done"]
            /\ UNCHANGED <<inFlight, fetches>>
       ELSE JoinOrFetch(r)
    /\ UNCHANGED <<document, redis, up, memory, writer, calm>>

AnswerSet(i) ==
    LET c == Head(wire[i]) IN
    /\ Answer(i, "set")
    /\ Executed(i)
    /\ redis' = c.version
    /\ IF c.by = None THEN UNCHANGED inFlight
                      ELSE inFlight' = [inFlight EXCEPT ![i] = None]
    /\ UNCHANGED <<document, up, memory, reader, writer, fetches, calm>>

\* The whole cursor loop is one command here.
AnswerScan(i) ==
    LET c == Head(wire[i]) IN
    /\ Answer(i, "scan")
    /\ IF redis # None
       THEN /\ wire' = [wire EXCEPT ![i] = Append(Tail(@), [op |-> "del", by |-> c.by])]
            /\ UNCHANGED writer
       ELSE /\ Executed(i)
            /\ IF c.by = None THEN UNCHANGED writer ELSE Settle(c.by)
    /\ UNCHANGED <<document, redis, up, memory, inFlight, reader, fetches, calm>>

AnswerDel(i) ==
    LET c == Head(wire[i]) IN
    /\ Answer(i, "del")
    /\ Executed(i)
    /\ redis' = None
    /\ IF c.by = None THEN UNCHANGED writer ELSE Settle(c.by)
    /\ UNCHANGED <<document, up, memory, inFlight, reader, fetches, calm>>

-----------------------------------------------------------------------------
(* Time and the connection                                                 *)

ExpireRedis ==
    /\ redis # None
    /\ redis' = None
    /\ calm' = FALSE
    /\ UNCHANGED <<document, up, wire, memory, inFlight, reader, writer, fetches>>

\* What the fallback would be if it kept its entries.
ExpireMemoryNever(i) ==
    /\ memory[i] # None /\ FALSE
    /\ UNCHANGED vars

ExpireMemory(i) ==
    /\ memory[i] # None
    /\ memory' = [memory EXCEPT ![i] = None]
    /\ calm' = FALSE
    /\ UNCHANGED <<document, redis, up, wire, inFlight, reader, writer, fetches>>

\* The connection's status changes; its commands wait and are sent again.
SwitchConnection(i) ==
    /\ "down" \in Troubles
    /\ Len(wire[i]) < MaxWire
    /\ up' = [up EXCEPT ![i] = ~@]
    /\ calm' = FALSE
    /\ UNCHANGED <<document, redis, wire, memory, inFlight, reader, writer, fetches>>

-----------------------------------------------------------------------------
ReaderNext(r) == ReadRedis(r) \/ ReadMemory(r) \/ GetTimesOut(r) \/ Return(r)

WriterNext(w) ==
    \/ Write(w) \/ InvalidateTimesOut(w)
    \/ \E i \in Replicas : InvalidateRedis(w, i) \/ InvalidateMemory(w, i)

AnswerNext(i) == AnswerGet(i) \/ AnswerSet(i) \/ AnswerScan(i) \/ AnswerDel(i)

ReplicaNext(i) ==
    \/ FetchReads(i) \/ FetchReturns(i) \/ FetchFails(i) \/ SetTimesOut(i)
    \/ AnswerNext(i)
    \/ ExpireMemory(i) \/ SwitchConnection(i)

Next ==
    \/ \E r \in Readers : ReaderNext(r)
    \/ \E w \in Writers : WriterNext(w)
    \/ \E i \in Replicas : ReplicaNext(i)
    \/ ExpireRedis

Spec == Init /\ [][Next]_vars

\* Timers run, MongoDB answers or fails, and an entry that nobody renews
\* expires. Nothing is assumed of Redis.
Timers ==
    /\ \A r \in Readers : WF_vars(GetTimesOut(r))
    /\ \A i \in Replicas :
         /\ WF_vars(FetchReads(i)) /\ WF_vars(FetchReturns(i) \/ FetchFails(i))
         /\ WF_vars(SetTimesOut(i)) /\ WF_vars(ExpireMemory(i))
    /\ WF_vars(ExpireRedis)

LiveSpec == Spec /\ Timers

-----------------------------------------------------------------------------
(* Properties                                                              *)

\* Every variable holds a value of the types above.
TypeOK ==
    /\ document \in Version
    /\ redis \in Copy
    /\ up \in [Replicas -> BOOLEAN]
    /\ wire \in [Replicas -> Seq(Command)]
    /\ memory \in [Replicas -> Copy]
    /\ inFlight \in [Replicas -> Flight \cup {None}]
    /\ reader \in [Readers -> Reader]
    /\ writer \in [Writers -> Writer]
    /\ fetches \in [Replicas -> 0..2]
    /\ calm \in BOOLEAN

\* Once warm, the cache stays warm: as long as nothing is written, expires or
\* goes wrong, a replica fetches the key once, however its calls interleave
\* with the answers of Redis ("a request arriving mid-write still joins").
FetchedOnce == calm => \A i \in Replicas : fetches[i] <= 1

\* A call never hangs, though Redis does: it ends in bounded time with
\* MongoDB's answer or its error.
ReadsEnd == \A r \in Readers : reader[r] \in {"get", "join"} ~> reader[r] \in {"idle", "done"}

\* Stale copies do not outlive their time to live: when writes have stopped,
\* every copy that can be served is in the end the document's version, in
\* whatever order late commands are executed.
FreshInTheEnd ==
    <>[](/\ redis \in {None, document}
         /\ \A i \in Replicas : memory[i] \in {None, document})

=============================================================================
