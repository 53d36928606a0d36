---------------------------- MODULE CacheAsideProofs ----------------------------
(***************************************************************************)
(* Proofs about CacheAside, for any replicas, readers, writers and bounds, *)
(* and whatever the troubles: types, a warm key is fetched once, nobody    *)
(* waits for what nobody will do, and when a stale copy is condemned.      *)
(***************************************************************************)
EXTENDS CacheAside, TLAPS

\* Why a warm replica does not fetch again: nobody writes, nothing but GETs of
\* waiting readers and SETs is on a wire, and a replica that has fetched has the
\* flight still, or the cache it reads holds a value.
Reads(i) ==
    \A n \in DOMAIN wire[i] :
        \/ wire[i][n].op = "set"
        \/ wire[i][n].op = "get" /\ wire[i][n].by \in Readers /\ Home(wire[i][n].by) = i

Filled(i) == IF up[i] THEN redis # None ELSE memory[i] # None

Warm(i) ==
    /\ Reads(i)
    /\ ~up[i] => wire[i] = <<>>
    /\ fetches[i] <= 1
    /\ fetches[i] = 1 => inFlight[i] # None \/ Filled(i)

WarmInv ==
    calm => /\ \A w \in Writers : writer[w] = IdleWriter
            /\ \A i \in Replicas : Warm(i)

IInv == TypeOK /\ WarmInv

-----------------------------------------------------------------------------
(* Types *)

LEMMA HomeType ==
  ASSUME NEW r \in Readers
  PROVE  Home(r) \in Replicas
BY ReadersType DEF Home

LEMMA NoneApart ==
  /\ None \notin Nat /\ None \notin Version /\ None \notin Readers
  /\ None \notin Replicas /\ None \notin Writers
BY NoneIsNobody DEF Version

\* A command nobody waits for any more is a command.
LEMMA AbandonedCommand ==
  ASSUME NEW c \in Command
  PROVE  [c EXCEPT !.by = None] \in Command
<1>1. CASE c \in [op : {"get"}, by : Readers \cup {None}]
  BY <1>1 DEF Command
<1>2. CASE c \in [op : {"set"}, by : Replicas \cup {None}, version : Version]
  BY <1>2 DEF Command
<1>3. CASE c \in [op : {"scan"}, by : Writers \cup {None}]
  BY <1>3 DEF Command
<1>4. CASE c \in [op : {"del"}, by : Writers \cup {None}]
  BY <1>4 DEF Command
<1> QED
  BY <1>1, <1>2, <1>3, <1>4 DEF Command

LEMMA AbandonedType ==
  ASSUME NEW queue \in Seq(Command), NEW who
  PROVE  Abandoned(queue, who) \in Seq(Command)
<1>1. \A n \in 1..Len(queue) : queue[n] \in Command /\ [queue[n] EXCEPT !.by = None] \in Command
  BY AbandonedCommand
<1>2. DOMAIN queue = 1..Len(queue) /\ Len(queue) \in Nat
  OBVIOUS
<1> QED
  BY <1>1, <1>2 DEF Abandoned

\* The oldest command of a wire, and what is left without it.
LEMMA HeadType ==
  ASSUME TypeOK, NEW i \in Replicas, wire[i] # <<>>
  PROVE  /\ Head(wire[i]) \in Command
         /\ Tail(wire[i]) \in Seq(Command)
BY DEF TypeOK

\* What each kind of command carries.
LEMMA CommandFields ==
  ASSUME NEW c \in Command
  PROVE  /\ c.op = "get" => c.by \in Readers \cup {None}
         /\ c.op = "set" => c.by \in Replicas \cup {None} /\ c.version \in Version
         /\ c.op \in {"scan", "del"} => c.by \in Writers \cup {None}
BY DEF Command

LEMMA CommandTypes ==
  /\ \A r \in Readers : [op |-> "get", by |-> r] \in Command
  /\ \A i \in Replicas \cup {None}, v \in Version : [op |-> "set", by |-> i, version |-> v] \in Command
  /\ \A w \in Writers \cup {None} :
       [op |-> "scan", by |-> w] \in Command /\ [op |-> "del", by |-> w] \in Command
BY DEF Command

LEMMA FlightTypes ==
  /\ [phase |-> "fetch"] \in Flight
  /\ \A v \in Version : /\ [phase |-> "fetched", version |-> v] \in Flight
                        /\ [phase |-> "write", version |-> v] \in Flight
  /\ \A f \in Flight : f.phase \in {"fetched", "write"} => f.version \in Version
BY DEF Flight


\* The one place a reader's copy, a flight and the count of fetches change.
LEMMA JoinType ==
  ASSUME TypeOK, NEW r \in Readers, JoinOrFetch(r)
  PROVE  /\ reader' \in [Readers -> Reader]
         /\ inFlight' \in [Replicas -> Flight \cup {None}]
         /\ fetches' \in [Replicas -> 0..2]
<1>1. Joined(r) \in Reader
  BY DEF Joined, Reader
<1>2. reader' \in [Readers -> Reader]
  BY <1>1 DEF JoinOrFetch, TypeOK
<1>3. CASE inFlight[Home(r)] = None
  <2>1. inFlight' \in [Replicas -> Flight \cup {None}]
    BY <1>3, FlightTypes DEF JoinOrFetch, TypeOK
  <2>2. fetches' \in [Replicas -> 0..2]
    <3>1. fetches' = [fetches EXCEPT ![Home(r)] = IF @ = 0 THEN 1 ELSE 2]
      BY <1>3 DEF JoinOrFetch
    <3>2. (IF fetches[Home(r)] = 0 THEN 1 ELSE 2) \in 0..2
      OBVIOUS
    <3> QED
      BY <3>1, <3>2 DEF TypeOK
  <2> QED
    BY <1>2, <2>1, <2>2
<1>4. CASE inFlight[Home(r)] # None
  BY <1>2, <1>4 DEF JoinOrFetch, TypeOK
<1> QED
  BY <1>3, <1>4

LEMMA IssueType ==
  ASSUME TypeOK, NEW i \in Replicas, NEW c \in Command, Issue(i, c)
  PROVE  wire' \in [Replicas -> Seq(Command)]
BY DEF TypeOK, Issue

LEMMA ExecutedType ==
  ASSUME TypeOK, NEW i \in Replicas, wire[i] # <<>>, Executed(i)
  PROVE  wire' \in [Replicas -> Seq(Command)]
BY HeadType DEF TypeOK, Executed

LEMMA GiveUpType ==
  ASSUME TypeOK, NEW i \in Replicas, NEW who,
         wire' = [wire EXCEPT ![i] = Abandoned(@, who)]
  PROVE  wire' \in [Replicas -> Seq(Command)]
<1>1. Abandoned(wire[i], who) \in Seq(Command)
  BY AbandonedType DEF TypeOK
<1> QED
  BY <1>1 DEF TypeOK

LEMMA WriterTypes ==
  /\ IdleWriter \in Writer /\ [pc |-> "wrote"] \in Writer
  /\ \A i \in Replicas : [pc |-> "clear", at |-> i] \in Writer
  /\ \A w \in Writer : w.pc = "clear" => w.at \in Replicas
BY DEF Writer, IdleWriter

LEMMA SettleType ==
  ASSUME TypeOK, NEW w, Settle(w)
  PROVE  writer' \in [Writers -> Writer]
BY WriterTypes DEF TypeOK, Settle

\* A reader's step keeps the types.
LEMMA ReaderTypes ==
  ASSUME TypeOK, NEW r \in Readers, ReaderNext(r)
  PROVE  TypeOK'
<1>1. Home(r) \in Replicas
  BY HomeType
<1>2. CASE ReadRedis(r)
  <2>1. wire' \in [Replicas -> Seq(Command)]
    BY <1>1, <1>2, CommandTypes, IssueType DEF ReadRedis
  <2> QED
    BY <1>2, <2>1 DEF ReadRedis, TypeOK, Reader
<1>3. CASE ReadMemory(r)
  <2>1. CASE memory[Home(r)] # None
    BY <1>3, <2>1 DEF ReadMemory, TypeOK, Reader
  <2>2. CASE memory[Home(r)] = None
    BY <1>3, <2>2, JoinType DEF ReadMemory, TypeOK
  <2> QED
    BY <2>1, <2>2
<1>4. CASE GetTimesOut(r)
  <2>1. wire' \in [Replicas -> Seq(Command)]
    BY <1>1, <1>4, GiveUpType DEF GetTimesOut
  <2> QED
    BY <1>4, <2>1, JoinType DEF GetTimesOut, TypeOK
<1>5. CASE Return(r)
  BY <1>5 DEF Return, TypeOK, Reader
<1> QED
  BY <1>2, <1>3, <1>4, <1>5 DEF ReaderNext

\* So does a writer's.
LEMMA WriterStepTypes ==
  ASSUME TypeOK, NEW w \in Writers, WriterNext(w)
  PROVE  TypeOK'
<1>1. CASE Write(w)
  <2>1. writer' \in [Writers -> Writer]
    BY <1>1, WriterTypes DEF Write, TypeOK
  <2>2. document' \in Version
    BY <1>1, BoundsNat DEF Write, TypeOK, Version
  <2> QED
    BY <1>1, <2>1, <2>2 DEF Write, TypeOK
<1>2. CASE InvalidateTimesOut(w)
  <2>1. writer[w].at \in Replicas
    BY <1>2, WriterTypes DEF InvalidateTimesOut, TypeOK
  <2>2. wire' \in [Replicas -> Seq(Command)]
    BY <1>2, <2>1, GiveUpType DEF InvalidateTimesOut
  <2> QED
    BY <1>2, <2>2, SettleType DEF InvalidateTimesOut, TypeOK
<1>3. ASSUME NEW i \in Replicas, InvalidateRedis(w, i)
      PROVE  TypeOK'
  <2>1. wire' \in [Replicas -> Seq(Command)]
    BY <1>3, CommandTypes, IssueType DEF InvalidateRedis
  <2>2. writer' \in [Writers -> Writer]
    BY <1>3, WriterTypes DEF InvalidateRedis, TypeOK
  <2> QED
    BY <1>3, <2>1, <2>2 DEF InvalidateRedis, TypeOK
<1>4. ASSUME NEW i \in Replicas, InvalidateMemory(w, i)
      PROVE  TypeOK'
  BY <1>4, SettleType DEF InvalidateMemory, TypeOK, Copy
<1> QED
  BY <1>1, <1>2, <1>3, <1>4 DEF WriterNext

\* And a replica's own, or an answer of Redis on its connection.
LEMMA ReplicaTypes ==
  ASSUME TypeOK, NEW i \in Replicas, ReplicaNext(i)
  PROVE  TypeOK'
<1>1. CASE FetchReads(i)
  BY <1>1, FlightTypes DEF FetchReads, TypeOK
<1>2. CASE FetchReturns(i)
  <2>1. inFlight[i].version \in Version
    BY <1>2, FlightTypes DEF FetchReturns, TypeOK
  <2>2. reader' \in [Readers -> Reader]
    BY <1>2 DEF FetchReturns, Served, TypeOK, Reader
  <2>3. CASE up[i]
    <3>1. wire' \in [Replicas -> Seq(Command)]
      BY <1>2, <2>1, <2>3, CommandTypes, IssueType DEF FetchReturns
    <3>2. inFlight' \in [Replicas -> Flight \cup {None}]
      BY <1>2, <2>1, <2>3, FlightTypes DEF FetchReturns, TypeOK
    <3> QED
      BY <1>2, <2>2, <2>3, <3>1, <3>2 DEF FetchReturns, TypeOK
  <2>4. CASE ~up[i]
    BY <1>2, <2>1, <2>2, <2>4 DEF FetchReturns, TypeOK, Copy
  <2> QED
    BY <2>3, <2>4
<1>3. CASE FetchFails(i)
  BY <1>3 DEF FetchFails, TypeOK, Reader
<1>4. CASE SetTimesOut(i)
  BY <1>4, GiveUpType DEF SetTimesOut, TypeOK
<1>5. ASSUME NEW op, Answer(i, op), Executed(i)
      PROVE  wire' \in [Replicas -> Seq(Command)]
  BY <1>5, ExecutedType DEF Answer
<1>6. CASE AnswerGet(i)
  <2>1. wire' \in [Replicas -> Seq(Command)]
    BY <1>5, <1>6 DEF AnswerGet
  <2>2. Head(wire[i]).by # None => Head(wire[i]).by \in Readers
    BY <1>6, HeadType, CommandFields DEF AnswerGet, Answer
  <2>3. /\ reader' \in [Readers -> Reader]
        /\ inFlight' \in [Replicas -> Flight \cup {None}]
        /\ fetches' \in [Replicas -> 0..2]
    <3>1. CASE Head(wire[i]).by = None
      BY <1>6, <3>1 DEF AnswerGet, TypeOK
    <3>2. CASE Head(wire[i]).by # None /\ redis # None
      BY <1>6, <3>2 DEF AnswerGet, TypeOK, Reader
    <3>3. CASE Head(wire[i]).by # None /\ redis = None
      BY <1>6, <2>2, <3>3, JoinType DEF AnswerGet
    <3> QED
      BY <3>1, <3>2, <3>3
  <2> QED
    BY <1>6, <2>1, <2>3 DEF AnswerGet, TypeOK
<1>7. CASE AnswerSet(i)
  <2>1. wire' \in [Replicas -> Seq(Command)]
    BY <1>5, <1>7 DEF AnswerSet
  <2>2. redis' \in Copy
    BY <1>7, HeadType, CommandFields DEF AnswerSet, Answer, Copy
  <2> QED
    BY <1>7, <2>1, <2>2 DEF AnswerSet, TypeOK
<1>8. CASE AnswerScan(i)
  <2>1. Head(wire[i]).by \in Writers \cup {None}
    BY <1>8, HeadType, CommandFields DEF AnswerScan, Answer
  <2>2. wire' \in [Replicas -> Seq(Command)]
    <3>1. CASE redis # None
      <4>1. Append(Tail(wire[i]), [op |-> "del", by |-> Head(wire[i]).by]) \in Seq(Command)
        <5>1. Tail(wire[i]) \in Seq(Command)
          BY <1>8, HeadType DEF AnswerScan, Answer
        <5>2. [op |-> "del", by |-> Head(wire[i]).by] \in Command
          BY <2>1, CommandTypes
        <5> QED
          BY <5>1, <5>2
      <4>2. wire' = [wire EXCEPT ![i] = Append(Tail(@), [op |-> "del", by |-> Head(wire[i]).by])]
        BY <1>8, <3>1 DEF AnswerScan
      <4> QED
        BY <4>1, <4>2 DEF TypeOK
    <3>2. CASE redis = None
      BY <1>5, <1>8, <3>2 DEF AnswerScan
    <3> QED
      BY <3>1, <3>2
  <2>3. writer' \in [Writers -> Writer]
    BY <1>8, SettleType DEF AnswerScan, TypeOK
  <2> QED
    BY <1>8, <2>2, <2>3 DEF AnswerScan, TypeOK
<1>9. CASE AnswerDel(i)
  <2>1. wire' \in [Replicas -> Seq(Command)]
    BY <1>5, <1>9 DEF AnswerDel
  <2>2. writer' \in [Writers -> Writer]
    BY <1>9, SettleType DEF AnswerDel, TypeOK
  <2> QED
    BY <1>9, <2>1, <2>2 DEF AnswerDel, TypeOK, Copy
<1>10. CASE ExpireMemory(i)
  BY <1>10 DEF ExpireMemory, TypeOK, Copy
<1>11. CASE SwitchConnection(i)
  BY <1>11 DEF SwitchConnection, TypeOK
<1> QED
  BY <1>1, <1>2, <1>3, <1>4, <1>6, <1>7, <1>8, <1>9, <1>10, <1>11 DEF ReplicaNext, AnswerNext

\* The copies, commands and calls that cache.util, its callers and Redis hold keep
\* their shapes, whatever answer is late or lost.
THEOREM TypeCorrect == Spec => []TypeOK
<1>1. Init => TypeOK
  <2> SUFFICES ASSUME Init
               PROVE  TypeOK
    OBVIOUS
  <2>1. document \in Version /\ redis \in Copy
    BY BoundsNat DEF Init, Version, Copy
  <2>2. up \in [Replicas -> BOOLEAN]
    BY DEF Init
  <2>3. /\ wire \in [Replicas -> Seq(Command)] /\ memory \in [Replicas -> Copy]
        /\ inFlight \in [Replicas -> Flight \cup {None}]
    BY DEF Init, Copy
  <2>4. /\ reader \in [Readers -> Reader] /\ writer \in [Writers -> Writer]
        /\ fetches \in [Replicas -> 0..2] /\ calm \in BOOLEAN
    BY WriterTypes DEF Init, Reader
  <2> QED
    BY <2>1, <2>2, <2>3, <2>4 DEF TypeOK
<1>2. TypeOK /\ [Next]_vars => TypeOK'
  <2> SUFFICES ASSUME TypeOK, [Next]_vars
               PROVE  TypeOK'
    OBVIOUS
  <2>1. CASE \E r \in Readers : ReaderNext(r)
    BY <2>1, ReaderTypes
  <2>2. CASE \E w \in Writers : WriterNext(w)
    BY <2>2, WriterStepTypes
  <2>3. CASE \E i \in Replicas : ReplicaNext(i)
    BY <2>3, ReplicaTypes
  <2>4. CASE ExpireRedis
    BY <2>4 DEF ExpireRedis, TypeOK, Copy
  <2>5. CASE UNCHANGED vars
    BY <2>5 DEF vars, TypeOK
  <2> QED
    BY <2>1, <2>2, <2>3, <2>4, <2>5 DEF Next
<1> QED
  BY <1>1, <1>2, PTL DEF Spec

-----------------------------------------------------------------------------
(* A warm key *)

\* What a wire carries that has lost its oldest command, or gained a GET or SET.
LEMMA TailReads ==
  ASSUME TypeOK, NEW i \in Replicas, wire[i] # <<>>, Reads(i), Executed(i)
  PROVE  Reads(i)'
<1>1. /\ wire'[i] = Tail(wire[i]) /\ wire[i] \in Seq(Command)
  BY DEF Executed, TypeOK
<1>2. \A n \in DOMAIN wire'[i] : n + 1 \in DOMAIN wire[i] /\ wire'[i][n] = wire[i][n + 1]
  BY <1>1
<1> QED
  BY <1>2 DEF Reads

LEMMA IssueReads ==
  ASSUME TypeOK, NEW i \in Replicas, NEW c \in Command, Reads(i), Issue(i, c),
         \/ c.op = "set"
         \/ c.op = "get" /\ c.by \in Readers /\ Home(c.by) = i
  PROVE  Reads(i)'
<1>1. /\ wire'[i] = Append(wire[i], c) /\ wire[i] \in Seq(Command)
  BY DEF Issue, TypeOK
<1>2. \A n \in DOMAIN wire'[i] : \/ n \in DOMAIN wire[i] /\ wire'[i][n] = wire[i][n]
                                 \/ wire'[i][n] = c
  BY <1>1
<1> QED
  BY <1>2 DEF Reads

\* The oldest command of a warm replica is a GET or a SET.
LEMMA HeadReads ==
  ASSUME TypeOK, NEW i \in Replicas, Reads(i), wire[i] # <<>>
  PROVE  \/ Head(wire[i]).op = "set"
         \/ /\ Head(wire[i]).op = "get"
            /\ Head(wire[i]).by \in Readers /\ Home(Head(wire[i]).by) = i
<1>1. wire[i] \in Seq(Command) /\ 1 \in DOMAIN wire[i] /\ Head(wire[i]) = wire[i][1]
  BY DEF TypeOK
<1> QED
  BY <1>1 DEF Reads

\* A replica that a step leaves alone stays warm, if Redis keeps or gains a value.
LEMMA WarmElsewhere ==
  ASSUME TypeOK, NEW j \in Replicas, Warm(j),
         wire'[j] = wire[j], fetches'[j] = fetches[j], inFlight'[j] = inFlight[j],
         memory'[j] = memory[j], up' = up, redis # None => redis' # None
  PROVE  Warm(j)'
BY DEF Warm, Reads, Filled

\* Whoever finds nothing fetches only if nobody has.
LEMMA JoinWarm ==
  ASSUME TypeOK, NEW r \in Readers, Warm(Home(r)), ~Filled(Home(r)), JoinOrFetch(r),
         UNCHANGED up,
         Reads(Home(r))', ~up[Home(r)] => wire'[Home(r)] = <<>>
  PROVE  Warm(Home(r))'
<1> DEFINE i == Home(r)
<1>1. i \in Replicas
  BY HomeType
<1>2. CASE inFlight[i] = None
  <2>1. fetches[i] \in 0..2 /\ fetches[i] # 1 /\ fetches[i] <= 1
    BY <1>1, <1>2 DEF Warm, TypeOK
  <2>2. fetches[i] = 0
    BY <2>1
  <2>3. fetches'[i] = 1 /\ inFlight'[i] = [phase |-> "fetch"]
    BY <1>1, <1>2, <2>2 DEF JoinOrFetch, TypeOK
  <2> QED
    BY <2>3, FlightTypes, NoneIsNoFlight DEF Warm
<1>3. CASE inFlight[i] # None
  BY <1>3 DEF Warm, JoinOrFetch
<1> QED
  BY <1>2, <1>3

\* What an action changes on other replicas than i.
Apart(i) ==
    \A j \in Replicas \ {i} :
        /\ wire'[j] = wire[j] /\ fetches'[j] = fetches[j]
        /\ inFlight'[j] = inFlight[j] /\ memory'[j] = memory[j]

\* A calm step of replica i keeps everyone warm if it keeps i warm.
LEMMA WarmStep ==
  ASSUME IInv, calm, NEW i \in Replicas, Apart(i), UNCHANGED <<writer, up>>,
         redis # None => redis' # None, Warm(i)'
  PROVE  WarmInv'
<1>1. \A j \in Replicas \ {i} : Warm(j)'
  <2> TAKE j \in Replicas \ {i}
  <2> QED
    BY WarmElsewhere DEF IInv, WarmInv, Apart
<1> QED
  BY <1>1 DEF IInv, WarmInv

\* A reader, on its own replica.
LEMMA ReaderWarm ==
  ASSUME IInv, calm, NEW r \in Readers, ReaderNext(r), calm'
  PROVE  WarmInv'
<1> DEFINE i == Home(r)
<1>1. i \in Replicas /\ Warm(i) /\ TypeOK
  BY HomeType DEF IInv, WarmInv
<1>2. CASE ReadRedis(r)
  <2>1. Reads(i)'
    BY <1>1, <1>2, CommandTypes, IssueReads DEF ReadRedis, Warm
  <2>2. Warm(i)'
    BY <1>1, <1>2, <2>1 DEF ReadRedis, Warm, Filled
  <2>3. Apart(i)
    BY <1>1, <1>2 DEF ReadRedis, Issue, Apart, TypeOK
  <2> QED
    BY <1>1, <1>2, <2>2, <2>3, WarmStep DEF ReadRedis
<1>3. CASE ReadMemory(r)
  <2>1. Apart(i)
    BY <1>1, <1>3 DEF ReadMemory, JoinOrFetch, Apart, TypeOK
  <2>2. CASE memory[i] # None
    <3>1. Warm(i)'
      BY <1>1, <1>3, <2>2 DEF ReadMemory, Warm, Reads, Filled
    <3> QED
      BY <1>1, <1>3, <2>1, <3>1, WarmStep DEF ReadMemory
  <2>3. CASE memory[i] = None
    <3>1. Reads(i)' /\ (~up[i] => wire'[i] = <<>>)
      BY <1>1, <1>3 DEF ReadMemory, Warm, Reads
    <3>2. ~Filled(i) /\ JoinOrFetch(r) /\ UNCHANGED up
      BY <1>3, <2>3 DEF ReadMemory, Filled
    <3>3. Warm(i)'
      BY <1>1, <3>1, <3>2, JoinWarm
    <3> QED
      BY <1>1, <1>3, <2>1, <3>3, WarmStep DEF ReadMemory
  <2> QED
    BY <2>2, <2>3
<1>4. CASE GetTimesOut(r)
  BY <1>4 DEF GetTimesOut
<1>5. CASE Return(r)
  BY <1>5 DEF Return, IInv, WarmInv, Warm, Reads, Filled
<1> QED
  BY <1>2, <1>3, <1>4, <1>5 DEF ReaderNext

\* A writer: while calm, none is under way.
LEMMA WriterWarm ==
  ASSUME IInv, calm, NEW w \in Writers, WriterNext(w), calm'
  PROVE  WarmInv'
<1>1. writer[w] = IdleWriter /\ writer[w].pc = "idle"
  BY DEF IInv, WarmInv, IdleWriter
<1> QED
  BY <1>1 DEF WriterNext, Write, InvalidateTimesOut, InvalidateRedis, InvalidateMemory

\* A replica, and what Redis answers it.
LEMMA ReplicaWarm ==
  ASSUME IInv, calm, NEW i \in Replicas, ReplicaNext(i), calm'
  PROVE  WarmInv'
<1>1. Warm(i) /\ TypeOK /\ Reads(i)
  BY DEF IInv, WarmInv, Warm
<1>2. CASE FetchReads(i)
  <2>1. Warm(i)'
    <3>1. inFlight'[i] \in Flight
      BY <1>1, <1>2, FlightTypes DEF FetchReads, TypeOK
    <3> QED
      BY <1>1, <1>2, <3>1, NoneIsNoFlight DEF FetchReads, Warm, Reads, Filled
  <2>2. Apart(i)
    BY <1>1, <1>2 DEF FetchReads, Apart, TypeOK
  <2> QED
    BY <1>2, <2>1, <2>2, WarmStep DEF FetchReads
<1>3. CASE FetchReturns(i)
  <2>1. inFlight[i].version \in Version
    BY <1>1, <1>3, FlightTypes DEF FetchReturns, TypeOK
  <2>2. Apart(i)
    BY <1>1, <1>3 DEF FetchReturns, Issue, Apart, TypeOK
  <2>3. CASE up[i]
    <3>1. Reads(i)'
      BY <1>1, <1>3, <2>1, <2>3, CommandTypes, IssueReads DEF FetchReturns
    <3>2. inFlight'[i] \in Flight
      BY <1>1, <1>3, <2>1, <2>3, FlightTypes DEF FetchReturns, TypeOK
    <3>3. Warm(i)'
      BY <1>1, <1>3, <2>3, <3>1, <3>2, NoneIsNoFlight DEF FetchReturns, Warm
    <3> QED
      BY <1>3, <2>2, <3>3, WarmStep DEF FetchReturns
  <2>4. CASE ~up[i]
    <3>1. memory'[i] # None
      BY <1>1, <1>3, <2>1, <2>4, NoneApart DEF FetchReturns, TypeOK
    <3>2. Warm(i)'
      BY <1>1, <1>3, <2>4, <3>1 DEF FetchReturns, Warm, Reads, Filled
    <3> QED
      BY <1>3, <2>2, <3>2, WarmStep DEF FetchReturns
  <2> QED
    BY <2>3, <2>4
<1>4. CASE AnswerNext(i)
  <2>1. wire[i] # <<>> /\ up[i]
    BY <1>1, <1>4 DEF AnswerNext, AnswerGet, AnswerSet, AnswerScan, AnswerDel, Answer, Warm
  <2>2. CASE AnswerGet(i)
    <3> DEFINE r == Head(wire[i]).by
    <3>1. r \in Readers /\ Home(r) = i /\ r # None
      BY <1>1, <2>1, <2>2, HeadReads, NoneApart DEF AnswerGet, Answer
    <3>2. Reads(i)'
      BY <1>1, <2>1, <2>2, TailReads DEF AnswerGet
    <3>3. Apart(i)
      BY <1>1, <2>2, <3>1 DEF AnswerGet, Executed, JoinOrFetch, Apart, TypeOK
    <3>4. CASE redis # None
      <4>1. Warm(i)'
        BY <1>1, <2>1, <2>2, <3>1, <3>2, <3>4 DEF AnswerGet, Warm, Filled
      <4> QED
        BY <2>2, <3>3, <4>1, WarmStep DEF AnswerGet
    <3>5. CASE redis = None
      <4>1. ~Filled(i) /\ JoinOrFetch(r) /\ UNCHANGED up
        BY <2>1, <2>2, <3>1, <3>5 DEF AnswerGet, Filled
      <4>2. Warm(i)'
        BY <1>1, <2>1, <3>1, <3>2, <4>1, JoinWarm
      <4> QED
        BY <2>2, <3>3, <4>2, WarmStep DEF AnswerGet
    <3> QED
      BY <3>4, <3>5
  <2>3. CASE AnswerSet(i)
    <3>1. redis' # None
      BY <1>1, <2>3, HeadType, CommandFields, NoneApart DEF AnswerSet, Answer
    <3>2. Reads(i)'
      BY <1>1, <2>1, <2>3, TailReads DEF AnswerSet
    <3>3. Warm(i)'
      BY <1>1, <2>1, <2>3, <3>1, <3>2 DEF AnswerSet, Warm, Filled
    <3>4. Apart(i)
      BY <1>1, <2>3 DEF AnswerSet, Executed, Apart, TypeOK
    <3> QED
      BY <2>3, <3>1, <3>3, <3>4, WarmStep DEF AnswerSet
  <2>4. CASE AnswerScan(i) \/ AnswerDel(i)
    BY <1>1, <2>1, <2>4, HeadReads DEF AnswerScan, AnswerDel, Answer
  <2> QED
    BY <1>4, <2>2, <2>3, <2>4 DEF AnswerNext
<1>5. CASE FetchFails(i) \/ SetTimesOut(i) \/ ExpireMemory(i) \/ SwitchConnection(i)
  BY <1>5 DEF FetchFails, SetTimesOut, ExpireMemory, SwitchConnection
<1> QED
  BY <1>2, <1>3, <1>4, <1>5 DEF ReplicaNext

\* The cache stays warm until something is written, expires or goes wrong.
THEOREM WarmCorrect == Spec => []WarmInv
<1>1. Init => WarmInv
  BY DEF Init, WarmInv, Warm, Reads
<1>2. TypeOK /\ WarmInv /\ [Next]_vars => WarmInv'
  <2> SUFFICES ASSUME IInv, [Next]_vars, calm'
               PROVE  WarmInv'
    BY DEF IInv, WarmInv
  <2>1. CASE UNCHANGED vars
    BY <2>1 DEF vars, IInv, WarmInv, Warm, Reads, Filled
  <2>2. CASE Next
    <3>1. calm
      BY <2>2 DEF Next, ReaderNext, ReadRedis, ReadMemory, GetTimesOut, Return, WriterNext, Write,
         InvalidateTimesOut, InvalidateRedis, InvalidateMemory, ReplicaNext, FetchReads,
         FetchReturns, FetchFails, SetTimesOut, AnswerNext, AnswerGet, AnswerSet, AnswerScan,
         AnswerDel, ExpireMemory, SwitchConnection, ExpireRedis
    <3>2. CASE \E r \in Readers : ReaderNext(r)
      BY <3>1, <3>2, ReaderWarm
    <3>3. CASE \E w \in Writers : WriterNext(w)
      BY <3>1, <3>3, WriterWarm
    <3>4. CASE \E i \in Replicas : ReplicaNext(i)
      BY <3>1, <3>4, ReplicaWarm
    <3>5. CASE ExpireRedis
      BY <3>5 DEF ExpireRedis
    <3> QED
      BY <2>2, <3>2, <3>3, <3>4, <3>5 DEF Next
  <2> QED
    BY <2>1, <2>2
<1> QED
  BY <1>1, <1>2, TypeCorrect, PTL DEF Spec

\* A warm key is fetched once by a replica of the API, however its calls join the
\* flight of cacheGetOrSet or come while its write is on the wire.
THEOREM WarmKeyFetchedOnce == Spec => []FetchedOnce
<1>1. WarmInv => FetchedOnce
  BY DEF WarmInv, Warm, FetchedOnce
<1> QED
  BY <1>1, WarmCorrect, PTL

-----------------------------------------------------------------------------
(* Nobody is forgotten *)

\* The commands on a connection, and what a flight is doing.
OnWire(i) == {wire[i][n] : n \in DOMAIN wire[i]}

Fetching(i) == inFlight[i] # None /\ inFlight[i].phase \in {"fetch", "fetched"}
Storing(i) == inFlight[i] # None /\ inFlight[i].phase = "write"

\* Who waits waits for something that is under way: a call for its GET or for
\* the fetch of its replica's flight, a handler for its SCAN or its DEL, a flight
\* for the SET of what it fetched.
ReaderAttended(r) ==
    /\ reader[r] = "get" => [op |-> "get", by |-> r] \in OnWire(Home(r))
    /\ reader[r] = "join" => Fetching(Home(r))

WriterAttended(w) ==
    writer[w].pc = "clear" =>
        \E op \in {"scan", "del"} : [op |-> op, by |-> w] \in OnWire(writer[w].at)

FlightAttended(i) ==
    Storing(i) => [op |-> "set", by |-> i, version |-> inFlight[i].version] \in OnWire(i)

NobodyForgotten ==
    /\ \A r \in Readers : ReaderAttended(r)
    /\ \A w \in Writers : WriterAttended(w)
    /\ \A i \in Replicas : FlightAttended(i)

\* Why: an answered SET ends its own flight and no later one. A SET still
\* awaited is the one SET of a flight that is storing.
LiveSet(i, n) == wire[i][n].op = "set" /\ wire[i][n].by # None

OneSet(i) ==
    \A m \in DOMAIN wire[i] :
        LiveSet(i, m) => /\ wire[i][m].by = i /\ Storing(i)
                         /\ \A n \in DOMAIN wire[i] : LiveSet(i, n) => n = m

WaitInv == NobodyForgotten /\ \A i \in Replicas : OneSet(i)

\* What a step does to the commands on the wires: it adds one,
LEMMA IssueWire ==
  ASSUME TypeOK, NEW i \in Replicas, NEW c, Issue(i, c)
  PROVE  /\ \A j \in Replicas : OnWire(j) \subseteq OnWire(j)'
         /\ c \in OnWire(i)'
<1>1. wire[i] \in Seq(Command) /\ wire' = [wire EXCEPT ![i] = Append(wire[i], c)] /\ wire'[i] = Append(wire[i], c)
  BY DEF TypeOK, Issue
<1>2. DOMAIN wire'[i] = 1..(Len(wire[i]) + 1) /\ Len(wire[i]) \in Nat /\ DOMAIN wire[i] = 1..Len(wire[i])
  BY <1>1
<1>3. (\A n \in DOMAIN wire[i] : wire'[i][n] = wire[i][n]) /\ wire'[i][Len(wire[i]) + 1] = c
  BY <1>1
<1>4. \A j \in Replicas \ {i} : wire'[j] = wire[j]
  BY <1>1 DEF TypeOK
<1> QED
  BY <1>2, <1>3, <1>4 DEF OnWire

\* removes the oldest, perhaps for another,
LEMMA ExecutedWire ==
  ASSUME TypeOK, NEW i \in Replicas, wire[i] # <<>>,
         Executed(i) \/ \E c : wire' = [wire EXCEPT ![i] = Append(Tail(@), c)]
  PROVE  \A j \in Replicas : \A c \in OnWire(j) :
             j # i \/ c # Head(wire[i]) => c \in OnWire(j)'
<1>1. wire[i] \in Seq(Command) /\ Len(wire[i]) \in Nat \ {0} /\ DOMAIN wire[i] = 1..Len(wire[i])
  BY DEF TypeOK
<1>2. \A j \in Replicas \ {i} : wire'[j] = wire[j]
  BY DEF TypeOK, Executed
<1>3. \A n \in 1..(Len(wire[i]) - 1) : n \in DOMAIN wire'[i] /\ wire'[i][n] = wire[i][n + 1]
  <2>1. CASE Executed(i)
    <3>1. wire'[i] = Tail(wire[i])
      BY <2>1 DEF Executed, TypeOK
    <3> QED
      BY <1>1, <3>1
  <2>2. ASSUME NEW c, wire' = [wire EXCEPT ![i] = Append(Tail(@), c)]
        PROVE  \A n \in 1..(Len(wire[i]) - 1) : n \in DOMAIN wire'[i] /\ wire'[i][n] = wire[i][n + 1]
    <3>1. wire'[i] = Append(Tail(wire[i]), c)
      BY <2>2 DEF TypeOK
    <3>2. Tail(wire[i]) \in Seq(Command) /\ Len(Tail(wire[i])) = Len(wire[i]) - 1
      BY <1>1
    <3>3. \A n \in 1..(Len(wire[i]) - 1) : Tail(wire[i])[n] = wire[i][n + 1]
      BY <1>1
    <3>4. DOMAIN wire'[i] = 1..Len(wire[i]) /\ \A n \in 1..(Len(wire[i]) - 1) : wire'[i][n] = Tail(wire[i])[n]
      BY <1>1, <3>1, <3>2
    <3> QED
      BY <1>1, <3>3, <3>4
  <2> QED
    BY <2>1, <2>2
<1>4. \A m \in DOMAIN wire[i] : m = 1 \/ (m - 1 \in 1..(Len(wire[i]) - 1) /\ m = (m - 1) + 1)
  BY <1>1
<1>5. Head(wire[i]) = wire[i][1]
  BY <1>1
<1>6. ASSUME NEW m \in DOMAIN wire[i], wire[i][m] # Head(wire[i])
      PROVE  wire[i][m] \in OnWire(i)'
  <2>1. m - 1 \in 1..(Len(wire[i]) - 1) /\ m = (m - 1) + 1
    BY <1>4, <1>5, <1>6
  <2>2. m - 1 \in DOMAIN wire'[i] /\ wire'[i][m - 1] = wire[i][m]
    BY <1>3, <2>1
  <2> QED
    BY <2>2 DEF OnWire
<1>7. \A c \in OnWire(i) : c # Head(wire[i]) => c \in OnWire(i)'
  BY <1>6 DEF OnWire
<1>8. \A j \in Replicas \ {i} : \A c \in OnWire(j) : c \in OnWire(j)'
  BY <1>2 DEF OnWire
<1> QED
  BY <1>7, <1>8

\* or takes the name off those somebody has given up.
LEMMA GiveUpWire ==
  ASSUME TypeOK, NEW i \in Replicas, NEW who,
         wire' = [wire EXCEPT ![i] = Abandoned(@, who)]
  PROVE  \A j \in Replicas : \A c \in OnWire(j) : c.by # who => c \in OnWire(j)'
<1>1. wire'[i] = Abandoned(wire[i], who) /\ \A j \in Replicas \ {i} : wire'[j] = wire[j]
  BY DEF TypeOK
<1>2. DOMAIN wire'[i] = DOMAIN wire[i]
  BY <1>1 DEF Abandoned
<1>3. \A n \in DOMAIN wire[i] : wire[i][n].by # who => wire'[i][n] = wire[i][n]
  BY <1>1 DEF Abandoned
<1> QED
  BY <1>1, <1>2, <1>3 DEF OnWire

\* A SET still awaited after one of these steps was awaited before.
LEMMA IssueOneSet ==
  ASSUME TypeOK, NEW i \in Replicas, NEW c, Issue(i, c), c.op # "set",
         NEW j \in Replicas, OneSet(j), Storing(j) => Storing(j)'
  PROVE  OneSet(j)'
<1>1. CASE j # i
  <2>1. wire'[j] = wire[j]
    BY <1>1 DEF TypeOK, Issue
  <2> QED
    BY <2>1 DEF OneSet, LiveSet
<1>2. CASE j = i
  <2>1. wire[i] \in Seq(Command) /\ wire'[i] = Append(wire[i], c)
    BY DEF TypeOK, Issue
  <2>2. \A n \in DOMAIN wire'[i] : LiveSet(i, n)' => n \in DOMAIN wire[i] /\ LiveSet(i, n) /\ wire'[i][n] = wire[i][n]
    <3>1. \A n \in DOMAIN wire'[i] : (n \in DOMAIN wire[i] /\ wire'[i][n] = wire[i][n]) \/ wire'[i][n] = c
      BY <2>1
    <3> QED
      BY <3>1 DEF LiveSet
  <2> QED
    BY <1>2, <2>2 DEF OneSet
<1> QED
  BY <1>1, <1>2

LEMMA GiveUpOneSet ==
  ASSUME TypeOK, NEW i \in Replicas, NEW who,
         wire' = [wire EXCEPT ![i] = Abandoned(@, who)],
         NEW j \in Replicas, OneSet(j), Storing(j) => Storing(j)' \/ (j = i /\ who = i)
  PROVE  OneSet(j)'
<1>1. CASE j # i
  <2>1. wire'[j] = wire[j]
    BY <1>1 DEF TypeOK
  <2> QED
    BY <1>1, <2>1 DEF OneSet, LiveSet
<1>2. CASE j = i
  <2>1. wire[i] \in Seq(Command) /\ wire'[i] = Abandoned(wire[i], who)
    BY DEF TypeOK
  <2>2. DOMAIN wire'[i] = DOMAIN wire[i]
    BY <2>1 DEF Abandoned
  <2>3. \A n \in DOMAIN wire[i] : LiveSet(i, n)' => wire[i][n].by # who /\ wire'[i][n] = wire[i][n] /\ LiveSet(i, n)
    <3> TAKE n \in DOMAIN wire[i]
    <3>1. wire[i][n] \in Command
      BY <2>1
    <3>2. [wire[i][n] EXCEPT !.by = None].by = None
      BY <3>1 DEF Command
    <3> QED
      BY <2>1, <3>2 DEF Abandoned, LiveSet
  <2>4. \A n \in DOMAIN wire[i] : LiveSet(i, n)' => who # i
    BY <1>2, <2>3 DEF OneSet
  <2> QED
    BY <1>2, <2>2, <2>3, <2>4 DEF OneSet
<1> QED
  BY <1>1, <1>2

\* The wire without its oldest command, which may be the SET, and perhaps with a DEL.
LEMMA ExecutedOneSet ==
  ASSUME TypeOK, NEW i \in Replicas, wire[i] # <<>>,
         Executed(i) \/ \E c : c.op # "set" /\ wire' = [wire EXCEPT ![i] = Append(Tail(@), c)],
         NEW j \in Replicas, OneSet(j),
         Storing(j) => Storing(j)' \/ (j = i /\ LiveSet(i, 1))
  PROVE  OneSet(j)'
<1>1. CASE j # i
  <2>1. wire'[j] = wire[j]
    BY <1>1 DEF TypeOK, Executed
  <2> QED
    BY <1>1, <2>1 DEF OneSet, LiveSet
<1>2. CASE j = i
  <2>1. wire[i] \in Seq(Command) /\ Len(wire[i]) \in Nat \ {0} /\ 1 \in DOMAIN wire[i]
    BY DEF TypeOK
  <2>2. \A n \in DOMAIN wire'[i] : LiveSet(i, n)' =>
           n \in Nat \ {0} /\ n + 1 \in DOMAIN wire[i] /\ wire'[i][n] = wire[i][n + 1]
    <3>1. CASE Executed(i)
      <4>1. wire'[i] = Tail(wire[i])
        BY <3>1 DEF TypeOK, Executed
      <4> QED
        BY <2>1, <4>1
    <3>2. ASSUME NEW c, c.op # "set", wire' = [wire EXCEPT ![i] = Append(Tail(@), c)]
          PROVE  \A n \in DOMAIN wire'[i] : LiveSet(i, n)' =>
                    n \in Nat \ {0} /\ n + 1 \in DOMAIN wire[i] /\ wire'[i][n] = wire[i][n + 1]
      <4>1. wire'[i] = Append(Tail(wire[i]), c)
        BY <3>2 DEF TypeOK
      <4>2. Tail(wire[i]) \in Seq(Command) /\ Len(Tail(wire[i])) = Len(wire[i]) - 1
        BY <2>1
      <4>3. \A n \in 1..(Len(wire[i]) - 1) : Tail(wire[i])[n] = wire[i][n + 1] /\ n + 1 \in DOMAIN wire[i]
        BY <2>1
      <4>4. \A n \in DOMAIN wire'[i] : (n \in 1..(Len(wire[i]) - 1) /\ wire'[i][n] = Tail(wire[i])[n]) \/ wire'[i][n] = c
        BY <2>1, <4>1, <4>2
      <4> QED
        BY <2>1, <3>2, <4>3, <4>4 DEF LiveSet
    <3> QED
      BY <3>1, <3>2
  <2>3. \A n \in DOMAIN wire'[i] : LiveSet(i, n)' => LiveSet(i, n + 1) /\ n + 1 # 1
    BY <2>2 DEF LiveSet
  <2>4. ~(\E n \in DOMAIN wire'[i] : LiveSet(i, n)') \/ ~LiveSet(i, 1)
    BY <1>2, <2>1, <2>2, <2>3 DEF OneSet
  <2>5. \A m, n \in DOMAIN wire'[i] : LiveSet(i, m)' /\ LiveSet(i, n)' => m = n
    <3> TAKE m, n \in DOMAIN wire'[i]
    <3> HAVE LiveSet(i, m)' /\ LiveSet(i, n)'
    <3>1. m + 1 = n + 1 /\ m \in Nat /\ n \in Nat
      BY <1>2, <2>2, <2>3 DEF OneSet
    <3> QED
      BY <3>1
  <2>6. \A m \in DOMAIN wire'[i] : LiveSet(i, m)' => wire'[i][m].by = i /\ Storing(i)'
    BY <1>2, <2>2, <2>3, <2>4 DEF OneSet
  <2> QED
    BY <1>2, <2>5, <2>6 DEF OneSet
<1> QED
  BY <1>1, <1>2

\* Kinds of callers: whoever gives up, gives up its own commands only.
LEMMA CallersApart ==
  /\ \A r \in Readers : r \notin Replicas /\ r \notin Writers /\ r # None
  /\ \A w \in Writers : w \notin Replicas /\ w \notin Readers /\ w # None
  /\ \A i \in Replicas : i \notin Readers /\ i \notin Writers /\ i # None
BY KindsApart, NoneApart

\* Nothing under way for the one who is left alone.
LEMMA ReaderKept ==
  ASSUME NEW r \in Readers, ReaderAttended(r), reader'[r] \in {reader[r], "idle", "done"},
         \A c \in OnWire(Home(r)) : c.op = "get" /\ c.by = r => c \in OnWire(Home(r))',
         Fetching(Home(r)) => Fetching(Home(r))'
  PROVE  ReaderAttended(r)'
BY DEF ReaderAttended, Home

LEMMA WriterKept ==
  ASSUME TypeOK, NEW w \in Writers, WriterAttended(w), writer'[w] = writer[w],
         \A j \in Replicas : \A c \in OnWire(j) : c.op \in {"scan", "del"} /\ c.by = w => c \in OnWire(j)'
  PROVE  WriterAttended(w)'
<1>1. SUFFICES ASSUME writer[w].pc = "clear"
               PROVE  \E op \in {"scan", "del"} : [op |-> op, by |-> w] \in OnWire(writer[w].at)'
  BY DEF WriterAttended
<1>2. writer[w].at \in Replicas
  BY <1>1, WriterTypes DEF TypeOK
<1>3. PICK op \in {"scan", "del"} : [op |-> op, by |-> w] \in OnWire(writer[w].at)
  BY <1>1 DEF WriterAttended
<1>4. [op |-> op, by |-> w] \in OnWire(writer[w].at)'
  BY <1>2, <1>3
<1> QED
  BY <1>4

LEMMA FlightKept ==
  ASSUME NEW i \in Replicas, FlightAttended(i), inFlight'[i] = inFlight[i] \/ ~Storing(i)',
         \A c \in OnWire(i) : c.op = "set" /\ c.by = i => c \in OnWire(i)'
  PROVE  FlightAttended(i)'
BY DEF FlightAttended, Storing

\* Whoever finds nothing joins a flight that fetches, and ends none.
LEMMA JoinAttends ==
  ASSUME TypeOK, NEW r \in Readers, JoinOrFetch(r)
  PROVE  /\ ReaderAttended(r)'
         /\ \A s \in Readers \ {r} : reader'[s] = reader[s]
         /\ \A i \in Replicas : Fetching(i) => Fetching(i)'
         /\ \A i \in Replicas : inFlight'[i] = inFlight[i] \/ ~Storing(i)'
         /\ \A i \in Replicas : Storing(i) => Storing(i)'
<1>1. Home(r) \in Replicas /\ Home(r)' = Home(r)
  BY HomeType DEF Home
<1>2. reader'[r] = Joined(r) /\ \A s \in Readers \ {r} : reader'[s] = reader[s]
  BY DEF JoinOrFetch, TypeOK
<1>3. CASE inFlight[Home(r)] = None
  <2>1. inFlight'[Home(r)] = [phase |-> "fetch"] /\ \A i \in Replicas \ {Home(r)} : inFlight'[i] = inFlight[i]
    BY <1>1, <1>3 DEF JoinOrFetch, TypeOK
  <2>2. [phase |-> "fetch"] # None
    BY FlightTypes, NoneIsNoFlight
  <2>3. Joined(r) = "join"
    BY <1>3 DEF Joined
  <2> QED
    BY <1>1, <1>2, <1>3, <2>1, <2>2, <2>3 DEF ReaderAttended, Fetching, Storing
<1>4. CASE inFlight[Home(r)] # None
  <2>1. inFlight' = inFlight
    BY <1>4 DEF JoinOrFetch
  <2>2. inFlight[Home(r)].phase \in {"fetch", "fetched", "write"}
    BY <1>1, <1>4 DEF TypeOK, Flight
  <2>3. reader'[r] # "get" /\ (reader'[r] = "join" => Fetching(Home(r)))
    BY <1>2, <1>4, <2>2 DEF Joined, Fetching
  <2> QED
    BY <1>1, <1>2, <2>1, <2>3 DEF ReaderAttended, Fetching, Storing
<1> QED
  BY <1>3, <1>4

\* A reader's step.
LEMMA ReaderWaits ==
  ASSUME TypeOK, WaitInv, NEW r \in Readers, ReaderNext(r)
  PROVE  WaitInv'
<1>1. Home(r) \in Replicas /\ \A s \in Readers : Home(s) \in Replicas
  BY HomeType
<1>2. CASE ReadRedis(r)
  <2> DEFINE c == [op |-> "get", by |-> r]
  <2>1. Issue(Home(r), c) /\ UNCHANGED <<inFlight, writer>> /\ c.op # "set"
    BY <1>2 DEF ReadRedis
  <2>2. reader'[r] = "get" /\ \A s \in Readers \ {r} : reader'[s] = reader[s]
    BY <1>2 DEF ReadRedis, TypeOK
  <2> HIDE DEF c
  <2>3. (\A j \in Replicas : OnWire(j) \subseteq OnWire(j)') /\ c \in OnWire(Home(r))'
    BY <1>1, <2>1, IssueWire
  <2>4. \A i \in Replicas : Storing(i)' = Storing(i) /\ Fetching(i)' = Fetching(i)
    BY <2>1 DEF Storing, Fetching
  <2>5. ReaderAttended(r)'
    BY <2>2, <2>3 DEF ReaderAttended, Home, c
  <2>6. ASSUME NEW s \in Readers \ {r}
        PROVE  ReaderAttended(s)'
    BY <1>1, <2>2, <2>3, <2>4, ReaderKept DEF WaitInv, NobodyForgotten
  <2>7. ASSUME NEW w \in Writers
        PROVE  WriterAttended(w)'
    BY <2>1, <2>3, WriterKept DEF WaitInv, NobodyForgotten
  <2>8. ASSUME NEW i \in Replicas
        PROVE  FlightAttended(i)'
    BY <2>1, <2>3, FlightKept DEF WaitInv, NobodyForgotten
  <2>9. ASSUME NEW i \in Replicas
        PROVE  OneSet(i)'
    BY <1>1, <2>1, <2>4, IssueOneSet DEF WaitInv
  <2> QED
    BY <2>5, <2>6, <2>7, <2>8, <2>9 DEF WaitInv, NobodyForgotten
<1>3. CASE ReadMemory(r)
  <2>1. UNCHANGED <<wire, writer>>
    BY <1>3 DEF ReadMemory
  <2>2. \A j \in Replicas : OnWire(j)' = OnWire(j)
    BY <2>1 DEF OnWire
  <2>3. /\ ReaderAttended(r)'
        /\ \A s \in Readers \ {r} : reader'[s] = reader[s]
        /\ \A i \in Replicas : Fetching(i) => Fetching(i)'
        /\ \A i \in Replicas : inFlight'[i] = inFlight[i] \/ ~Storing(i)'
        /\ \A i \in Replicas : Storing(i) => Storing(i)'
    <3>1. CASE memory[Home(r)] # None
      <4>1. reader'[r] = "done" /\ inFlight' = inFlight /\ \A s \in Readers \ {r} : reader'[s] = reader[s]
        BY <1>3, <3>1 DEF ReadMemory, TypeOK
      <4> QED
        BY <4>1 DEF ReaderAttended, Fetching, Storing
    <3>2. CASE memory[Home(r)] = None
      BY <1>3, <3>2, JoinAttends DEF ReadMemory
    <3> QED
      BY <3>1, <3>2
  <2>4. ASSUME NEW s \in Readers \ {r}
        PROVE  ReaderAttended(s)'
    BY <1>1, <2>2, <2>3, ReaderKept DEF WaitInv, NobodyForgotten
  <2>5. ASSUME NEW w \in Writers
        PROVE  WriterAttended(w)'
    BY <2>1, <2>2, WriterKept DEF WaitInv, NobodyForgotten
  <2>6. ASSUME NEW i \in Replicas
        PROVE  FlightAttended(i)'
    BY <2>2, <2>3, FlightKept DEF WaitInv, NobodyForgotten
  <2>7. ASSUME NEW i \in Replicas
        PROVE  OneSet(i)'
    BY <2>1, <2>3 DEF WaitInv, OneSet, LiveSet
  <2> QED
    BY <2>3, <2>4, <2>5, <2>6, <2>7 DEF WaitInv, NobodyForgotten
<1>4. CASE GetTimesOut(r)
  <2>1. wire' = [wire EXCEPT ![Home(r)] = Abandoned(@, r)] /\ JoinOrFetch(r) /\ UNCHANGED writer
    BY <1>4 DEF GetTimesOut
  <2>2. \A j \in Replicas : \A c \in OnWire(j) : c.by # r => c \in OnWire(j)'
    BY <1>1, <2>1, GiveUpWire
  <2>3. /\ ReaderAttended(r)'
        /\ \A s \in Readers \ {r} : reader'[s] = reader[s]
        /\ \A i \in Replicas : Fetching(i) => Fetching(i)'
        /\ \A i \in Replicas : inFlight'[i] = inFlight[i] \/ ~Storing(i)'
        /\ \A i \in Replicas : Storing(i) => Storing(i)'
    BY <2>1, JoinAttends
  <2>4. ASSUME NEW s \in Readers \ {r}
        PROVE  ReaderAttended(s)'
    BY <1>1, <2>2, <2>3, ReaderKept DEF WaitInv, NobodyForgotten
  <2>5. ASSUME NEW w \in Writers
        PROVE  WriterAttended(w)'
    BY <2>1, <2>2, WriterKept, CallersApart DEF WaitInv, NobodyForgotten
  <2>6. ASSUME NEW i \in Replicas
        PROVE  FlightAttended(i)'
    BY <2>2, <2>3, FlightKept, CallersApart DEF WaitInv, NobodyForgotten
  <2>7. ASSUME NEW i \in Replicas
        PROVE  OneSet(i)'
    BY <1>1, <2>1, <2>3, GiveUpOneSet DEF WaitInv
  <2> QED
    BY <2>3, <2>4, <2>5, <2>6, <2>7 DEF WaitInv, NobodyForgotten
<1>5. CASE Return(r)
  <2>1. \A s \in Readers : reader'[s] \in {reader[s], "idle"}
    BY <1>5 DEF Return, TypeOK
  <2>2. UNCHANGED <<wire, inFlight, writer>>
    BY <1>5 DEF Return
  <2> QED
    BY <2>1, <2>2 DEF WaitInv, NobodyForgotten, ReaderAttended, WriterAttended, FlightAttended,
       OneSet, LiveSet, Fetching, Storing, OnWire, Home
<1> QED
  BY <1>2, <1>3, <1>4, <1>5 DEF ReaderNext

\* A writer's.
LEMMA WriterWaits ==
  ASSUME TypeOK, WaitInv, NEW w \in Writers, WriterNext(w)
  PROVE  WaitInv'
<1>1. \A s \in Readers : Home(s) \in Replicas
  BY HomeType
<1>2. CASE Write(w) \/ \E i \in Replicas : InvalidateMemory(w, i)
  <2>1. UNCHANGED <<wire, inFlight, reader>>
    BY <1>2 DEF Write, InvalidateMemory
  <2>2. writer'[w].pc # "clear" /\ \A v \in Writers \ {w} : writer'[v] = writer[v]
    BY <1>2 DEF Write, InvalidateMemory, Settle, IdleWriter, TypeOK
  <2>3. \A v \in Writers : WriterAttended(v)'
    BY <2>1, <2>2 DEF WaitInv, NobodyForgotten, WriterAttended, OnWire
  <2> QED
    BY <2>1, <2>3 DEF WaitInv, NobodyForgotten, ReaderAttended, FlightAttended,
       OneSet, LiveSet, Fetching, Storing, OnWire, Home
<1>3. ASSUME NEW i \in Replicas, InvalidateRedis(w, i)
      PROVE  WaitInv'
  <2> DEFINE c == [op |-> "scan", by |-> w]
  <2>1. Issue(i, c) /\ UNCHANGED <<inFlight, reader>> /\ c.op # "set"
    BY <1>3 DEF InvalidateRedis
  <2>2. writer'[w] = [pc |-> "clear", at |-> i] /\ \A v \in Writers \ {w} : writer'[v] = writer[v]
    BY <1>3 DEF InvalidateRedis, TypeOK
  <2> HIDE DEF c
  <2>3. (\A j \in Replicas : OnWire(j) \subseteq OnWire(j)') /\ c \in OnWire(i)'
    BY <2>1, IssueWire
  <2>4. \A j \in Replicas : Storing(j)' = Storing(j) /\ Fetching(j)' = Fetching(j)
    BY <2>1 DEF Storing, Fetching
  <2>5. WriterAttended(w)'
    BY <2>2, <2>3 DEF WriterAttended, c
  <2>6. ASSUME NEW s \in Readers
        PROVE  ReaderAttended(s)'
    BY <1>1, <2>1, <2>3, <2>4, ReaderKept DEF WaitInv, NobodyForgotten
  <2>7. ASSUME NEW v \in Writers \ {w}
        PROVE  WriterAttended(v)'
    BY <2>2, <2>3, WriterKept DEF WaitInv, NobodyForgotten
  <2>8. ASSUME NEW j \in Replicas
        PROVE  FlightAttended(j)'
    BY <2>1, <2>3, FlightKept DEF WaitInv, NobodyForgotten
  <2>9. ASSUME NEW j \in Replicas
        PROVE  OneSet(j)'
    BY <2>1, <2>4, IssueOneSet DEF WaitInv
  <2> QED
    BY <2>5, <2>6, <2>7, <2>8, <2>9 DEF WaitInv, NobodyForgotten
<1>4. CASE InvalidateTimesOut(w)
  <2>1. writer[w].at \in Replicas
    BY <1>4, WriterTypes DEF InvalidateTimesOut, TypeOK
  <2>2. wire' = [wire EXCEPT ![writer[w].at] = Abandoned(@, w)] /\ UNCHANGED <<inFlight, reader>>
    BY <1>4 DEF InvalidateTimesOut
  <2>3. writer'[w].pc # "clear" /\ \A v \in Writers \ {w} : writer'[v] = writer[v]
    BY <1>4 DEF InvalidateTimesOut, Settle, IdleWriter, TypeOK
  <2>4. \A j \in Replicas : \A c \in OnWire(j) : c.by # w => c \in OnWire(j)'
    BY <2>1, <2>2, GiveUpWire
  <2>5. \A j \in Replicas : Storing(j)' = Storing(j) /\ Fetching(j)' = Fetching(j)
    BY <2>2 DEF Storing, Fetching
  <2>6. ASSUME NEW s \in Readers
        PROVE  ReaderAttended(s)'
    BY <1>1, <2>2, <2>4, <2>5, ReaderKept, CallersApart DEF WaitInv, NobodyForgotten
  <2>7. ASSUME NEW v \in Writers
        PROVE  WriterAttended(v)'
    <3>1. CASE v = w
      BY <2>3, <3>1 DEF WriterAttended
    <3>2. CASE v # w
      BY <2>3, <2>4, <3>2, WriterKept DEF WaitInv, NobodyForgotten
    <3> QED
      BY <3>1, <3>2
  <2>8. ASSUME NEW j \in Replicas
        PROVE  FlightAttended(j)'
    BY <2>2, <2>4, FlightKept, CallersApart DEF WaitInv, NobodyForgotten
  <2>9. ASSUME NEW j \in Replicas
        PROVE  OneSet(j)'
    BY <2>1, <2>2, <2>5, GiveUpOneSet DEF WaitInv
  <2> QED
    BY <2>6, <2>7, <2>8, <2>9 DEF WaitInv, NobodyForgotten
<1> QED
  BY <1>2, <1>3, <1>4 DEF WriterNext

\* A replica's fetch, and the end of its flight.
LEMMA FlightWaits ==
  ASSUME TypeOK, WaitInv, NEW i \in Replicas,
         FetchReads(i) \/ FetchReturns(i) \/ FetchFails(i) \/ SetTimesOut(i)
  PROVE  WaitInv'
<1>1. \A s \in Readers : Home(s) \in Replicas
  BY HomeType
<1>2. UNCHANGED writer /\ \A j \in Replicas \ {i} : inFlight'[j] = inFlight[j]
  BY DEF FetchReads, FetchReturns, FetchFails, SetTimesOut, TypeOK
<1>3. \A j \in Replicas \ {i} : Storing(j)' = Storing(j) /\ Fetching(j)' = Fetching(j)
  BY <1>2 DEF Storing, Fetching
<1>4. CASE FetchReads(i)
  <2>1. inFlight'[i] = [phase |-> "fetched", version |-> document] /\ inFlight'[i] # None
    BY <1>4, FlightTypes, NoneIsNoFlight DEF FetchReads, TypeOK
  <2>2. Fetching(i)' /\ ~Storing(i)' /\ ~Storing(i)
    BY <1>4, <2>1 DEF Fetching, Storing, FetchReads
  <2>3. UNCHANGED <<wire, reader>>
    BY <1>4 DEF FetchReads
  <2>4. \A j \in Replicas : OnWire(j)' = OnWire(j)
    BY <2>3 DEF OnWire
  <2>5. ASSUME NEW s \in Readers
        PROVE  ReaderAttended(s)'
    BY <1>1, <1>3, <2>2, <2>3, <2>4, ReaderKept DEF WaitInv, NobodyForgotten
  <2>6. ASSUME NEW w \in Writers
        PROVE  WriterAttended(w)'
    BY <1>2, <2>4, WriterKept DEF WaitInv, NobodyForgotten
  <2>7. ASSUME NEW j \in Replicas
        PROVE  FlightAttended(j)' /\ OneSet(j)'
    <3>1. FlightAttended(j)'
      BY <1>2, <2>2, <2>4, FlightKept DEF WaitInv, NobodyForgotten
    <3>2. Storing(j) => Storing(j)'
      BY <1>3, <2>2
    <3> QED
      BY <2>3, <3>1, <3>2 DEF WaitInv, OneSet, LiveSet
  <2> QED
    BY <2>5, <2>6, <2>7 DEF WaitInv, NobodyForgotten
<1>5. CASE FetchReturns(i)
  <2>1. \A s \in Readers : /\ reader'[s] \in {reader[s], "done"}
                           /\ Home(s) = i => reader'[s] # "join"
    BY <1>5 DEF FetchReturns, Served
  <2>2. ~Storing(i) /\ inFlight[i] \in Flight /\ inFlight[i].version \in Version
    BY <1>5, FlightTypes DEF FetchReturns, Storing, TypeOK
  <2>3. \A j \in Replicas : OnWire(j) \subseteq OnWire(j)'
    <3>1. CASE up[i]
      <4>1. Issue(i, [op |-> "set", by |-> i, version |-> inFlight[i].version])
        BY <1>5, <3>1 DEF FetchReturns
      <4> QED
        BY <4>1, IssueWire
    <3>2. CASE ~up[i]
      BY <1>5, <3>2 DEF FetchReturns, OnWire
    <3> QED
      BY <3>1, <3>2
  <2>4. ASSUME NEW s \in Readers
        PROVE  ReaderAttended(s)'
    <3>1. CASE Home(s) = i
      BY <1>1, <2>1, <2>3, <3>1 DEF WaitInv, NobodyForgotten, ReaderAttended, Home
    <3>2. CASE Home(s) # i
      BY <1>1, <1>3, <2>1, <2>3, <3>2, ReaderKept DEF WaitInv, NobodyForgotten
    <3> QED
      BY <3>1, <3>2
  <2>5. ASSUME NEW w \in Writers
        PROVE  WriterAttended(w)'
    BY <1>2, <2>3, WriterKept DEF WaitInv, NobodyForgotten
  <2>6. ASSUME NEW j \in Replicas \ {i}
        PROVE  FlightAttended(j)' /\ OneSet(j)'
    <3>1. FlightAttended(j)'
      BY <1>2, <2>3, FlightKept DEF WaitInv, NobodyForgotten
    <3>2. wire'[j] = wire[j]
      BY <1>5 DEF FetchReturns, Issue, TypeOK
    <3>3. OneSet(j)'
      BY <1>3, <3>2 DEF WaitInv, OneSet, LiveSet
    <3> QED
      BY <3>1, <3>3
  <2>7. \A n \in DOMAIN wire[i] : ~LiveSet(i, n)
    BY <2>2 DEF WaitInv, OneSet
  <2>8. FlightAttended(i)' /\ OneSet(i)'
    <3>1. CASE up[i]
      <4> DEFINE c == [op |-> "set", by |-> i, version |-> inFlight[i].version]
      <4>1. Issue(i, c) /\ wire'[i] = Append(wire[i], c) /\ wire[i] \in Seq(Command)
        BY <1>5, <3>1 DEF FetchReturns, Issue, TypeOK
      <4>2. inFlight'[i] = [phase |-> "write", version |-> inFlight[i].version]
        BY <1>5, <3>1 DEF FetchReturns, TypeOK
      <4>3. c.op = "set" /\ c.by = i
        OBVIOUS
      <4> HIDE DEF c
      <4>4. c \in OnWire(i)'
        BY <4>1, IssueWire
      <4>5. inFlight'[i] # None
        BY <2>2, <4>2, FlightTypes, NoneIsNoFlight
      <4>6. FlightAttended(i)' /\ Storing(i)'
        BY <4>2, <4>4, <4>5 DEF FlightAttended, Storing, c
      <4>7. \A n \in DOMAIN wire'[i] : \/ n \in DOMAIN wire[i] /\ wire'[i][n] = wire[i][n]
                                       \/ n = Len(wire[i]) + 1 /\ wire'[i][n] = c
        BY <4>1
      <4>8. \A n \in DOMAIN wire'[i] : LiveSet(i, n)' => n = Len(wire[i]) + 1 /\ wire'[i][n] = c
        BY <2>7, <4>7 DEF LiveSet
      <4>9. OneSet(i)'
        BY <4>3, <4>6, <4>8 DEF OneSet
      <4> QED
        BY <4>6, <4>9
    <3>2. CASE ~up[i]
      <4>1. inFlight'[i] = None /\ wire' = wire
        BY <1>5, <3>2 DEF FetchReturns, TypeOK
      <4> QED
        BY <2>7, <4>1 DEF FlightAttended, Storing, OneSet, LiveSet
    <3> QED
      BY <3>1, <3>2
  <2> QED
    BY <2>4, <2>5, <2>6, <2>8 DEF WaitInv, NobodyForgotten
<1>6. CASE FetchFails(i)
  <2>1. \A s \in Readers : /\ reader'[s] \in {reader[s], "idle"}
                           /\ Home(s) = i => reader'[s] # "join"
    BY <1>6 DEF FetchFails
  <2>2. inFlight'[i] = None /\ UNCHANGED wire
    BY <1>6 DEF FetchFails, TypeOK
  <2>3. ~Storing(i) /\ ~Storing(i)'
    BY <1>6, <2>2 DEF FetchFails, Storing
  <2>4. \A j \in Replicas : OnWire(j)' = OnWire(j)
    BY <2>2 DEF OnWire
  <2>5. ASSUME NEW s \in Readers
        PROVE  ReaderAttended(s)'
    <3>1. CASE Home(s) = i
      BY <1>1, <2>1, <2>4, <3>1 DEF WaitInv, NobodyForgotten, ReaderAttended, Home
    <3>2. CASE Home(s) # i
      BY <1>1, <1>3, <2>1, <2>4, <3>2, ReaderKept DEF WaitInv, NobodyForgotten
    <3> QED
      BY <3>1, <3>2
  <2>6. ASSUME NEW w \in Writers
        PROVE  WriterAttended(w)'
    BY <1>2, <2>4, WriterKept DEF WaitInv, NobodyForgotten
  <2>7. ASSUME NEW j \in Replicas
        PROVE  FlightAttended(j)' /\ OneSet(j)'
    <3>1. FlightAttended(j)'
      BY <1>2, <2>3, <2>4, FlightKept DEF WaitInv, NobodyForgotten
    <3>2. Storing(j) => Storing(j)'
      BY <1>3, <2>3
    <3> QED
      BY <2>2, <3>1, <3>2 DEF WaitInv, OneSet, LiveSet
  <2> QED
    BY <2>5, <2>6, <2>7 DEF WaitInv, NobodyForgotten
<1>7. CASE SetTimesOut(i)
  <2>1. wire' = [wire EXCEPT ![i] = Abandoned(@, i)] /\ UNCHANGED reader /\ inFlight'[i] = None
    BY <1>7 DEF SetTimesOut, TypeOK
  <2>2. \A j \in Replicas : \A c \in OnWire(j) : c.by # i => c \in OnWire(j)'
    BY <2>1, GiveUpWire
  <2>3. ~Fetching(i) /\ ~Storing(i)'
    BY <1>7, <2>1 DEF SetTimesOut, Fetching, Storing
  <2>4. ASSUME NEW s \in Readers
        PROVE  ReaderAttended(s)'
    BY <1>1, <1>3, <2>1, <2>2, <2>3, ReaderKept, CallersApart DEF WaitInv, NobodyForgotten
  <2>5. ASSUME NEW w \in Writers
        PROVE  WriterAttended(w)'
    BY <1>2, <2>2, WriterKept, CallersApart DEF WaitInv, NobodyForgotten
  <2>6. ASSUME NEW j \in Replicas
        PROVE  FlightAttended(j)' /\ OneSet(j)'
    <3>1. FlightAttended(j)'
      <4>1. CASE j = i
        BY <2>3, <4>1 DEF FlightAttended
      <4>2. CASE j # i
        BY <1>2, <2>2, <4>2, FlightKept DEF WaitInv, NobodyForgotten
      <4> QED
        BY <4>1, <4>2
    <3>2. Storing(j) => Storing(j)' \/ j = i
      BY <1>3
    <3>3. OneSet(j)'
      BY <2>1, <3>2, GiveUpOneSet DEF WaitInv
    <3> QED
      BY <3>1, <3>3
  <2> QED
    BY <2>4, <2>5, <2>6 DEF WaitInv, NobodyForgotten
<1> QED
  BY <1>4, <1>5, <1>6, <1>7

\* An answer of Redis wakes the one who waits for it, and no other.
LEMMA AnswerWaits ==
  ASSUME TypeOK, WaitInv, NEW i \in Replicas, AnswerNext(i)
  PROVE  WaitInv'
<1>1. \A s \in Readers : Home(s) \in Replicas
  BY HomeType
<1>2. wire[i] # <<>>
  BY DEF AnswerNext, AnswerGet, AnswerSet, AnswerScan, AnswerDel, Answer
<1>3. PICK h \in Command : h = Head(wire[i])
  BY <1>2, HeadType
<1>7. wire[i] \in Seq(Command) /\ 1 \in DOMAIN wire[i] /\ h = wire[i][1]
  BY <1>2, <1>3 DEF TypeOK
<1>4. CASE AnswerGet(i)
  <2>1. Executed(i) /\ h.op = "get" /\ UNCHANGED writer /\ (h.by = None \/ h.by \in Readers)
    BY <1>3, <1>4, CommandFields DEF AnswerGet, Answer
  <2>2. \A j \in Replicas : \A c \in OnWire(j) : j # i \/ c # h => c \in OnWire(j)'
    BY <1>2, <2>1, ExecutedWire, <1>3
  <2>3. /\ h.by # None => ReaderAttended(h.by)'
        /\ \A s \in Readers : s # h.by => reader'[s] = reader[s]
        /\ \A j \in Replicas : Fetching(j) => Fetching(j)'
        /\ \A j \in Replicas : inFlight'[j] = inFlight[j] \/ ~Storing(j)'
        /\ \A j \in Replicas : Storing(j) => Storing(j)'
    <3>1. CASE h.by = None
      BY <1>4, <3>1, <1>3 DEF AnswerGet, Fetching, Storing
    <3>2. CASE h.by # None /\ redis # None
      <4>1. reader'[h.by] = "done" /\ inFlight' = inFlight /\ \A s \in Readers : s # h.by => reader'[s] = reader[s]
        BY <1>4, <2>1, <3>2, <1>3 DEF AnswerGet, TypeOK
      <4> QED
        BY <4>1 DEF ReaderAttended, Fetching, Storing
    <3>3. CASE h.by # None /\ redis = None
      <4>1. h.by \in Readers /\ JoinOrFetch(h.by)
        BY <1>4, <2>1, <3>3, <1>3 DEF AnswerGet
      <4> QED
        BY <4>1, JoinAttends
    <3> QED
      BY <3>1, <3>2, <3>3
  <2>4. ASSUME NEW s \in Readers
        PROVE  ReaderAttended(s)'
    <3>1. CASE s = h.by
      BY <2>3, <3>1, CallersApart
    <3>2. CASE s # h.by
      BY <1>1, <2>2, <2>3, <3>2, ReaderKept DEF WaitInv, NobodyForgotten
    <3> QED
      BY <3>1, <3>2
  <2>5. ASSUME NEW w \in Writers
        PROVE  WriterAttended(w)'
    <3>1. \A j \in Replicas : \A c \in OnWire(j) : c.op \in {"scan", "del"} /\ c.by = w => c \in OnWire(j)'
      BY <2>1, <2>2
    <3> QED
      BY <2>1, <3>1, WriterKept DEF WaitInv, NobodyForgotten
  <2>6. ASSUME NEW j \in Replicas
        PROVE  FlightAttended(j)'
    <3>1. \A c \in OnWire(j) : c.op = "set" /\ c.by = j => c \in OnWire(j)'
      BY <2>1, <2>2
    <3> QED
      BY <2>3, <3>1, FlightKept DEF WaitInv, NobodyForgotten
  <2>7. ASSUME NEW j \in Replicas
        PROVE  OneSet(j)'
    BY <1>2, <2>1, <2>3, ExecutedOneSet DEF WaitInv
  <2> QED
    BY <2>4, <2>5, <2>6, <2>7 DEF WaitInv, NobodyForgotten
<1>5. CASE AnswerSet(i)
  <2>1. Executed(i) /\ h.op = "set" /\ UNCHANGED <<reader, writer>>
    BY <1>3, <1>5 DEF AnswerSet, Answer
  <2>2. h.by # None => LiveSet(i, 1)
    BY <1>7, <2>1 DEF LiveSet
  <2>3. IF h.by = None THEN UNCHANGED inFlight ELSE inFlight' = [inFlight EXCEPT ![i] = None]
    BY <1>3, <1>5 DEF AnswerSet
  <2>4. \A j \in Replicas : \A c \in OnWire(j) : j # i \/ c # h => c \in OnWire(j)'
    BY <1>2, <2>1, ExecutedWire, <1>3
  <2>5. h.by # None => ~Fetching(i) /\ ~Storing(i)'
    <3>1. h.by # None => Storing(i)
      BY <1>7, <2>2 DEF WaitInv, OneSet
    <3> QED
      BY <2>3, <3>1 DEF Storing, Fetching, TypeOK
  <2>6. \A j \in Replicas : j # i \/ h.by = None => inFlight'[j] = inFlight[j]
    BY <2>3 DEF TypeOK
  <2>7. ASSUME NEW s \in Readers
        PROVE  ReaderAttended(s)'
    <3>1. \A c \in OnWire(Home(s)) : c.op = "get" /\ c.by = s => c \in OnWire(Home(s))'
      BY <1>1, <2>1, <2>4
    <3>2. Fetching(Home(s)) => Fetching(Home(s))'
      BY <1>1, <2>5, <2>6 DEF Fetching
    <3> QED
      BY <2>1, <3>1, <3>2, ReaderKept DEF WaitInv, NobodyForgotten
  <2>8. ASSUME NEW w \in Writers
        PROVE  WriterAttended(w)'
    <3>1. \A j \in Replicas : \A c \in OnWire(j) : c.op \in {"scan", "del"} /\ c.by = w => c \in OnWire(j)'
      BY <2>1, <2>4
    <3> QED
      BY <2>1, <3>1, WriterKept DEF WaitInv, NobodyForgotten
  <2>9. ASSUME NEW j \in Replicas
        PROVE  FlightAttended(j)'
    <3>1. CASE j = i /\ h.by # None
      BY <2>5, <3>1 DEF FlightAttended
    <3>2. CASE j # i \/ h.by = None
      <4>1. \A c \in OnWire(j) : c.op = "set" /\ c.by = j => c \in OnWire(j)'
        BY <2>4, <3>2, CallersApart
      <4> QED
        BY <2>6, <3>2, <4>1, FlightKept DEF WaitInv, NobodyForgotten
    <3> QED
      BY <3>1, <3>2
  <2>10. ASSUME NEW j \in Replicas
         PROVE  OneSet(j)'
    <3>1. Storing(j) => Storing(j)' \/ (j = i /\ LiveSet(i, 1))
      BY <2>2, <2>6 DEF Storing
    <3> QED
      BY <1>2, <2>1, <3>1, ExecutedOneSet DEF WaitInv
  <2> QED
    BY <2>7, <2>8, <2>9, <2>10 DEF WaitInv, NobodyForgotten
<1>6. CASE AnswerScan(i) \/ AnswerDel(i)
  <2>1. h.op \in {"scan", "del"} /\ UNCHANGED <<inFlight, reader>> /\ (h.by = None \/ h.by \in Writers)
    BY <1>3, <1>6, CommandFields DEF AnswerScan, AnswerDel, Answer
  <2> DEFINE d == [op |-> "del", by |-> h.by]
  <2>2. d.op # "set" /\ (Executed(i) \/ wire' = [wire EXCEPT ![i] = Append(Tail(@), d)])
    BY <1>3, <1>6 DEF AnswerScan, AnswerDel
  <2>3. \/ /\ wire' = [wire EXCEPT ![i] = Append(Tail(@), d)]
           /\ UNCHANGED writer
        \/ h.by = None /\ UNCHANGED writer
        \/ h.by # None /\ Settle(h.by)
    BY <1>3, <1>6 DEF AnswerScan, AnswerDel
  <2> HIDE DEF d
  <2>4. Executed(i) \/ \E c : c.op # "set" /\ wire' = [wire EXCEPT ![i] = Append(Tail(@), c)]
    BY <2>2
  <2>5. Executed(i) \/ \E c : wire' = [wire EXCEPT ![i] = Append(Tail(@), c)]
    BY <2>2
  <2>6. \A j \in Replicas : \A c \in OnWire(j) : j # i \/ c # h => c \in OnWire(j)'
    BY <1>2, <2>5, ExecutedWire, <1>3
  <2>7. \A j \in Replicas : Storing(j)' = Storing(j) /\ Fetching(j)' = Fetching(j)
    BY <2>1 DEF Storing, Fetching
  <2>8. ASSUME NEW s \in Readers
        PROVE  ReaderAttended(s)'
    <3>1. \A c \in OnWire(Home(s)) : c.op = "get" /\ c.by = s => c \in OnWire(Home(s))'
      BY <1>1, <2>1, <2>6
    <3> QED
      BY <1>1, <2>1, <2>7, <3>1, ReaderKept DEF WaitInv, NobodyForgotten
  <2>9. ASSUME NEW w \in Writers, w # h.by
        PROVE  WriterAttended(w)'
    <3>1. \A j \in Replicas : \A c \in OnWire(j) : c.op \in {"scan", "del"} /\ c.by = w => c \in OnWire(j)'
      BY <2>6, <2>9
    <3>2. writer'[w] = writer[w]
      BY <2>3, <2>9 DEF Settle, TypeOK
    <3> QED
      BY <3>1, <3>2, WriterKept DEF WaitInv, NobodyForgotten
  <2>10. ASSUME NEW w \in Writers, w = h.by
         PROVE  WriterAttended(w)'
    <3>1. w # None
      BY CallersApart
    <3>2. CASE Settle(w)
      <4>1. writer'[w].pc # "clear"
        BY <3>2 DEF Settle, IdleWriter, TypeOK
      <4> QED
        BY <4>1 DEF WriterAttended
    <3>3. CASE wire' = [wire EXCEPT ![i] = Append(Tail(@), d)] /\ UNCHANGED writer
      <4>1. d \in OnWire(i)'
        <5>1. wire'[i] = Append(Tail(wire[i]), d) /\ Tail(wire[i]) \in Seq(Command)
          BY <1>2, <1>7, <3>3, HeadType DEF TypeOK
        <5>2. Len(Tail(wire[i])) + 1 \in DOMAIN wire'[i] /\ wire'[i][Len(Tail(wire[i])) + 1] = d
          BY <5>1
        <5> QED
          BY <5>2 DEF OnWire
      <4>2. CASE writer[w].pc # "clear"
        BY <3>3, <4>2 DEF WriterAttended
      <4>3. CASE writer[w].pc = "clear"
        <5>1. PICK at \in Replicas : at = writer[w].at /\ at = writer'[w].at
          BY <3>3, <4>3, WriterTypes DEF TypeOK
        <5>2. PICK op \in {"scan", "del"} : [op |-> op, by |-> w] \in OnWire(at)
          BY <4>3, <5>1 DEF WaitInv, NobodyForgotten, WriterAttended
        <5>3. CASE at # i \/ [op |-> op, by |-> w] # h
          <6>1. [op |-> op, by |-> w] \in OnWire(at)'
            BY <2>6, <5>2, <5>3
          <6> QED
            BY <5>1, <6>1 DEF WriterAttended
        <5>4. CASE at = i
          <6>1. [op |-> "del", by |-> w] \in OnWire(at)'
            BY <2>10, <4>1, <5>4 DEF d
          <6> QED
            BY <5>1, <6>1 DEF WriterAttended
        <5> QED
          BY <5>3, <5>4
      <4> QED
        BY <4>2, <4>3
    <3> QED
      BY <2>3, <2>10, <3>1, <3>2, <3>3
  <2>11. ASSUME NEW j \in Replicas
         PROVE  FlightAttended(j)'
    <3>1. \A c \in OnWire(j) : c.op = "set" /\ c.by = j => c \in OnWire(j)'
      BY <2>1, <2>6
    <3> QED
      BY <2>1, <3>1, FlightKept DEF WaitInv, NobodyForgotten
  <2>12. ASSUME NEW j \in Replicas
         PROVE  OneSet(j)'
    BY <1>2, <2>4, <2>7, ExecutedOneSet DEF WaitInv
  <2> QED
    BY <2>8, <2>9, <2>10, <2>11, <2>12 DEF WaitInv, NobodyForgotten
<1> QED
  BY <1>4, <1>5, <1>6 DEF AnswerNext

\* No call, handler or flight of cacheGetOrSet and cacheInvalidate waits for
\* something nobody will do, whatever is given up, fails, expires or is late: what
\* keeps it is only an answer of Redis, of MongoDB or of a timer.
THEOREM NoneForgotten == Spec => []NobodyForgotten
<1>1. Init => WaitInv
  BY DEF Init, WaitInv, NobodyForgotten, ReaderAttended, WriterAttended, FlightAttended,
     IdleWriter, OneSet, Storing
<1>2. TypeOK /\ WaitInv /\ [Next]_vars => WaitInv'
  <2> SUFFICES ASSUME TypeOK, WaitInv, [Next]_vars
               PROVE  WaitInv'
    OBVIOUS
  <2>1. CASE \E r \in Readers : ReaderNext(r)
    BY <2>1, ReaderWaits
  <2>2. CASE \E w \in Writers : WriterNext(w)
    BY <2>2, WriterWaits
  <2>3. ASSUME NEW i \in Replicas, ReplicaNext(i)
        PROVE  WaitInv'
    <3>1. CASE FetchReads(i) \/ FetchReturns(i) \/ FetchFails(i) \/ SetTimesOut(i)
      BY <3>1, FlightWaits
    <3>2. CASE AnswerNext(i)
      BY <3>2, AnswerWaits
    <3>3. CASE ExpireMemory(i) \/ SwitchConnection(i)
      <4>1. UNCHANGED <<wire, inFlight, reader, writer>>
        BY <3>3 DEF ExpireMemory, SwitchConnection
      <4> QED
        BY <4>1 DEF WaitInv, NobodyForgotten, ReaderAttended, WriterAttended, FlightAttended,
           OneSet, LiveSet, Fetching, Storing, OnWire, Home
    <3> QED
      BY <2>3, <3>1, <3>2, <3>3 DEF ReplicaNext
  <2>4. CASE ExpireRedis \/ UNCHANGED vars
    <3>1. UNCHANGED <<wire, inFlight, reader, writer>>
      BY <2>4 DEF ExpireRedis, vars
    <3> QED
      BY <3>1 DEF WaitInv, NobodyForgotten, ReaderAttended, WriterAttended, FlightAttended,
         OneSet, LiveSet, Fetching, Storing, OnWire, Home
  <2> QED
    BY <2>1, <2>2, <2>3, <2>4 DEF Next
<1>3. WaitInv => NobodyForgotten
  BY DEF WaitInv
<1> QED
  BY <1>1, <1>2, <1>3, TypeCorrect, PTL DEF Spec

-----------------------------------------------------------------------------
(* When a stale copy is condemned *)

\* A version is on its way to the cache in a flight that has it and in a SET.
FlightCarries(i) == inFlight[i] # None /\ inFlight[i].phase # "fetch"
WireCarries(i) == \E n \in DOMAIN wire[i] : wire[i][n].op = "set"

\* No write happens while a fetch that has read the document is not stored yet.
WriteOverlapsNone ==
    \A w \in Writers : Write(w) =>
        \A i \in Replicas : ~FlightCarries(i) /\ ~WireCarries(i)

WritesOverlapNone == [][WriteOverlapsNone]_vars

\* An invalidation is coming: its writer has yet to ask for it, or Redis has
\* yet to execute it.
Condemns(i) == \E n \in DOMAIN wire[i] : wire[i][n].op \in {"scan", "del"}

Condemned ==
    \/ \E w \in Writers : writer[w].pc = "wrote"
    \/ \E i \in Replicas : Condemns(i)

StaleIsCondemned ==
    /\ redis \notin {None, document} => Condemned
    /\ \A i \in Replicas : memory[i] = None

\* Why: what is on its way is the document as it is, and nobody falls back.
FreshFlight(i) == FlightCarries(i) => inFlight[i].version = document
FreshWire(i) == \A n \in DOMAIN wire[i] : wire[i][n].op = "set" => wire[i][n].version = document

FreshInv ==
    /\ StaleIsCondemned
    /\ \A i \in Replicas : up[i] /\ FreshFlight(i) /\ FreshWire(i)

\* What the steps on a wire do to it.
LEMMA IssueFresh ==
  ASSUME TypeOK, UNCHANGED document, NEW i \in Replicas, NEW c, Issue(i, c),
         c.op = "set" => c.version = document
  PROVE  \A j \in Replicas : (FreshWire(j) => FreshWire(j)') /\ (Condemns(j) => Condemns(j)')
<1>1. wire[i] \in Seq(Command) /\ wire'[i] = Append(wire[i], c) /\ \A j \in Replicas \ {i} : wire'[j] = wire[j]
  BY DEF TypeOK, Issue
<1>2. \A n \in DOMAIN wire'[i] : (n \in DOMAIN wire[i] /\ wire'[i][n] = wire[i][n]) \/ wire'[i][n] = c
  BY <1>1
<1>3. \A n \in DOMAIN wire[i] : n \in DOMAIN wire'[i] /\ wire'[i][n] = wire[i][n]
  BY <1>1
<1>4. (FreshWire(i) => FreshWire(i)') /\ (Condemns(i) => Condemns(i)')
  BY <1>2, <1>3 DEF FreshWire, Condemns
<1>5. \A j \in Replicas \ {i} : (FreshWire(j) => FreshWire(j)') /\ (Condemns(j) => Condemns(j)')
  BY <1>1 DEF FreshWire, Condemns
<1> QED
  BY <1>4, <1>5

LEMMA AbandonedFields ==
  ASSUME NEW c \in Command
  PROVE  /\ [c EXCEPT !.by = None].op = c.op
         /\ c.op = "set" => [c EXCEPT !.by = None].version = c.version
<1>1. CASE c \in [op : {"get"}, by : Readers \cup {None}]
  BY <1>1
<1>2. CASE c \in [op : {"set"}, by : Replicas \cup {None}, version : Version]
  BY <1>2
<1>3. CASE c \in [op : {"scan"}, by : Writers \cup {None}]
  BY <1>3
<1>4. CASE c \in [op : {"del"}, by : Writers \cup {None}]
  BY <1>4
<1> QED
  BY <1>1, <1>2, <1>3, <1>4 DEF Command

LEMMA GiveUpFresh ==
  ASSUME TypeOK, UNCHANGED document, NEW i \in Replicas, NEW who,
         wire' = [wire EXCEPT ![i] = Abandoned(@, who)]
  PROVE  \A j \in Replicas : (FreshWire(j) => FreshWire(j)') /\ (Condemns(j) => Condemns(j)')
<1>1. /\ wire[i] \in Seq(Command) /\ wire'[i] = Abandoned(wire[i], who)
      /\ \A j \in Replicas \ {i} : wire'[j] = wire[j]
  BY DEF TypeOK
<1>2. DOMAIN wire'[i] = DOMAIN wire[i]
  BY <1>1 DEF Abandoned
<1>3. \A n \in DOMAIN wire[i] : wire'[i][n] = IF wire[i][n].by = who THEN [wire[i][n] EXCEPT !.by = None] ELSE wire[i][n]
  BY <1>1 DEF Abandoned
<1>4. \A n \in DOMAIN wire[i] : wire[i][n] \in Command
  BY <1>1
<1>5. ASSUME NEW n \in DOMAIN wire[i]
      PROVE  /\ wire'[i][n].op = wire[i][n].op
             /\ wire[i][n].op = "set" => wire'[i][n].version = wire[i][n].version
  <2>1. CASE wire[i][n].by = who
    <3>1. wire'[i][n] = [wire[i][n] EXCEPT !.by = None]
      BY <1>3, <2>1
    <3> QED
      BY <1>4, <3>1, AbandonedFields
  <2>2. CASE wire[i][n].by # who
    BY <1>3, <2>2
  <2> QED
    BY <2>1, <2>2
<1>6. (FreshWire(i) => FreshWire(i)') /\ (Condemns(i) => Condemns(i)')
  BY <1>2, <1>5 DEF FreshWire, Condemns
<1>7. \A j \in Replicas \ {i} : (FreshWire(j) => FreshWire(j)') /\ (Condemns(j) => Condemns(j)')
  BY <1>1 DEF FreshWire, Condemns
<1> QED
  BY <1>6, <1>7

LEMMA ExecutedFresh ==
  ASSUME TypeOK, UNCHANGED document, NEW i \in Replicas, wire[i] # <<>>,
         Executed(i) \/ \E c : c.op = "del" /\ wire' = [wire EXCEPT ![i] = Append(Tail(@), c)]
  PROVE  /\ \A j \in Replicas : FreshWire(j) => FreshWire(j)'
         /\ \A j \in Replicas : Condemns(j) /\ (j # i \/ Head(wire[i]).op \notin {"scan", "del"}) => Condemns(j)'
<1>1. /\ wire[i] \in Seq(Command) /\ Head(wire[i]) = wire[i][1]
      /\ \A j \in Replicas \ {i} : wire'[j] = wire[j]
  BY DEF TypeOK, Executed
<1>2. /\ \A n \in DOMAIN wire'[i] : wire'[i][n].op = "set" => n + 1 \in DOMAIN wire[i] /\ wire'[i][n] = wire[i][n + 1]
      /\ \A n \in DOMAIN wire[i] : n # 1 => n - 1 \in DOMAIN wire'[i] /\ wire'[i][n - 1] = wire[i][n]
  <2>1. CASE Executed(i)
    <3>1. wire'[i] = Tail(wire[i])
      BY <2>1 DEF Executed, TypeOK
    <3>2. /\ DOMAIN wire'[i] = 1..(Len(wire[i]) - 1) /\ DOMAIN wire[i] = 1..Len(wire[i]) /\ Len(wire[i]) \in Nat \ {0}
          /\ \A n \in DOMAIN wire'[i] : wire'[i][n] = wire[i][n + 1]
      BY <1>1, <3>1
    <3>3. \A n \in DOMAIN wire[i] : n # 1 => n - 1 \in DOMAIN wire'[i] /\ (n - 1) + 1 = n
      BY <3>2
    <3>4. \A n \in DOMAIN wire'[i] : n + 1 \in DOMAIN wire[i]
      BY <3>2
    <3>5. \A n \in DOMAIN wire[i] : n # 1 => wire'[i][n - 1] = wire[i][n]
      BY <3>2, <3>3
    <3> QED
      BY <3>2, <3>3, <3>4, <3>5
  <2>2. ASSUME NEW c, c.op = "del", wire' = [wire EXCEPT ![i] = Append(Tail(@), c)]
        PROVE  /\ \A n \in DOMAIN wire'[i] : wire'[i][n].op = "set" => n + 1 \in DOMAIN wire[i] /\ wire'[i][n] = wire[i][n + 1]
               /\ \A n \in DOMAIN wire[i] : n # 1 => n - 1 \in DOMAIN wire'[i] /\ wire'[i][n - 1] = wire[i][n]
    <3>1. wire'[i] = Append(Tail(wire[i]), c)
      BY <2>2 DEF TypeOK
    <3>2. /\ Tail(wire[i]) \in Seq(Command) /\ Len(Tail(wire[i])) = Len(wire[i]) - 1
          /\ DOMAIN wire[i] = 1..Len(wire[i]) /\ Len(wire[i]) \in Nat \ {0}
      BY <1>1
    <3>3. \A n \in 1..(Len(wire[i]) - 1) : Tail(wire[i])[n] = wire[i][n + 1] /\ n + 1 \in DOMAIN wire[i]
      BY <1>1, <3>2
    <3>4. DOMAIN wire'[i] = 1..Len(wire[i]) /\ \A n \in 1..(Len(wire[i]) - 1) : wire'[i][n] = Tail(wire[i])[n]
      BY <3>1, <3>2
    <3>5. wire'[i][Len(wire[i])] = c
      BY <3>1, <3>2
    <3>6. \A n \in DOMAIN wire'[i] : n = Len(wire[i]) \/ n \in 1..(Len(wire[i]) - 1)
      BY <3>2, <3>4
    <3>7. \A n \in DOMAIN wire'[i] : wire'[i][n].op = "set" => n + 1 \in DOMAIN wire[i] /\ wire'[i][n] = wire[i][n + 1]
      BY <2>2, <3>3, <3>4, <3>5, <3>6
    <3>8. \A n \in DOMAIN wire[i] : n # 1 => n - 1 \in 1..(Len(wire[i]) - 1) /\ (n - 1) + 1 = n /\ n - 1 \in 1..Len(wire[i])
      BY <3>2
    <3>9. \A n \in DOMAIN wire[i] : n # 1 => n - 1 \in DOMAIN wire'[i] /\ wire'[i][n - 1] = wire[i][n]
      BY <3>3, <3>4, <3>8
    <3> QED
      BY <3>7, <3>9
  <2> QED
    BY <2>1, <2>2
<1>3. FreshWire(i) => FreshWire(i)'
  BY <1>2 DEF FreshWire
<1>4. Condemns(i) /\ Head(wire[i]).op \notin {"scan", "del"} => Condemns(i)'
  BY <1>1, <1>2 DEF Condemns
<1>5. \A j \in Replicas \ {i} : (FreshWire(j) => FreshWire(j)') /\ (Condemns(j) => Condemns(j)')
  BY <1>1 DEF FreshWire, Condemns
<1> QED
  BY <1>3, <1>4, <1>5

\* A step that stores nothing and leaves the invalidations alone.
LEMMA FreshKept ==
  ASSUME FreshInv, UNCHANGED <<document, redis, up, memory>>,
         \A w \in Writers : writer[w].pc = "wrote" => writer'[w].pc = "wrote" \/ \E i \in Replicas : Condemns(i)',
         \A i \in Replicas : Condemns(i) => Condemns(i)',
         \A i \in Replicas : FreshWire(i) => FreshWire(i)',
         \A i \in Replicas : FreshFlight(i)'
  PROVE  FreshInv'
BY DEF FreshInv, StaleIsCondemned, Condemned

LEMMA JoinFresh ==
  ASSUME TypeOK, UNCHANGED document, NEW r \in Readers, JoinOrFetch(r),
         \A i \in Replicas : FreshFlight(i)
  PROVE  \A i \in Replicas : FreshFlight(i)'
<1>1. \A i \in Replicas : inFlight'[i] = inFlight[i] \/ inFlight'[i] = [phase |-> "fetch"]
  BY DEF JoinOrFetch, TypeOK
<1> QED
  BY <1>1 DEF FreshFlight, FlightCarries

LEMMA ReaderFresh ==
  ASSUME TypeOK, FreshInv, NEW r \in Readers, ReaderNext(r)
  PROVE  FreshInv'
<1>1. Home(r) \in Replicas
  BY HomeType
<1>2. UNCHANGED <<document, redis, up, memory, writer>>
  BY DEF ReaderNext, ReadRedis, ReadMemory, GetTimesOut, Return
<1>3. /\ \A i \in Replicas : Condemns(i) => Condemns(i)'
      /\ \A i \in Replicas : FreshWire(i) => FreshWire(i)'
  <2>1. CASE ReadRedis(r)
    <3>1. Issue(Home(r), [op |-> "get", by |-> r])
      BY <2>1 DEF ReadRedis
    <3> QED
      BY <1>1, <1>2, <3>1, IssueFresh
  <2>2. CASE GetTimesOut(r)
    BY <1>1, <1>2, <2>2, GiveUpFresh DEF GetTimesOut
  <2>3. CASE ReadMemory(r) \/ Return(r)
    BY <1>2, <2>3 DEF ReadMemory, Return, Condemns, FreshWire
  <2> QED
    BY <2>1, <2>2, <2>3 DEF ReaderNext
<1>4. \A i \in Replicas : FreshFlight(i)'
  <2>1. inFlight' = inFlight \/ JoinOrFetch(r)
    BY DEF ReaderNext, ReadRedis, ReadMemory, GetTimesOut, Return
  <2>2. \A i \in Replicas : FreshFlight(i)
    BY DEF FreshInv
  <2>3. CASE inFlight' = inFlight
    BY <1>2, <2>2, <2>3 DEF FreshFlight, FlightCarries
  <2>4. CASE JoinOrFetch(r)
    BY <1>2, <2>2, <2>4, JoinFresh
  <2> QED
    BY <2>1, <2>3, <2>4
<1> QED
  BY <1>2, <1>3, <1>4, FreshKept

LEMMA WriterFresh ==
  ASSUME TypeOK, FreshInv, WriteOverlapsNone, NEW w \in Writers, WriterNext(w)
  PROVE  FreshInv'
<1>1. CASE Write(w)
  <2>1. UNCHANGED <<up, wire, memory, inFlight>>
    BY <1>1 DEF Write
  <2>2. \A i \in Replicas : ~FlightCarries(i) /\ ~WireCarries(i)
    BY <1>1 DEF WriteOverlapsNone
  <2>3. \A i \in Replicas : FreshFlight(i)' /\ FreshWire(i)'
    BY <2>1, <2>2 DEF FreshFlight, FreshWire, FlightCarries, WireCarries
  <2>4. Condemned'
    BY <1>1 DEF Write, Condemned, TypeOK
  <2> QED
    BY <2>1, <2>3, <2>4 DEF FreshInv, StaleIsCondemned
<1>2. CASE InvalidateTimesOut(w)
  <2>1. writer[w].at \in Replicas
    BY <1>2, WriterTypes DEF InvalidateTimesOut, TypeOK
  <2>2. UNCHANGED <<document, redis, up, memory, inFlight>>
    BY <1>2 DEF InvalidateTimesOut
  <2>3. wire' = [wire EXCEPT ![writer[w].at] = Abandoned(@, w)]
    BY <1>2 DEF InvalidateTimesOut
  <2>4. \A i \in Replicas : (FreshWire(i) => FreshWire(i)') /\ (Condemns(i) => Condemns(i)')
    BY <2>1, <2>2, <2>3, GiveUpFresh
  <2>5. \A v \in Writers : writer[v].pc = "wrote" => writer'[v].pc = "wrote"
    BY <1>2 DEF InvalidateTimesOut, Settle, TypeOK
  <2>6. \A i \in Replicas : FreshFlight(i)'
    BY <2>2 DEF FreshInv, FreshFlight, FlightCarries
  <2> QED
    BY <2>2, <2>4, <2>5, <2>6, FreshKept
<1>3. ASSUME NEW i \in Replicas, InvalidateRedis(w, i)
      PROVE  FreshInv'
  <2> DEFINE c == [op |-> "scan", by |-> w]
  <2>1. UNCHANGED <<document, redis, up, memory, inFlight>> /\ Issue(i, c) /\ c.op = "scan"
    BY <1>3 DEF InvalidateRedis
  <2> HIDE DEF c
  <2>2. \A j \in Replicas : (FreshWire(j) => FreshWire(j)') /\ (Condemns(j) => Condemns(j)')
    BY <2>1, IssueFresh
  <2>3. Condemns(i)'
    <3>1. wire[i] \in Seq(Command) /\ wire'[i] = Append(wire[i], c)
      BY <2>1 DEF TypeOK, Issue
    <3>2. Len(wire[i]) + 1 \in DOMAIN wire'[i] /\ wire'[i][Len(wire[i]) + 1] = c
      BY <3>1
    <3> QED
      BY <2>1, <3>2 DEF Condemns
  <2>4. \A j \in Replicas : FreshFlight(j)'
    BY <2>1 DEF FreshInv, FreshFlight, FlightCarries
  <2> QED
    BY <2>1, <2>2, <2>3, <2>4, FreshKept
<1>4. ASSUME NEW i \in Replicas, InvalidateMemory(w, i)
      PROVE  FreshInv'
  BY <1>4 DEF InvalidateMemory, FreshInv
<1> QED
  BY <1>1, <1>2, <1>3, <1>4 DEF WriterNext

LEMMA ReplicaFresh ==
  ASSUME "down" \notin Troubles, TypeOK, FreshInv, NEW i \in Replicas, ReplicaNext(i)
  PROVE  FreshInv'
<1>1. CASE FetchReads(i)
  <2>1. UNCHANGED <<document, redis, up, wire, memory, writer>>
    BY <1>1 DEF FetchReads
  <2>2. /\ inFlight'[i] = [phase |-> "fetched", version |-> document]
        /\ \A j \in Replicas \ {i} : inFlight'[j] = inFlight[j]
    BY <1>1 DEF FetchReads, TypeOK
  <2>3. \A j \in Replicas : FreshFlight(j)'
    BY <2>1, <2>2 DEF FreshInv, FreshFlight, FlightCarries
  <2>4. \A j \in Replicas : (FreshWire(j) => FreshWire(j)') /\ (Condemns(j) => Condemns(j)')
    BY <2>1 DEF FreshWire, Condemns
  <2> QED
    BY <2>1, <2>3, <2>4, FreshKept
<1>2. CASE FetchReturns(i)
  <2> DEFINE c == [op |-> "set", by |-> i, version |-> inFlight[i].version]
  <2>1. up[i] /\ inFlight[i].version = document
    BY <1>2 DEF FetchReturns, FreshInv, FreshFlight, FlightCarries
  <2>2. UNCHANGED <<document, redis, up, memory, writer>> /\ Issue(i, c) /\ c.version = document
    BY <1>2, <2>1 DEF FetchReturns
  <2> HIDE DEF c
  <2>3. \A j \in Replicas : (FreshWire(j) => FreshWire(j)') /\ (Condemns(j) => Condemns(j)')
    BY <2>2, IssueFresh
  <2>4. /\ inFlight'[i] = [phase |-> "write", version |-> document]
        /\ \A j \in Replicas \ {i} : inFlight'[j] = inFlight[j]
    BY <1>2, <2>1 DEF FetchReturns, TypeOK
  <2>5. \A j \in Replicas : FreshFlight(j)'
    BY <2>2, <2>4 DEF FreshInv, FreshFlight, FlightCarries
  <2> QED
    BY <2>2, <2>3, <2>5, FreshKept
<1>3. CASE FetchFails(i) \/ SetTimesOut(i)
  <2>1. UNCHANGED <<document, redis, up, memory, writer>>
    BY <1>3 DEF FetchFails, SetTimesOut
  <2>2. inFlight'[i] = None /\ \A j \in Replicas \ {i} : inFlight'[j] = inFlight[j]
    BY <1>3 DEF FetchFails, SetTimesOut, TypeOK
  <2>3. \A j \in Replicas : FreshFlight(j)'
    BY <2>1, <2>2 DEF FreshInv, FreshFlight, FlightCarries
  <2>4. \A j \in Replicas : (FreshWire(j) => FreshWire(j)') /\ (Condemns(j) => Condemns(j)')
    <3>1. CASE FetchFails(i)
      BY <2>1, <3>1 DEF FetchFails, FreshWire, Condemns
    <3>2. CASE SetTimesOut(i)
      BY <2>1, <3>2, GiveUpFresh DEF SetTimesOut
    <3> QED
      BY <1>3, <3>1, <3>2
  <2> QED
    BY <2>1, <2>3, <2>4, FreshKept
<1>4. CASE AnswerGet(i)
  <2>1. UNCHANGED <<document, redis, up, memory, writer>> /\ Executed(i)
    BY <1>4 DEF AnswerGet
  <2>2. wire[i] # <<>> /\ Head(wire[i]).op = "get"
    BY <1>4 DEF AnswerGet, Answer
  <2>3. \A j \in Replicas : (FreshWire(j) => FreshWire(j)') /\ (Condemns(j) => Condemns(j)')
    BY <2>1, <2>2, ExecutedFresh
  <2>4. \A j \in Replicas : FreshFlight(j)'
    <3>1. Head(wire[i]).by = None \/ Head(wire[i]).by \in Readers
      BY <2>2, HeadType, CommandFields
    <3>2. inFlight' = inFlight \/ \E r \in Readers : JoinOrFetch(r)
      BY <1>4, <3>1 DEF AnswerGet
    <3>3. \A j \in Replicas : FreshFlight(j)
      BY DEF FreshInv
    <3>4. CASE inFlight' = inFlight
      BY <2>1, <3>3, <3>4 DEF FreshFlight, FlightCarries
    <3>5. CASE \E r \in Readers : JoinOrFetch(r)
      BY <2>1, <3>3, <3>5, JoinFresh
    <3> QED
      BY <3>2, <3>4, <3>5
  <2> QED
    BY <2>1, <2>3, <2>4, FreshKept
<1>5. CASE AnswerSet(i)
  <2>1. UNCHANGED <<document, up, memory, writer>> /\ Executed(i)
    BY <1>5 DEF AnswerSet
  <2>2. wire[i] # <<>> /\ Head(wire[i]).op = "set" /\ redis' = Head(wire[i]).version
    BY <1>5 DEF AnswerSet, Answer
  <2>3. redis' = document
    <3>1. wire[i] \in Seq(Command) /\ 1 \in DOMAIN wire[i] /\ Head(wire[i]) = wire[i][1]
      BY <2>2 DEF TypeOK
    <3> QED
      BY <2>2, <3>1 DEF FreshInv, FreshWire
  <2>4. \A j \in Replicas : FreshWire(j) => FreshWire(j)'
    BY <2>1, <2>2, ExecutedFresh
  <2>5. \A j \in Replicas : inFlight'[j] = inFlight[j] \/ inFlight'[j] = None
    BY <1>5 DEF AnswerSet, TypeOK
  <2>6. \A j \in Replicas : FreshFlight(j)'
    BY <2>1, <2>5 DEF FreshInv, FreshFlight, FlightCarries
  <2> QED
    BY <2>1, <2>3, <2>4, <2>6 DEF FreshInv, StaleIsCondemned
<1>6. CASE AnswerScan(i) \/ AnswerDel(i)
  <2> DEFINE d == [op |-> "del", by |-> Head(wire[i]).by]
  <2>1. UNCHANGED <<document, up, memory, inFlight>> /\ wire[i] # <<>>
    BY <1>6 DEF AnswerScan, AnswerDel, Answer
  <2>2. \/ redis' = None /\ Executed(i)
        \/ redis' = redis /\ wire' = [wire EXCEPT ![i] = Append(Tail(@), d)]
    BY <1>6 DEF AnswerScan, AnswerDel
  <2>3. d.op = "del"
    OBVIOUS
  <2> HIDE DEF d
  <2>4. Executed(i) \/ \E c : c.op = "del" /\ wire' = [wire EXCEPT ![i] = Append(Tail(@), c)]
    BY <2>2, <2>3
  <2>5. \A j \in Replicas : FreshWire(j) => FreshWire(j)'
    BY <2>1, <2>4, ExecutedFresh
  <2>6. redis' = None \/ Condemns(i)'
    <3>1. CASE wire' = [wire EXCEPT ![i] = Append(Tail(@), d)]
      <4>1. wire'[i] = Append(Tail(wire[i]), d) /\ Tail(wire[i]) \in Seq(Command)
        BY <2>1, <3>1, HeadType DEF TypeOK
      <4>2. Len(Tail(wire[i])) + 1 \in DOMAIN wire'[i] /\ wire'[i][Len(Tail(wire[i])) + 1] = d
        BY <4>1
      <4> QED
        BY <2>3, <4>2 DEF Condemns
    <3> QED
      BY <2>2, <3>1
  <2>7. \A j \in Replicas : FreshFlight(j)'
    BY <2>1 DEF FreshInv, FreshFlight, FlightCarries
  <2> QED
    BY <2>1, <2>5, <2>6, <2>7 DEF FreshInv, StaleIsCondemned, Condemned
<1>7. CASE ExpireMemory(i) \/ SwitchConnection(i)
  BY <1>7 DEF ExpireMemory, SwitchConnection, FreshInv, StaleIsCondemned
<1> QED
  BY <1>1, <1>2, <1>3, <1>4, <1>5, <1>6, <1>7 DEF ReplicaNext, AnswerNext

\* cacheInvalidate misses a stale copy in two ways only: a replica has fallen back
\* to its own memory, or a write came between a fetch's read of MongoDB and the
\* landing of its SET. Otherwise a copy that is not the document as it is stays
\* only until an invalidation already asked for, or about to be, is executed,
\* however late and though its caller has given it up.
THEOREM StaleCondemned ==
  ASSUME "down" \notin Troubles
  PROVE  Spec /\ WritesOverlapNone => []StaleIsCondemned
<1>1. Init => FreshInv
  <2> SUFFICES ASSUME Init
               PROVE  FreshInv
    OBVIOUS
  <2>1. \A i \in Replicas : up[i]
    <3>1. (IF "down" \in Troubles THEN BOOLEAN ELSE {TRUE}) = {TRUE}
      OBVIOUS
    <3>2. up \in [Replicas -> {TRUE}]
      BY <3>1, Zenon DEF Init
    <3> QED
      BY <3>2
  <2>2. /\ redis = None /\ wire = [i \in Replicas |-> <<>>] /\ memory = [i \in Replicas |-> None]
        /\ inFlight = [i \in Replicas |-> None]
    BY Zenon DEF Init
  <2>3. \A i \in Replicas : FreshFlight(i) /\ FreshWire(i)
    <3>1. \A i \in Replicas : inFlight[i] = None /\ wire[i] = <<>>
      BY <2>2
    <3>2. DOMAIN <<>> = {}
      OBVIOUS
    <3> QED
      BY <3>1, <3>2, Zenon DEF FreshFlight, FlightCarries, FreshWire
  <2>4. StaleIsCondemned
    BY <2>2 DEF StaleIsCondemned
  <2> QED
    BY <2>1, <2>3, <2>4 DEF FreshInv
<1>2. TypeOK /\ FreshInv /\ [Next]_vars /\ [WriteOverlapsNone]_vars => FreshInv'
  <2> SUFFICES ASSUME TypeOK, FreshInv, [Next]_vars, [WriteOverlapsNone]_vars
               PROVE  FreshInv'
    OBVIOUS
  <2>1. CASE UNCHANGED vars
    BY <2>1 DEF vars, FreshInv, StaleIsCondemned, Condemned, Condemns, FreshFlight, FlightCarries, FreshWire
  <2>2. CASE Next /\ ~UNCHANGED vars
    <3>1. WriteOverlapsNone
      BY <2>2
    <3>2. CASE \E r \in Readers : ReaderNext(r)
      BY <3>2, ReaderFresh
    <3>3. CASE \E w \in Writers : WriterNext(w)
      BY <3>1, <3>3, WriterFresh
    <3>4. CASE \E i \in Replicas : ReplicaNext(i)
      BY <3>4, ReplicaFresh
    <3>5. CASE ExpireRedis
      BY <3>5 DEF ExpireRedis, FreshInv, StaleIsCondemned, FreshFlight, FlightCarries, FreshWire
    <3> QED
      BY <2>2, <3>2, <3>3, <3>4, <3>5 DEF Next
  <2> QED
    BY <2>1, <2>2
<1>3. FreshInv => StaleIsCondemned
  BY DEF FreshInv
<1> QED
  BY <1>1, <1>2, <1>3, TypeCorrect, PTL DEF Spec, WritesOverlapNone
=============================================================================
