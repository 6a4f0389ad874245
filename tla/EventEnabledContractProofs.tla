---- MODULE EventEnabledContractProofs ----
(***************************************************************************)
(* The JavaScript client's event stream, proved for any number of streams, *)
(* listeners, contracts and deploys.                                       *)
(***************************************************************************)
EXTENDS EventEnabledContract, SequenceTheorems, WellFoundedInduction, TLAPS

(***************************************************************************)
(* Induction, by the least counterexample.                                 *)
(***************************************************************************)
LEMMA LeastNatural ==
  ASSUME NEW T, T \subseteq Nat, T # {}
  PROVE  \E n \in T : \A m \in T : n <= m
<1> DEFINE R == {pair \in Nat \X Nat : pair[1] < pair[2]}
<1>1. IsWellFoundedOn(R, Nat)
  BY NatLessThanWellFounded, Zenon DEF OpToRel
<1> HIDE DEF R
<1>2. PICK n \in T : \A m \in T : <<m, n>> \notin R
  BY <1>1, WFMin
<1>3. ASSUME NEW m \in T PROVE n <= m
  <2>1. <<m, n>> \in Nat \X Nat /\ <<m, n>>[1] = m /\ <<m, n>>[2] = n
    OBVIOUS
  <2>2. ~(m < n)
    BY <1>2, <2>1 DEF R
  <2>3. QED
    BY <2>2
<1>4. QED
  BY <1>3

\* Induction up to a bound, on the set of numbers a statement holds for.
LEMMA UpTo ==
  ASSUME NEW N \in Nat, NEW H, 0 \in H, \A n \in 1..N : n - 1 \in H => n \in H
  PROVE  0..N \subseteq H
<1> DEFINE T == (0..N) \ H
<1>1. SUFFICES ASSUME T # {} PROVE FALSE
  OBVIOUS
<1>2. PICK n \in T : \A m \in T : n <= m
  <2>1. T \subseteq Nat
    OBVIOUS
  <2> HIDE DEF T
  <2>2. QED
    BY <1>1, <2>1, LeastNatural
<1>3. n \in 1..N /\ n - 1 \in 0..N
  BY <1>2
<1>4. n - 1 \in H
  BY <1>2, <1>3
<1>5. QED
  BY <1>2, <1>3, <1>4

(***************************************************************************)
(* filter                                                                  *)
(***************************************************************************)
LEMMA AppendElements ==
  ASSUME NEW S, NEW list \in Seq(S), NEW e \in S
  PROVE  Append(list, e) \in Seq(S) /\ Elements(Append(list, e)) = Elements(list) \cup {e}
<1>1. /\ Len(list) \in Nat /\ DOMAIN list = 1..Len(list)
      /\ Append(list, e) \in Seq(S) /\ Len(Append(list, e)) = Len(list) + 1
      /\ DOMAIN Append(list, e) = 1..(Len(list) + 1)
      /\ \A i \in 1..Len(list) : Append(list, e)[i] = list[i]
      /\ Append(list, e)[Len(list) + 1] = e
  BY LenProperties, AppendProperties
<1>2. ASSUME NEW x PROVE x \in Elements(Append(list, e)) <=> x \in Elements(list) \/ x = e
  BY <1>1 DEF Elements
<1>3. QED
  BY <1>1, <1>2

\* The recursive definition of filter: what the n-th step makes of the steps before it, and a
\* function that solves it up to m.
FilterStep(list, f, g, n) ==
    IF n = 0 THEN <<>> ELSE IF list[n] = f THEN g[n - 1] ELSE Append(g[n - 1], list[n])

Filters(list, f, g, m) == g = [n \in 0..m |-> FilterStep(list, f, g, n)]

LEMMA FilterExtends ==
  ASSUME NEW list, NEW f, NEW m \in Nat \ {0}, NEW g, Filters(list, f, g, m - 1)
  PROVE  \E h : Filters(list, f, h, m)
<1> DEFINE h == [n \in 0..m |-> IF n = m THEN FilterStep(list, f, g, m) ELSE g[n]]
<1>1. ASSUME NEW n \in 0..m PROVE h[n] = FilterStep(list, f, h, n)
  <2>1. n # 0 => n - 1 \in 0..m /\ n - 1 # m
    OBVIOUS
  <2>2. n # 0 => h[n - 1] = g[n - 1]
    BY <2>1
  <2>3. FilterStep(list, f, h, n) = FilterStep(list, f, g, n)
    BY <2>2 DEF FilterStep
  <2>4. CASE n = m
    BY <2>3, <2>4
  <2>5. CASE n # m
    <3>1. n \in 0..(m - 1)
      BY <2>5
    <3>2. g[n] = FilterStep(list, f, g, n)
      BY <3>1 DEF Filters
    <3>3. QED
      BY <2>3, <2>5, <3>2
  <2>6. QED
    BY <2>4, <2>5
<1>2. h = [n \in 0..m |-> h[n]]
  OBVIOUS
<1> HIDE DEF h
<1>3. h = [n \in 0..m |-> FilterStep(list, f, h, n)]
  BY <1>1, <1>2
<1>4. QED
  BY <1>3 DEF Filters

LEMMA FilterExists ==
  ASSUME NEW list, NEW f, NEW N \in Nat
  PROVE  \E g : Filters(list, f, g, N)
<1> DEFINE H == {m \in 0..N : \E g : Filters(list, f, g, m)}
<1>1. \E g : Filters(list, f, g, 0)
  <2> DEFINE g == [n \in 0..0 |-> <<>>]
  <2>1. g = [n \in 0..0 |-> FilterStep(list, f, g, n)]
    BY DEF FilterStep
  <2> HIDE DEF g
  <2>2. QED
    BY <2>1 DEF Filters
<1>2. 0 \in H
  BY <1>1
<1>3. ASSUME NEW m \in 1..N, m - 1 \in H PROVE m \in H
  BY <1>3, FilterExtends
<1>4. N \in 0..N
  OBVIOUS
<1> HIDE DEF H
<1>5. N \in H
  BY <1>2, <1>3, <1>4, UpTo
<1>6. QED
  BY <1>5 DEF H

\* filter keeps the other listeners and no one else: what the recursive definition computes.
LEMMA WithoutFacts ==
  ASSUME NEW S, NEW list \in Seq(S), NEW f
  PROVE  /\ Without(list, f) \in Seq(S)
         /\ Elements(Without(list, f)) = Elements(list) \ {f}
<1> DEFINE N == Len(list)
           kept == CHOOSE g : Filters(list, f, g, N)
           First(n) == {list[i] : i \in 1..n}
           H == {n \in 0..N : kept[n] \in Seq(S) /\ Elements(kept[n]) = First(n) \ {f}}
<1>1. N \in Nat /\ DOMAIN list = 1..N /\ \A n \in 1..N : list[n] \in S
  BY LenProperties, ElementOfSeq
<1>2. Without(list, f) = kept[N]
  BY DEF Without, Filters, FilterStep
<1>3. Filters(list, f, kept, N)
  BY <1>1, FilterExists
<1> HIDE DEF kept
<1>4. ASSUME NEW n \in 0..N PROVE kept[n] = FilterStep(list, f, kept, n)
  BY <1>3 DEF Filters
<1>5. 0 \in H
  <2>1. kept[0] = <<>>
    BY <1>1, <1>4 DEF FilterStep
  <2>2. <<>> \in Seq(S) /\ Elements(<<>>) = {} /\ First(0) = {}
    BY DEF Elements
  <2> HIDE DEF First
  <2>3. kept[0] \in Seq(S) /\ Elements(kept[0]) = First(0) \ {f}
    BY <2>1, <2>2
  <2>4. QED
    BY <1>1, <2>3
<1>6. ASSUME NEW n \in 1..N, n - 1 \in H PROVE n \in H
  <2>1. n \in 0..N /\ n # 0 /\ list[n] \in S /\ kept[n] = FilterStep(list, f, kept, n)
    BY <1>1, <1>4
  <2>2. First(n) = First(n - 1) \cup {list[n]}
    <3>1. 1..n = (1..(n - 1)) \cup {n}
      BY <1>1
    <3>2. QED
      BY <3>1
  <2>3. kept[n - 1] \in Seq(S) /\ Elements(kept[n - 1]) = First(n - 1) \ {f}
    BY <1>6
  <2> HIDE DEF First
  <2>4. CASE list[n] = f
    <3>1. kept[n] = kept[n - 1]
      BY <2>1, <2>4 DEF FilterStep
    <3>2. QED
      BY <2>1, <2>2, <2>3, <2>4, <3>1
  <2>5. CASE list[n] # f
    <3>1. kept[n] = Append(kept[n - 1], list[n])
      BY <2>1, <2>5 DEF FilterStep
    <3>2. kept[n] \in Seq(S) /\ Elements(kept[n]) = Elements(kept[n - 1]) \cup {list[n]}
      BY <2>1, <2>3, <3>1, AppendElements
    <3>3. QED
      BY <2>1, <2>2, <2>3, <2>5, <3>2
  <2>6. QED
    BY <2>4, <2>5
<1> HIDE DEF H
<1>7. N \in H
  <2>1. 0..N \subseteq H
    BY <1>1, <1>5, <1>6, UpTo
  <2>2. QED
    BY <1>1, <2>1
<1>8. QED
  BY <1>1, <1>2, <1>7 DEF H, Elements

(***************************************************************************)
(* Setting up                                                              *)
(***************************************************************************)
Stages == {"uncalled", "parsing", "starting", "started", "done", "failed"}

\* A set-up waits for a parser of a contract or for a stream to start.
SetupsInv ==
    /\ contractHash \in Hash \cup {None}
    /\ parser \in Hash \cup {None}
    /\ eventStream \in Stream \cup {None}
    /\ setups \in [Stream -> [stage : Stages, what : Hash \cup Stream \cup {None}]]
    /\ feeds \in [Stream -> Nat]
    /\ subscribed \subseteq Stream
    /\ wanted \in Hash \cup {None}
    /\ \A s \in Stream : Stage(s) = "parsing" => setups[s].what \in Hash
    /\ \A s \in Stream : Stage(s) = "starting" => setups[s].what \in Stream
    /\ \A s \in Stream : Stage(s) \notin {"parsing", "starting"} => setups[s].what = None
    /\ \A s \in Stream : Stage(s) # "uncalled" => eventStream \in Stream

\* The set-up of the newest stream can only start its own.
NewestInv ==
    \A s \in Stream : eventStream = s =>
        /\ Stage(s) = "starting" => setups[s].what = s
        /\ Stage(s) \in {"started", "done"} => feeds[s] > 0
        /\ Stage(s) = "done" => s \in subscribed

StreamInv == SetupsInv /\ NewestInv

LEMMA SetupFields ==
  ASSUME NEW stage \in Stages, NEW what \in Hash \cup Stream \cup {None}
  PROVE  /\ Setup(stage, what) \in [stage : Stages, what : Hash \cup Stream \cup {None}]
         /\ Setup(stage, what).stage = stage /\ Setup(stage, what).what = what
BY DEF Setup

\* What the five steps of a set-up leave of the others.
LEMMA StageWritten ==
  ASSUME SetupsInv, NEW s \in Stream, NEW stage \in Stages,
         NEW what \in Hash \cup Stream \cup {None},
         setups' = [setups EXCEPT ![s] = Setup(stage, what)]
  PROVE  /\ setups' \in [Stream -> [stage : Stages, what : Hash \cup Stream \cup {None}]]
         /\ Stage(s)' = stage /\ setups'[s].what = what
         /\ \A t \in Stream \ {s} : setups'[t] = setups[t] /\ Stage(t)' = Stage(t)
<1>1. setups \in [Stream -> [stage : Stages, what : Hash \cup Stream \cup {None}]]
  BY DEF SetupsInv
<1>2. Setup(stage, what) \in [stage : Stages, what : Hash \cup Stream \cup {None}]
  BY SetupFields
<1>3. setups'[s] = Setup(stage, what) /\ \A t \in Stream \ {s} : setups'[t] = setups[t]
  BY <1>1
<1>4. setups' \in [Stream -> [stage : Stages, what : Hash \cup Stream \cup {None}]]
  BY <1>1, <1>2
<1>5. QED
  BY <1>3, <1>4, SetupFields DEF Stage

LEMMA SetupStep ==
  ASSUME StreamInv, NEW s \in Stream, setupEventStream(s)
  PROVE  StreamInv'
<1>1. /\ Stage(s) = "uncalled" /\ eventStream' = s
      /\ setups' = [setups EXCEPT ![s] = firstAwait(s)]
      /\ wanted' = contractHash
      /\ UNCHANGED <<contractHash, parser, feeds, subscribed>>
  BY DEF setupEventStream
<1>2. PICK stage \in {"starting", "failed", "parsing"}, what \in Hash \cup Stream \cup {None} :
         /\ firstAwait(s) = Setup(stage, what)
         /\ stage = "starting" => what = s
         /\ stage = "parsing" => what \in Hash
         /\ stage = "failed" => what = None
  BY DEF firstAwait, StreamInv, SetupsInv
<1>3. stage \in Stages
  BY DEF Stages
<1>4. /\ setups' \in [Stream -> [stage : Stages, what : Hash \cup Stream \cup {None}]]
      /\ Stage(s)' = stage /\ setups'[s].what = what
      /\ \A t \in Stream \ {s} : setups'[t] = setups[t] /\ Stage(t)' = Stage(t)
  BY <1>1, <1>2, <1>3, StageWritten DEF StreamInv
<1>5. SetupsInv'
  BY <1>1, <1>2, <1>4 DEF StreamInv, SetupsInv
<1>6. NewestInv'
  BY <1>1, <1>2, <1>4 DEF NewestInv
<1>7. QED
  BY <1>5, <1>6 DEF StreamInv

\* A step of a set-up under way, to a stage that is not parsing, while the stream stays.
LEMMA SetupsAdvance ==
  ASSUME StreamInv, NEW s \in Stream, NEW stage \in {"starting", "started", "done", "failed"},
         NEW what \in Stream \cup {None},
         IF stage = "starting" THEN what \in Stream ELSE what = None,
         s \in UnderWay, setups' = [setups EXCEPT ![s] = Setup(stage, what)],
         UNCHANGED <<contractHash, eventStream, wanted>>,
         parser' \in Hash \cup {None}, feeds' \in [Stream -> Nat], subscribed' \subseteq Stream
  PROVE  SetupsInv'
<1>1. stage \in Stages
  BY DEF Stages
<1>2. /\ setups' \in [Stream -> [stage : Stages, what : Hash \cup Stream \cup {None}]]
      /\ Stage(s)' = stage /\ setups'[s].what = what
      /\ \A t \in Stream \ {s} : setups'[t] = setups[t] /\ Stage(t)' = Stage(t)
  BY <1>1, StageWritten DEF StreamInv
<1>3. Stage(s) # "uncalled"
  BY DEF UnderWay
<1>4. QED
  BY <1>2, <1>3 DEF StreamInv, SetupsInv

LEMMA ProgressStep ==
  ASSUME StreamInv, NEW s \in Stream, Progress(s)
  PROVE  StreamInv'
<1>1. /\ parser \in Hash \cup {None} /\ feeds \in [Stream -> Nat] /\ subscribed \subseteq Stream
      /\ setups \in [Stream -> [stage : Stages, what : Hash \cup Stream \cup {None}]]
      /\ Stage(s) = "parsing" => setups[s].what \in Hash
      /\ Stage(s) = "starting" => setups[s].what \in Stream
      /\ Stage(s) # "uncalled" => eventStream \in Stream
  BY DEF StreamInv, SetupsInv
<1>2. CASE parserCreated(s)
  <2>1. /\ Stage(s) = "parsing" /\ s \in UnderWay
        /\ UNCHANGED <<contractHash, eventStream, feeds, subscribed, wanted>>
    BY <1>2 DEF parserCreated, UnderWay
  <2>2. PICK stage \in {"starting", "failed"}, what \in Stream \cup {None} :
           /\ setups' = [setups EXCEPT ![s] = Setup(stage, what)]
           /\ stage = "starting" => what = eventStream /\ parser' = setups[s].what
           /\ stage = "failed" => what = None /\ parser' = parser
    BY <1>1, <1>2, <2>1 DEF parserCreated
  <2>3. parser' \in Hash \cup {None}
    BY <1>1, <2>1, <2>2
  <2>4. SetupsInv'
    BY <1>1, <2>1, <2>2, <2>3, SetupsAdvance
  <2>5. stage \in Stages
    BY DEF Stages
  <2>6. /\ Stage(s)' = stage /\ setups'[s].what = what
        /\ \A t \in Stream \ {s} : setups'[t] = setups[t] /\ Stage(t)' = Stage(t)
    BY <2>2, <2>5, StageWritten DEF StreamInv
  <2>7. NewestInv'
    BY <2>1, <2>2, <2>6 DEF StreamInv, NewestInv
  <2>8. QED
    BY <2>4, <2>7 DEF StreamInv
<1>3. CASE streamStarted(s)
  <2>1. /\ Stage(s) = "starting" /\ s \in UnderWay /\ setups[s].what \in Stream
        /\ UNCHANGED <<contractHash, parser, eventStream, subscribed, wanted>>
    BY <1>1, <1>3 DEF streamStarted, history, UnderWay
  <2>2. PICK stage \in {"started", "failed"} :
           /\ setups' = [setups EXCEPT ![s] = Setup(stage, None)]
           /\ stage = "started" => feeds' = [feeds EXCEPT ![setups[s].what] = @ + 1]
           /\ stage = "failed" => feeds' = feeds
    BY <1>3 DEF streamStarted
  <2>3. /\ feeds' \in [Stream -> Nat] /\ \A t \in Stream : feeds[t] > 0 => feeds'[t] > 0
        /\ stage = "started" => feeds'[setups[s].what] > 0
    BY <1>1, <2>1, <2>2
  <2>4. SetupsInv'
    BY <1>1, <2>1, <2>2, <2>3, SetupsAdvance
  <2>5. stage \in Stages
    BY DEF Stages
  <2>6. /\ Stage(s)' = stage /\ setups'[s].what = None
        /\ \A t \in Stream \ {s} : setups'[t] = setups[t] /\ Stage(t)' = Stage(t)
    BY <2>2, <2>5, StageWritten DEF StreamInv
  <2>7. NewestInv'
    BY <2>1, <2>2, <2>3, <2>6 DEF StreamInv, NewestInv
  <2>8. QED
    BY <2>4, <2>7 DEF StreamInv
<1>4. CASE subscribe(s)
  <2>1. /\ Stage(s) = "started" /\ s \in UnderWay
        /\ subscribed' = subscribed \cup {eventStream}
        /\ setups' = [setups EXCEPT ![s] = Setup("done", None)]
        /\ UNCHANGED <<contractHash, parser, eventStream, feeds, wanted>>
    BY <1>4 DEF subscribe, subscriptions, history, UnderWay
  <2>2. subscribed' \subseteq Stream
    BY <1>1, <2>1
  <2>3. SetupsInv'
    BY <1>1, <2>1, <2>2, SetupsAdvance
  <2>4. /\ Stage(s)' = "done" /\ setups'[s].what = None
        /\ \A t \in Stream \ {s} : setups'[t] = setups[t] /\ Stage(t)' = Stage(t)
    BY <2>1, StageWritten DEF StreamInv, Stages
  <2>5. NewestInv'
    BY <2>1, <2>4 DEF StreamInv, NewestInv
  <2>6. QED
    BY <2>3, <2>5 DEF StreamInv
<1>5. QED
  BY <1>2, <1>3, <1>4 DEF Progress

LEMMA StreamInvUnchanged ==
  ASSUME StreamInv, contractHash' \in Hash \cup {None},
         UNCHANGED <<parser, eventStream, setups, feeds, subscribed, wanted>>
  PROVE  StreamInv'
BY DEF StreamInv, SetupsInv, NewestInv, Stage

LEMMA StreamInvInit == Init => StreamInv
<1> SUFFICES ASSUME Init PROVE StreamInv
  OBVIOUS
<1>1. \A s \in Stream : /\ setups[s] = Setup("uncalled", None)
                        /\ Stage(s) = "uncalled" /\ setups[s].what = None
  BY SetupFields DEF Init, Stages, Stage
<1>2. setups \in [Stream -> [stage : Stages, what : Hash \cup Stream \cup {None}]]
  BY SetupFields DEF Init, Stages
<1>3. SetupsInv
  BY <1>1, <1>2 DEF Init, SetupsInv
<1>4. NewestInv
  BY <1>1 DEF Init, NewestInv
<1>5. QED
  BY <1>3, <1>4 DEF StreamInv

LEMMA StreamInvStep == StreamInv /\ [Next]_vars => StreamInv'
<1> SUFFICES ASSUME StreamInv, [Next]_vars PROVE StreamInv'
  OBVIOUS
<1>1. contractHash \in Hash \cup {None}
  BY DEF StreamInv, SetupsInv
<1>2. ASSUME NEW s \in Stream, setupEventStream(s) \/ Progress(s) \/ deployProcessed(s)
      PROVE  StreamInv'
  BY <1>1, <1>2, SetupStep, ProgressStep, StreamInvUnchanged DEF deployProcessed, client, history
<1>3. ASSUME NEW h \in Hash, setContractHash(h) \/ nodeProcesses(h)
      PROVE  StreamInv'
  BY <1>1, <1>3, StreamInvUnchanged DEF setContractHash, nodeProcesses, client, history
<1>4. ASSUME NEW f \in Listener, addEventListener(f) \/ removeEventListener(f)
      PROVE  StreamInv'
  BY <1>1, <1>4, StreamInvUnchanged DEF addEventListener, removeEventListener, client, history
<1>5. CASE emit \/ emitEnds
  BY <1>1, <1>5, StreamInvUnchanged DEF emit, emitEnds, client, history
<1>6. CASE UNCHANGED vars
  BY <1>1, <1>6, StreamInvUnchanged DEF vars, client, history
<1>7. QED
  BY <1>2, <1>3, <1>4, <1>5, <1>6 DEF Next

(***************************************************************************)
(* Events on their way                                                     *)
(***************************************************************************)
Notice == [deploy : 1..MaxDeploys, contract : Hash]

\* An emit under way calls listeners; none is under way for deploy 0.
DispatchInv ==
    /\ dispatch \in [deploy : 0..MaxDeploys, array : Seq(Listener), next : Nat \ {0}]
    /\ dispatch.deploy = 0 => dispatch.array = <<>>

EventsTypes ==
    /\ listeners \in Seq(Listener)
    /\ queue \in [Stream -> Seq(Notice)]
    /\ processed \in 0..MaxDeploys
    /\ DispatchInv
    /\ heard \cup due \subseteq Listener \X (1..MaxDeploys)

\* The two ways an event can be on its way to a listener.
Sent(f, n) ==
    /\ f \in Elements(listeners)
    /\ \E s \in subscribed : [deploy |-> n, contract |-> parser] \in Elements(queue[s])

Turn(f, n) ==
    /\ dispatch.deploy = n
    /\ \E i \in dispatch.next..Len(dispatch.array) : dispatch.array[i] = f

EventsInv == EventsTypes /\ DueIsOnItsWay

LEMMA Due == DueIsOnItsWay <=> \A f \in Listener, n \in 1..MaxDeploys :
                                   <<f, n>> \in due \ heard => Sent(f, n) \/ Turn(f, n)
BY DEF DueIsOnItsWay, Sent, Turn

\* The head of a queue, and what is left.
LEMMA TailElements ==
  ASSUME NEW S, NEW q \in Seq(S), q # <<>>
  PROVE  /\ Head(q) \in S /\ Tail(q) \in Seq(S)
         /\ \A e \in Elements(q) : e = Head(q) \/ e \in Elements(Tail(q))
<1>1. Head(q) = q[1] /\ Head(q) \in S /\ Tail(q) \in Seq(S) /\ Len(Tail(q)) = Len(q) - 1
      /\ Len(q) \in Nat
  BY HeadTailProperties, LenProperties
<1>2. \A i \in 1..Len(Tail(q)) : Tail(q)[i] = q[i + 1]
  BY HeadTailProperties
<1>3. ASSUME NEW i \in 1..Len(q), i # 1 PROVE q[i] \in Elements(Tail(q))
  <2>1. i - 1 \in 1..Len(Tail(q)) /\ Tail(q)[i - 1] = q[i]
    BY <1>1, <1>2, <1>3
  <2>2. DOMAIN Tail(q) = 1..Len(Tail(q))
    BY <1>1, LenProperties
  <2>3. QED
    BY <2>1, <2>2 DEF Elements
<1>4. DOMAIN q = 1..Len(q)
  BY LenProperties
<1>5. QED
  BY <1>1, <1>3, <1>4 DEF Elements

Copies(k, d) == [i \in 1..k |-> d]

\* A batch of copies of one notice behind what is already queued.
LEMMA BatchElements ==
  ASSUME NEW S, NEW q \in Seq(S), NEW d \in S, NEW k \in Nat,
         NEW more, more = q \o Copies(k, d)
  PROVE  /\ more \in Seq(S)
         /\ Elements(q) \subseteq Elements(more)
         /\ k > 0 => d \in Elements(more)
<1> DEFINE batch == Copies(k, d)
<1>1. batch \in Seq(S) /\ Len(batch) = k /\ \A i \in 1..k : batch[i] = d
  BY DEF Copies
<1>2. Len(q) \in Nat /\ DOMAIN q = 1..Len(q)
  BY LenProperties
<1>3. more \in Seq(S) /\ Len(more) = Len(q) + k /\ DOMAIN more = 1..(Len(q) + k)
  <2> HIDE DEF batch
  <2>1. more = q \o batch
    BY DEF batch
  <2>2. more \in Seq(S) /\ Len(more) = Len(q) + k
    BY <1>1, <2>1
  <2>3. QED
    BY <2>2, LenProperties
<1> HIDE DEF batch
<1>4. \A i \in 1..Len(q) : more[i] = q[i]
  BY <1>1, <1>2 DEF batch
<1>5. k > 0 => more[Len(q) + 1] = d /\ Len(q) + 1 \in 1..(Len(q) + k)
  BY <1>1, <1>2 DEF batch
<1>6. Elements(q) \subseteq Elements(more)
  BY <1>2, <1>3, <1>4 DEF Elements
<1>7. k > 0 => d \in Elements(more)
  BY <1>3, <1>5 DEF Elements
<1>8. QED
  BY <1>3, <1>6, <1>7

LEMMA NoDispatchFacts ==
  /\ NoDispatch \in [deploy : 0..MaxDeploys, array : Seq(Listener), next : Nat \ {0}]
  /\ NoDispatch.deploy = 0 /\ NoDispatch.array = <<>> /\ NoDispatch.next = 1
  /\ Len(NoDispatch.array) = 0
BY EventEnabledContractAssumption DEF NoDispatch

\* While the event loop is free, nobody's turn is still to come.
LEMMA FreeLoop ==
  ASSUME EventLoopFree, NEW f, NEW n
  PROVE  ~Turn(f, n)
BY NoDispatchFacts DEF EventLoopFree, Turn

\* Steps that touch neither the events nor the listeners, and drop no due event out of reach.
LEMMA EventsKept ==
  ASSUME EventsInv, UNCHANGED <<listeners, queue, dispatch, processed, heard>>,
         due' \subseteq due, subscribed \subseteq subscribed', due' = {} \/ parser' = parser
  PROVE  EventsInv'
<1>1. EventsTypes'
  BY DEF EventsInv, EventsTypes, DispatchInv
<1>2. ASSUME NEW f \in Listener, NEW n \in 1..MaxDeploys, <<f, n>> \in due' \ heard'
      PROVE  Sent(f, n)' \/ Turn(f, n)'
  <2>1. parser' = parser /\ <<f, n>> \in due \ heard
    BY <1>2
  <2>2. Sent(f, n) \/ Turn(f, n)
    BY <2>1, Due DEF EventsInv
  <2>3. QED
    BY <2>1, <2>2 DEF Sent, Turn
<1>3. DueIsOnItsWay'
  BY <1>2 DEF DueIsOnItsWay, Sent, Turn
<1>4. QED
  BY <1>1, <1>3 DEF EventsInv

LEMMA AddStep ==
  ASSUME EventsInv, NEW f \in Listener, addEventListener(f)
  PROVE  EventsInv'
<1>1. /\ listeners' = Append(listeners, f) /\ listeners \in Seq(Listener)
      /\ UNCHANGED <<parser, subscribed, queue, dispatch, processed, heard, due>>
  BY DEF addEventListener, client, history, EventsInv, EventsTypes
<1>2. listeners' \in Seq(Listener) /\ Elements(listeners) \subseteq Elements(listeners')
  BY <1>1, AppendElements
<1>3. EventsTypes'
  BY <1>1, <1>2 DEF EventsInv, EventsTypes, DispatchInv
<1>4. DueIsOnItsWay'
  BY <1>1, <1>2 DEF EventsInv, DueIsOnItsWay
<1>5. QED
  BY <1>3, <1>4 DEF EventsInv

LEMMA RemoveStep ==
  ASSUME EventsInv, NEW f \in Listener, removeEventListener(f)
  PROVE  EventsInv'
<1>1. /\ listeners' = Without(listeners, f) /\ listeners \in Seq(Listener)
      /\ due' = {pair \in due : pair[1] # f}
      /\ UNCHANGED <<parser, subscribed, queue, dispatch, processed, heard>>
  BY DEF removeEventListener, dispatchAfterRemoval, client, EventsInv, EventsTypes
<1>2. listeners' \in Seq(Listener) /\ Elements(listeners') = Elements(listeners) \ {f}
  BY <1>1, WithoutFacts
<1>3. EventsTypes'
  BY <1>1, <1>2 DEF EventsInv, EventsTypes, DispatchInv
<1>4. ASSUME NEW g \in Listener, NEW n \in 1..MaxDeploys, <<g, n>> \in due' \ heard'
      PROVE  Sent(g, n)' \/ Turn(g, n)'
  <2>1. <<g, n>> \in due \ heard /\ g # f
    BY <1>1, <1>4
  <2>2. Sent(g, n) \/ Turn(g, n)
    BY <2>1, Due DEF EventsInv
  <2>3. QED
    BY <1>1, <1>2, <2>1, <2>2 DEF Sent, Turn
<1>5. DueIsOnItsWay'
  BY <1>4 DEF DueIsOnItsWay, Sent, Turn
<1>6. QED
  BY <1>3, <1>5 DEF EventsInv

LEMMA NodeStep ==
  ASSUME StreamInv, EventsInv, NEW h \in Hash, nodeProcesses(h)
  PROVE  EventsInv'
<1> DEFINE n0 == processed + 1
           d == [deploy |-> n0, contract |-> h]
<1>1. /\ processed < MaxDeploys /\ processed' = processed + 1
      /\ queue' = [s \in Stream |-> queue[s] \o [i \in 1..feeds[s] |-> d]]
      /\ UNCHANGED <<parser, subscribed, listeners, dispatch, heard>>
  BY DEF nodeProcesses, client
<1>2. \/ due' = due
      \/ /\ eventStream \in subscribed /\ feeds[eventStream] > 0 /\ parser = h
         /\ due' = due \cup (Elements(listeners) \X {n0})
  BY DEF nodeProcesses
<1>3. /\ feeds \in [Stream -> Nat] /\ subscribed \subseteq Stream
      /\ listeners \in Seq(Listener) /\ queue \in [Stream -> Seq(Notice)]
      /\ processed \in 0..MaxDeploys /\ heard \cup due \subseteq Listener \X (1..MaxDeploys)
  BY DEF StreamInv, SetupsInv, EventsInv, EventsTypes
<1>4. n0 \in 1..MaxDeploys /\ processed' \in 0..MaxDeploys /\ d \in Notice
  BY <1>1, <1>3, EventEnabledContractAssumption DEF Notice
<1> HIDE DEF n0, d
<1>5. ASSUME NEW s \in Stream
      PROVE  /\ queue'[s] \in Seq(Notice) /\ Elements(queue[s]) \subseteq Elements(queue'[s])
             /\ feeds[s] > 0 => d \in Elements(queue'[s])
  <2>1. queue[s] \in Seq(Notice) /\ feeds[s] \in Nat
    BY <1>3
  <2>2. queue'[s] = queue[s] \o Copies(feeds[s], d)
    BY <1>1 DEF Copies
  <2>3. QED
    BY <1>4, <2>1, <2>2, BatchElements
<1>6. Elements(listeners) \subseteq Listener
  BY <1>3, ElementOfSeq, LenProperties DEF Elements
<1>7. EventsTypes'
  <2>1. queue' \in [Stream -> Seq(Notice)]
    BY <1>1, <1>5
  <2>2. heard' \cup due' \subseteq Listener \X (1..MaxDeploys)
    BY <1>1, <1>2, <1>3, <1>4, <1>6
  <2>3. QED
    BY <1>1, <1>3, <1>4, <2>1, <2>2 DEF EventsInv, EventsTypes, DispatchInv
<1>8. ASSUME NEW f \in Listener, NEW n \in 1..MaxDeploys, <<f, n>> \in due' \ heard'
      PROVE  Sent(f, n)' \/ Turn(f, n)'
  <2>1. CASE <<f, n>> \in due
    <3>1. Sent(f, n) \/ Turn(f, n)
      BY <1>1, <1>8, <2>1, Due DEF EventsInv
    <3>2. Sent(f, n) => Sent(f, n)'
      BY <1>1, <1>3, <1>5 DEF Sent
    <3>3. Turn(f, n) => Turn(f, n)'
      BY <1>1 DEF Turn
    <3>4. QED
      BY <3>1, <3>2, <3>3
  <2>2. CASE <<f, n>> \notin due
    <3>1. /\ f \in Elements(listeners) /\ n = n0
          /\ eventStream \in subscribed /\ feeds[eventStream] > 0 /\ parser = h
      BY <1>2, <1>8, <2>2
    <3>2. [deploy |-> n, contract |-> parser] \in Elements(queue'[eventStream])
      BY <1>3, <1>5, <3>1 DEF d
    <3>3. QED
      BY <1>1, <3>1, <3>2 DEF Sent
  <2>3. QED
    BY <2>1, <2>2
<1>9. DueIsOnItsWay'
  BY <1>8 DEF DueIsOnItsWay, Sent, Turn
<1>10. QED
  BY <1>7, <1>9 DEF EventsInv

\* The stream that has the event may be another one, or have it further back, or hand it over now.
LEMMA DeliverStep ==
  ASSUME StreamInv, EventsInv, NEW s \in Stream, deployProcessed(s)
  PROVE  EventsInv'
<1> DEFINE handed == s \in subscribed /\ parser = Head(queue[s]).contract
<1>1. /\ EventLoopFree /\ queue[s] # <<>>
      /\ queue' = [queue EXCEPT ![s] = Tail(@)]
      /\ handed => dispatch' = [deploy |-> Head(queue[s]).deploy, array |-> listeners,
                                next |-> 1]
      /\ ~handed => dispatch' = NoDispatch
      /\ UNCHANGED <<parser, subscribed, listeners, processed, heard, due>>
  BY DEF deployProcessed, client, history
<1>2. /\ subscribed \subseteq Stream /\ listeners \in Seq(Listener)
      /\ queue \in [Stream -> Seq(Notice)]
  BY DEF StreamInv, SetupsInv, EventsInv, EventsTypes
<1>3. /\ Head(queue[s]) \in Notice /\ Tail(queue[s]) \in Seq(Notice)
      /\ \A e \in Elements(queue[s]) : e = Head(queue[s]) \/ e \in Elements(Tail(queue[s]))
  BY <1>1, <1>2, TailElements
<1>4. DispatchInv'
  <2>1. CASE handed
    <3>1. Head(queue[s]).deploy \in 1..MaxDeploys
      BY <1>3 DEF Notice
    <3>2. QED
      BY <1>1, <1>2, <2>1, <3>1, EventEnabledContractAssumption DEF DispatchInv
  <2>2. CASE ~handed
    BY <1>1, <2>2, NoDispatchFacts DEF DispatchInv
  <2>3. QED
    BY <2>1, <2>2
<1>5. queue' \in [Stream -> Seq(Notice)]
  BY <1>1, <1>2, <1>3
<1>6. EventsTypes'
  BY <1>1, <1>4, <1>5 DEF EventsInv, EventsTypes
<1>7. ASSUME NEW f \in Listener, NEW n \in 1..MaxDeploys, <<f, n>> \in due' \ heard'
      PROVE  Sent(f, n)' \/ Turn(f, n)'
  <2>1. Sent(f, n)
    BY <1>1, <1>7, Due, FreeLoop DEF EventsInv
  <2>2. PICK t \in subscribed : [deploy |-> n, contract |-> parser] \in Elements(queue[t])
    BY <2>1 DEF Sent
  <2>3. CASE t = s /\ [deploy |-> n, contract |-> parser] = Head(queue[s])
    <3>1. handed /\ dispatch'.deploy = n /\ dispatch'.array = listeners /\ dispatch'.next = 1
      <4>1. Head(queue[s]).contract = parser /\ Head(queue[s]).deploy = n
        BY <2>3
      <4>2. handed
        BY <2>3, <4>1
      <4>3. QED
        BY <1>1, <4>1, <4>2
    <3>2. PICK i \in 1..Len(listeners) : listeners[i] = f
      BY <1>2, <2>1, LenProperties DEF Sent, Elements
    <3>3. QED
      BY <3>1, <3>2 DEF Turn
  <2>4. CASE t # s \/ [deploy |-> n, contract |-> parser] # Head(queue[s])
    <3>1. [deploy |-> n, contract |-> parser] \in Elements(queue'[t])
      BY <1>1, <1>2, <1>3, <2>2, <2>4
    <3>2. QED
      BY <1>1, <2>1, <2>2, <3>1 DEF Sent
  <2>5. QED
    BY <2>3, <2>4
<1>8. DueIsOnItsWay'
  BY <1>7 DEF DueIsOnItsWay, Sent, Turn
<1>9. QED
  BY <1>6, <1>8 DEF EventsInv

LEMMA EmitStep ==
  ASSUME EventsInv, emit
  PROVE  EventsInv'
<1> DEFINE k == dispatch.next
<1>1. /\ k <= Len(dispatch.array)
      /\ heard' = heard \cup {<<dispatch.array[k], dispatch.deploy>>}
      /\ dispatch' = [dispatch EXCEPT !.next = @ + 1]
      /\ UNCHANGED <<parser, subscribed, listeners, queue, processed, due>>
  BY DEF emit, client
<1>2. /\ dispatch \in [deploy : 0..MaxDeploys, array : Seq(Listener), next : Nat \ {0}]
      /\ dispatch.deploy = 0 => dispatch.array = <<>>
      /\ heard \cup due \subseteq Listener \X (1..MaxDeploys)
  BY DEF EventsInv, EventsTypes, DispatchInv
<1>3. /\ dispatch'.deploy = dispatch.deploy /\ dispatch'.array = dispatch.array
      /\ dispatch'.next = k + 1 /\ k \in Nat \ {0}
      /\ dispatch' \in [deploy : 0..MaxDeploys, array : Seq(Listener), next : Nat \ {0}]
  <2>1. k \in Nat \ {0} /\ k + 1 \in Nat \ {0}
    BY <1>2
  <2>2. dispatch' = [dispatch EXCEPT !.next = k + 1]
    BY <1>1
  <2> HIDE DEF k
  <2>3. QED
    BY <1>2, <2>1, <2>2
<1>4. dispatch.array[k] \in Listener /\ dispatch.deploy \in 1..MaxDeploys
  <2>1. dispatch.array \in Seq(Listener) /\ Len(dispatch.array) \in Nat
    BY <1>2, LenProperties
  <2>2. k \in 1..Len(dispatch.array)
    BY <1>1, <1>3, <2>1
  <2>3. dispatch.array # <<>>
    BY <2>2
  <2>4. QED
    BY <1>2, <2>1, <2>2, <2>3, ElementOfSeq, EventEnabledContractAssumption
<1>5. EventsTypes'
  BY <1>1, <1>2, <1>3, <1>4 DEF EventsInv, EventsTypes, DispatchInv
<1>6. ASSUME NEW f \in Listener, NEW n \in 1..MaxDeploys, <<f, n>> \in due' \ heard'
      PROVE  Sent(f, n)' \/ Turn(f, n)'
  <2>1. Sent(f, n) \/ Turn(f, n)
    BY <1>1, <1>6, Due DEF EventsInv
  <2>2. CASE Sent(f, n)
    BY <1>1, <2>2 DEF Sent
  <2>3. CASE Turn(f, n)
    <3>1. PICK i \in k..Len(dispatch.array) : dispatch.array[i] = f
      BY <2>3 DEF Turn
    <3>2. i # k
      BY <1>1, <1>6, <2>3, <3>1 DEF Turn
    <3>3. i \in (k + 1)..Len(dispatch.array)
      BY <1>2, <1>3, <3>1, <3>2, LenProperties
    <3>4. QED
      BY <1>3, <2>3, <3>1, <3>3 DEF Turn
  <2>4. QED
    BY <2>1, <2>2, <2>3
<1>7. DueIsOnItsWay'
  BY <1>6 DEF DueIsOnItsWay, Sent, Turn
<1>8. QED
  BY <1>5, <1>7 DEF EventsInv

\* Nobody's turn is left at the end; who is cut off by a throw no longer counts on the event.
LEMMA EmitEndsStep ==
  ASSUME EventsInv, emitEnds
  PROVE  EventsInv'
<1>1. /\ dispatch' = NoDispatch
      /\ UNCHANGED <<parser, subscribed, listeners, queue, processed, heard>>
      /\ \/ dispatch.next > Len(dispatch.array) /\ due' = due
         \/ due' = {pair \in due : pair[2] # dispatch.deploy}
  BY DEF emitEnds, client
<1>2. DispatchInv'
  BY <1>1, NoDispatchFacts DEF DispatchInv
<1>3. EventsTypes'
  BY <1>1, <1>2 DEF EventsInv, EventsTypes
<1>4. ASSUME NEW f \in Listener, NEW n \in 1..MaxDeploys, <<f, n>> \in due' \ heard'
      PROVE  Sent(f, n)' \/ Turn(f, n)'
  <2>1. Sent(f, n) \/ Turn(f, n)
    BY <1>1, <1>4, Due DEF EventsInv
  <2>2. dispatch.next \in Nat /\ Len(dispatch.array) \in Nat
    BY LenProperties DEF EventsInv, EventsTypes, DispatchInv
  <2>3. ~Turn(f, n)
    <3>1. CASE dispatch.next > Len(dispatch.array)
      BY <2>2, <3>1 DEF Turn
    <3>2. CASE due' = {pair \in due : pair[2] # dispatch.deploy}
      BY <1>4, <3>2 DEF Turn
    <3>3. QED
      BY <1>1, <3>1, <3>2
  <2>4. QED
    BY <1>1, <2>1, <2>3 DEF Sent
<1>5. DueIsOnItsWay'
  BY <1>4 DEF DueIsOnItsWay, Sent, Turn
<1>6. QED
  BY <1>3, <1>5 DEF EventsInv

LEMMA EventsInvInit == Init => EventsInv
<1> SUFFICES ASSUME Init PROVE EventsInv
  OBVIOUS
<1>1. EventsTypes
  BY NoDispatchFacts, EventEnabledContractAssumption DEF Init, EventsTypes, DispatchInv
<1>2. DueIsOnItsWay
  BY DEF Init, DueIsOnItsWay
<1>3. QED
  BY <1>1, <1>2 DEF EventsInv

LEMMA EventsInvStep == StreamInv /\ EventsInv /\ [Next]_vars => EventsInv'
<1> SUFFICES ASSUME StreamInv, EventsInv, [Next]_vars PROVE EventsInv'
  OBVIOUS
<1>1. ASSUME NEW s \in Stream, setupEventStream(s) PROVE EventsInv'
  BY <1>1, EventsKept DEF setupEventStream
<1>2. ASSUME NEW s \in Stream, parserCreated(s) PROVE EventsInv'
  <2>1. due' \subseteq due /\ (due' = {} \/ parser' = parser)
    BY <1>2 DEF parserCreated
  <2>2. QED
    BY <1>2, <2>1, EventsKept DEF parserCreated
<1>3. ASSUME NEW s \in Stream, streamStarted(s) \/ subscribe(s) PROVE EventsInv'
  BY <1>3, EventsKept DEF streamStarted, subscribe, subscriptions, history
<1>4. ASSUME NEW h \in Hash, setContractHash(h) PROVE EventsInv'
  BY <1>4, EventsKept DEF setContractHash, history
<1>5. ASSUME NEW s \in Stream, deployProcessed(s) PROVE EventsInv'
  BY <1>5, DeliverStep
<1>6. ASSUME NEW h \in Hash, nodeProcesses(h) PROVE EventsInv'
  BY <1>6, NodeStep
<1>7. ASSUME NEW f \in Listener, addEventListener(f) \/ removeEventListener(f) PROVE EventsInv'
  BY <1>7, AddStep, RemoveStep
<1>8. CASE emit \/ emitEnds
  BY <1>8, EmitStep, EmitEndsStep
<1>9. CASE UNCHANGED vars
  BY <1>9, EventsKept DEF vars, client, history
<1>10. QED
  BY <1>1, <1>2, <1>3, <1>4, <1>5, <1>6, <1>7, <1>8, <1>9 DEF Next, Progress

(***************************************************************************)
(* The theorems                                                            *)
(***************************************************************************)
\* What every reachable state of the client satisfies.
THEOREM ClientInvariant == Spec => [](StreamInv /\ EventsInv)
<1>1. Init => StreamInv /\ EventsInv
  BY StreamInvInit, EventsInvInit
<1>2. StreamInv /\ EventsInv /\ [Next]_vars => (StreamInv /\ EventsInv)'
  BY StreamInvStep, EventsInvStep
<1>3. QED
  BY <1>1, <1>2, PTL DEF Spec

\* A set-up that waits does so for a contract's parser or for a stream that was passed, for any
\* number of set-ups, contracts and listeners, and only listeners hear of deploys.
THEOREM ClientTypes == Spec => []TypeOK
<1>1. StreamInv /\ EventsInv => TypeOK
  <2> SUFFICES ASSUME StreamInv, EventsInv PROVE TypeOK
    OBVIOUS
  <2>1. Elements(listeners) \subseteq Listener
    BY ElementOfSeq, LenProperties DEF Elements, EventsInv, EventsTypes
  <2>2. QED
    BY <2>1 DEF TypeOK, StreamInv, SetupsInv, EventsInv, EventsTypes
<1>2. QED
  BY <1>1, ClientInvariant, PTL

\* When the newest set-up completes, its own stream is connected and subscribed.
THEOREM LatestStreamTheorem == Spec => []LatestStreamDelivers
<1>1. StreamInv /\ EventsInv => LatestStreamDelivers
  BY DEF LatestStreamDelivers, StreamInv, SetupsInv, NewestInv
<1>2. QED
  BY <1>1, ClientInvariant, PTL

\* A due event that was not heard is in a subscribed queue or about to be called out.
THEOREM DueTheorem == Spec => []DueIsOnItsWay
<1>1. StreamInv /\ EventsInv => DueIsOnItsWay
  BY DEF EventsInv
<1>2. QED
  BY <1>1, ClientInvariant, PTL
====
