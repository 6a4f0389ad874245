---- MODULE EventEnabledContract ----
(***************************************************************************)
(* The JavaScript client's view of a token's events.  Setting up a stream  *)
(* of the node's events takes two awaits, between which anything else may  *)
(* run, a second set-up included; a listener runs to its end, but may add  *)
(* and remove listeners while an event is being dispatched.  Listeners are *)
(* those of one event name: the lists of different names never meet.       *)
(***************************************************************************)
EXTENDS Naturals, Sequences

CONSTANTS Hash,         \* contracts whose events the node sends
          Stream,       \* EventStream objects, each passed to one set-up
          Listener,
          None,
          MaxDeploys,   \* bound on the deploys the node processes
          MaxListeners  \* bound on the length of a list of listeners

ASSUME EventEnabledContractAssumption ==
    None \notin Hash \cup Stream /\ MaxDeploys \in Nat /\ MaxListeners \in Nat

VARIABLES
    contractHash, \* contractClient.contractHash
    parser,       \* the contract this.parser knows, or None
    eventStream,  \* this.eventStream
    setups,       \* where each set-up stands and what it has read
    feeds,        \* per stream: how often it was started
    subscribed,   \* streams with a handler for processed deploys
    listeners,    \* this.events[name]
    queue,        \* per stream: deploys on their way to the client
    dispatch,     \* the emit under way: the event, the array, the next index
    processed,    \* how many deploys the node has processed
    heard,        \* history: which listener heard which deploy's event
    due,          \* history: what a listener may count on hearing
    wanted        \* history: contractHash when the newest set-up was called

client  == <<contractHash, parser, eventStream, setups, feeds, subscribed>>
history == <<heard, due, wanted>>
vars    == <<client, listeners, queue, dispatch, processed, history>>

NoDispatch == [deploy |-> 0, array |-> <<>>, next |-> 1]

Stage(s)   == setups[s].stage
UnderWay   == {s \in Stream : Stage(s) \in {"parsing", "starting", "started"}}

Setup(stage, what) == [stage |-> stage, what |-> what]

\* The event loop is free, or a listener that was just called is running.
EventLoopFree == dispatch = NoDispatch
AppMayAct     == EventLoopFree \/ dispatch.next > 1

Elements(list) == {list[i] : i \in DOMAIN list}

(***************************************************************************)
(* setupEventStream, cut at its awaits                                     *)
(***************************************************************************)
\* Variant with a bug: contractHash?.slice(5), which makes a parser of no contract.
firstAwait_unguarded(s) ==
    IF parser # None THEN Setup("starting", s) ELSE Setup("parsing", contractHash)

\* Up to the first await: a parser for the hash known now (there is none to slice before
\* setContractHash), or straight to start if there is a parser.
firstAwait(s) ==
    IF parser # None THEN Setup("starting", s)
    ELSE IF contractHash = None THEN Setup("failed", None)
    ELSE Setup("parsing", contractHash)

setupEventStream(s) ==
    /\ AppMayAct
    /\ Stage(s) = "uncalled"
    /\ eventStream' = s
    /\ setups' = [setups EXCEPT ![s] = firstAwait(s)]
    /\ wanted' = contractHash
    /\ UNCHANGED <<contractHash, parser, feeds, subscribed, listeners, queue, dispatch,
                   processed, heard, due>>

\* Parser.create resolves or rejects; what is started next is whatever this.eventStream is now.
parserCreated(s) ==
    /\ EventLoopFree
    /\ Stage(s) = "parsing"
    /\ \/ /\ parser' = setups[s].what
          /\ setups' = [setups EXCEPT ![s] = Setup("starting", eventStream)]
          /\ due' = IF parser' = parser THEN due ELSE {}
       \/ /\ setups' = [setups EXCEPT ![s] = Setup("failed", None)]
          /\ UNCHANGED <<parser, due>>
    /\ UNCHANGED <<contractHash, eventStream, feeds, subscribed, listeners, queue, dispatch,
                   processed, heard, wanted>>

\* Variant with a bug: a set-up that was overtaken waits for its own stream.
streamStarted_own(s) ==
    /\ EventLoopFree
    /\ Stage(s) = "starting"
    /\ setups[s].what = s
    /\ setups' = [setups EXCEPT ![s] = Setup("started", None)]
    /\ feeds' = [feeds EXCEPT ![s] = @ + 1]
    /\ UNCHANGED <<contractHash, parser, eventStream, subscribed, listeners, queue, dispatch,
                   processed, history>>

\* The started stream connects, and start resolves, or start rejects.
streamStarted(s) ==
    /\ EventLoopFree
    /\ Stage(s) = "starting"
    /\ \/ /\ setups' = [setups EXCEPT ![s] = Setup("started", None)]
          /\ feeds' = [feeds EXCEPT ![setups[s].what] = @ + 1]
       \/ /\ setups' = [setups EXCEPT ![s] = Setup("failed", None)]
          /\ UNCHANGED feeds
    /\ UNCHANGED <<contractHash, parser, eventStream, subscribed, listeners, queue, dispatch,
                   processed, history>>

\* Variant with a bug: a client that has a subscription makes no other.
subscriptions_once == IF subscribed = {} THEN {eventStream} ELSE subscribed

\* Again this.eventStream; a stream keeps one handler for processed deploys.
subscriptions == subscribed \cup {eventStream}

subscribe(s) ==
    /\ EventLoopFree
    /\ Stage(s) = "started"
    /\ subscribed' = subscriptions
    /\ setups' = [setups EXCEPT ![s] = Setup("done", None)]
    /\ UNCHANGED <<contractHash, parser, eventStream, feeds, listeners, queue, dispatch,
                   processed, history>>

setContractHash(h) ==
    /\ AppMayAct
    /\ contractHash' = h
    /\ UNCHANGED <<parser, eventStream, setups, feeds, subscribed, listeners, queue, dispatch,
                   processed, history>>

(***************************************************************************)
(* Listeners                                                               *)
(***************************************************************************)
addEventListener(f) ==
    /\ AppMayAct
    /\ Len(listeners) < MaxListeners
    /\ listeners' = Append(listeners, f)
    /\ UNCHANGED <<client, queue, dispatch, processed, history>>

\* list.filter(g => g !== f): kept[n] is what is left of the first n.
Without(list, f) ==
    LET kept[n \in 0..Len(list)] ==
            IF n = 0 THEN <<>>
            ELSE IF list[n] = f THEN kept[n - 1]
            ELSE Append(kept[n - 1], list[n])
    IN  kept[Len(list)]

\* Variant with a bug: the array is changed in place, under the feet of an emit.
dispatchAfterRemoval_inPlace(f) == [dispatch EXCEPT !.array = Without(@, f)]

\* filter makes a new array; an emit under way goes on with the old one.
dispatchAfterRemoval(f) == dispatch

\* Before the first listener of a name it throws, and changes nothing either.
removeEventListener(f) ==
    /\ AppMayAct
    /\ listeners' = Without(listeners, f)
    /\ dispatch' = dispatchAfterRemoval(f)
    /\ due' = {pair \in due : pair[1] # f}
    /\ UNCHANGED <<client, queue, processed, heard, wanted>>

(***************************************************************************)
(* Events                                                                  *)
(***************************************************************************)
\* The node processes a deploy with one event of a contract, and sends it once for every time a
\* stream was started.  Listeners may count on it if the newest stream is up and subscribed.
nodeProcesses(h) ==
    LET d == [deploy |-> processed + 1, contract |-> h]
    IN  /\ processed < MaxDeploys
        /\ processed' = processed + 1
        /\ queue' = [s \in Stream |-> queue[s] \o [i \in 1..feeds[s] |-> d]]
        /\ due' = IF /\ eventStream \in subscribed
                     /\ feeds[eventStream] > 0
                     /\ parser = h
                  THEN due \cup (Elements(listeners) \X {d.deploy})
                  ELSE due
        /\ UNCHANGED <<client, listeners, dispatch, heard, wanted>>

\* The handler: without a subscription nobody hears of the deploy, and the parser finds only
\* events of its own contract.
deployProcessed(s) ==
    /\ EventLoopFree
    /\ queue[s] # <<>>
    /\ queue' = [queue EXCEPT ![s] = Tail(@)]
    /\ dispatch' = IF s \in subscribed /\ parser = Head(queue[s]).contract
                   THEN [deploy |-> Head(queue[s]).deploy, array |-> listeners, next |-> 1]
                   ELSE NoDispatch
    /\ UNCHANGED <<client, listeners, processed, history>>

\* emit: forEach calls the listeners of the array one after the other, ...
emit ==
    /\ dispatch.next <= Len(dispatch.array)
    /\ heard' = heard \cup {<<dispatch.array[dispatch.next], dispatch.deploy>>}
    /\ dispatch' = [dispatch EXCEPT !.next = @ + 1]
    /\ UNCHANGED <<client, listeners, queue, processed, due, wanted>>

\* ... and ends after the last, or when one throws: those after it never hear of the event.
emitEnds ==
    /\ ~EventLoopFree
    /\ dispatch' = NoDispatch
    /\ \/ dispatch.next > Len(dispatch.array) /\ UNCHANGED due
       \/ /\ dispatch.next > 1
          /\ due' = {pair \in due : pair[2] # dispatch.deploy}
    /\ UNCHANGED <<client, listeners, queue, processed, heard, wanted>>

Init ==
    /\ contractHash = None
    /\ parser = None
    /\ eventStream = None
    /\ setups = [s \in Stream |-> Setup("uncalled", None)]
    /\ feeds = [s \in Stream |-> 0]
    /\ subscribed = {}
    /\ listeners = <<>>
    /\ queue = [s \in Stream |-> <<>>]
    /\ dispatch = NoDispatch
    /\ processed = 0
    /\ heard = {}
    /\ due = {}
    /\ wanted = None

Progress(s) == parserCreated(s) \/ streamStarted(s) \/ subscribe(s)

Next ==
    \/ \E s \in Stream : setupEventStream(s) \/ Progress(s) \/ deployProcessed(s)
    \/ \E h \in Hash : setContractHash(h) \/ nodeProcesses(h)
    \/ \E f \in Listener : addEventListener(f) \/ removeEventListener(f)
    \/ emit \/ emitEnds

\* A promise settles, a deploy that was sent arrives, and a listener returns.  Nothing obliges
\* the application or the node to act.
Fairness ==
    /\ \A s \in Stream : WF_vars(Progress(s)) /\ WF_vars(deployProcessed(s))
    /\ WF_vars(emit \/ emitEnds)

Spec == Init /\ [][Next]_vars /\ Fairness

-----------------------------------------------------------------------------
\* The parser is a contract's and what is started is a stream that was passed, whatever ran while
\* a set-up waited, and only listeners hear of deploys.
TypeOK ==
    /\ {contractHash, wanted} \subseteq Hash \cup {None}
    /\ parser \in Hash \cup {None}
    /\ eventStream \in Stream \cup {None}
    /\ \A s \in Stream : setups[s].what \in CASE Stage(s) = "parsing" -> Hash
                                              [] Stage(s) = "starting" -> Stream
                                              [] OTHER -> {None}
    /\ feeds \in [Stream -> Nat]
    /\ subscribed \subseteq Stream
    /\ Elements(listeners) \subseteq Listener
    /\ heard \cup due \subseteq Listener \X (1..MaxDeploys)

\* Whatever set-ups it overtook, the newest one that completes has its own stream connected and
\* subscribed: an older one that resumes may start it again, but never leaves it out.
LatestStreamDelivers ==
    eventStream # None /\ Stage(eventStream) = "done"
        => feeds[eventStream] > 0 /\ eventStream \in subscribed

\* An event somebody may count on hearing is never out of reach: until it is heard, it is in the
\* queue of a subscribed stream, for the parser that is in place, and its listener registered, or
\* it is being dispatched to an array in which its listener's turn is still to come.
DueIsOnItsWay ==
    \A f \in Listener, n \in 1..MaxDeploys : <<f, n>> \in due \ heard =>
        \/ /\ f \in Elements(listeners)
           /\ \E s \in subscribed : [deploy |-> n, contract |-> parser] \in Elements(queue[s])
        \/ /\ dispatch.deploy = n
           /\ \E i \in dispatch.next..Len(dispatch.array) : dispatch.array[i] = f

\* Every set-up settles, even one whose stream was replaced while it waited.
SetupsSettle ==
    \A s \in Stream : s \in UnderWay ~> Stage(s) \in {"done", "failed"}

\* An event sent while the newest stream is up is heard by everyone who listened then, whatever
\* listeners do to the list meanwhile, unless the listener is removed, another one throws, or an
\* overlapping set-up replaces the parser.
DueEventsAreHeard ==
    \A f \in Listener, n \in 1..MaxDeploys :
        <<f, n>> \in due ~> (<<f, n>> \in heard \/ <<f, n>> \notin due)

(***************************************************************************)
(* What the documentation says and the code does not do                    *)
(***************************************************************************)

\* To "listen to token events", call setContractHash and await setupEventStream: once the newest
\* set-up has completed, and no other is under way, the client decodes the events of the contract
\* that was set when it was called.  The first parser stays, so a second contract, or an upgrade's
\* new version, is never heard.
DocumentedSetUp ==
    eventStream # None /\ Stage(eventStream) = "done" /\ UnderWay = {} => parser = wanted
====
