---------------------------- MODULE JobEventBus -----------------------------
(***************************************************************************)
(* The bus that carries changes of jobs to the open pages: Subscribe,      *)
(* Publish and unsubscribe (executor/job_events.go) and the handler of     *)
(* /events (cmd/httpd/main.go).  Publish holds the read lock while it      *)
(* offers the event to one channel after another; subscribing and leaving  *)
(* take the write lock, and a writer that waits keeps new readers out, as  *)
(* sync.RWMutex promises.                                                  *)
(***************************************************************************)
EXTENDS Naturals, Sequences, FiniteSets

CONSTANTS
    Pages,          \* connections to /events: each subscribes once
    Publishers,     \* goroutines that publish
    Capacity,       \* of a channel: 64 in the code
    MaxEvents       \* bounds the events

ASSUME BusAssumption == Capacity \in Nat \ {0} /\ MaxEvents \in Nat

VARIABLES
    page,           \* page -> where its handler is
    subscribers,    \* the keys of the map
    channel,        \* page -> events in its channel
    closed,         \* pages whose channel is closed
    waiting,        \* pages that wait for the write lock
    sending,        \* publisher -> channels it has not offered its event to yet
    event,          \* publisher -> its event, 0 when it does not publish
    events,         \* events published so far
    got,            \* page -> events it has shown, in order
    due,            \* page -> events published while it was subscribed
    slow            \* pages whose channel was full when an event came

vars == <<page, subscribers, channel, closed, waiting, sending, event, events, got, due, slow>>
handlerVars == <<page, subscribers, closed, waiting, got>>
senderVars == <<sending, event, events, due, slow>>

PagePCs == {"new", "subscribe", "loop", "leave", "gone"}
Publishing == {p \in Publishers : event[p] # 0}

(* Mutants, never used by the model: what a plausible bug would make of the *)
(* definition of the same name below.                                       *)
MutMayWrite == TRUE
MutHasRoom(g) == channel[g] = <<>>
MutHasRoomOff(g) == Len(channel[g]) <= Capacity
MutForget(g) == UNCHANGED subscribers
MutOffered(p, g) == sending[p]

(* RLock waits for writers, those that wait included; Lock for readers      *)
MayRead == waiting = {}
MayWrite == Publishing = {}

(* a send that does not block: select with a default *)
HasRoom(g) == Len(channel[g]) < Capacity

Forget(g) == subscribers' = subscribers \ {g}
Offered(p, g) == sending[p] \ {g}

Moves(g, to) == page' = [page EXCEPT ![g] = to]
-----------------------------------------------------------------------------
(* A browser connects: the handler calls Subscribe, which waits for the lock. *)
Connect(g) ==
    /\ page[g] = "new"
    /\ Moves(g, "subscribe")
    /\ waiting' = waiting \cup {g}
    /\ UNCHANGED <<subscribers, channel, closed, got, senderVars>>

Subscribe(g) ==
    /\ page[g] = "subscribe"
    /\ MayWrite
    /\ subscribers' = subscribers \cup {g}
    /\ waiting' = waiting \ {g}
    /\ Moves(g, "loop")
    /\ UNCHANGED <<channel, closed, got, senderVars>>

(* the handler writes an event to the page *)
Show(g) ==
    /\ page[g] = "loop"
    /\ channel[g] # <<>>
    /\ got' = [got EXCEPT ![g] = Append(@, Head(channel[g]))]
    /\ channel' = [channel EXCEPT ![g] = Tail(@)]
    /\ UNCHANGED <<page, subscribers, closed, waiting, senderVars>>

(* the browser is gone (r.Context().Done()): the deferred unsubscribe waits for the lock *)
Disconnect(g) ==
    /\ page[g] = "loop"
    /\ Moves(g, "leave")
    /\ waiting' = waiting \cup {g}
    /\ UNCHANGED <<subscribers, channel, closed, got, senderVars>>

Unsubscribe(g) ==
    /\ page[g] = "leave"
    /\ MayWrite
    /\ closed' = closed \cup {g}
    /\ Forget(g)
    /\ waiting' = waiting \ {g}
    /\ Moves(g, "gone")
    /\ UNCHANGED <<channel, got, senderVars>>

(* Publish takes the read lock and ranges over the subscribers *)
Publish(p) ==
    /\ event[p] = 0
    /\ events < MaxEvents
    /\ MayRead
    /\ events' = events + 1
    /\ event' = [event EXCEPT ![p] = events + 1]
    /\ sending' = [sending EXCEPT ![p] = subscribers]
    /\ due' = [g \in Pages |-> due[g] \cup IF g \in subscribers THEN {events + 1} ELSE {}]
    /\ UNCHANGED <<channel, slow, handlerVars>>

(* one round of the loop; a channel that is full loses the event *)
Offer(p, g) ==
    /\ g \in sending[p]
    /\ sending' = [sending EXCEPT ![p] = Offered(p, g)]
    /\ IF HasRoom(g)
       THEN channel' = [channel EXCEPT ![g] = Append(@, event[p])]
       ELSE UNCHANGED channel
    /\ slow' = IF Len(channel[g]) = Capacity THEN slow \cup {g} ELSE slow
    /\ UNCHANGED <<event, events, due, handlerVars>>

Published(p) ==
    /\ event[p] # 0
    /\ sending[p] = {}
    /\ event' = [event EXCEPT ![p] = 0]
    /\ UNCHANGED <<channel, sending, events, due, slow, handlerVars>>

Init ==
    /\ page = [g \in Pages |-> "new"]
    /\ subscribers = {}
    /\ channel = [g \in Pages |-> <<>>]
    /\ closed = {}
    /\ waiting = {}
    /\ sending = [p \in Publishers |-> {}]
    /\ event = [p \in Publishers |-> 0]
    /\ events = 0
    /\ got = [g \in Pages |-> <<>>]
    /\ due = [g \in Pages |-> {}]
    /\ slow = {}

Takes(g) == Subscribe(g) \/ Unsubscribe(g)
Sends(p) == Published(p) \/ \E g \in Pages : Offer(p, g)

Next ==
    \/ \E g \in Pages : Connect(g) \/ Show(g) \/ Disconnect(g) \/ Takes(g)
    \/ \E p \in Publishers : Publish(p) \/ Sends(p)

(* Goroutines that can run do.  Nothing is asked of the pages: one may read *)
(* slowly or no more, and browsers come and go as they please.              *)
Fairness ==
    /\ \A g \in Pages : WF_vars(Takes(g))
    /\ \A p \in Publishers : WF_vars(Sends(p))

Spec == Init /\ [][Next]_vars
FairSpec == Spec /\ Fairness
-----------------------------------------------------------------------------
TypeOK ==
    /\ page \in [Pages -> PagePCs]
    /\ subscribers \subseteq Pages
    /\ channel \in [Pages -> Seq(1..MaxEvents)]
    /\ \A g \in Pages : Len(channel[g]) <= Capacity
    /\ closed \subseteq Pages
    /\ waiting \subseteq Pages
    /\ sending \in [Publishers -> SUBSET Pages]
    /\ event \in [Publishers -> 0..MaxEvents]
    /\ events \in 0..MaxEvents
    /\ got \in [Pages -> Seq(1..MaxEvents)]
    /\ due \in [Pages -> SUBSET (1..MaxEvents)]
    /\ slow \subseteq Pages

(* Nobody sends on a closed channel, which would end the whole server: the  *)
(* channel a Publish is about to offer its event to is still open, and the  *)
(* map never names a closed one.                                            *)
OpenChannelsOnly ==
    /\ subscribers \cap closed = {}
    /\ \A p \in Publishers : sending[p] \cap closed = {}

Reached(g) == {got[g][k] : k \in DOMAIN got[g]} \cup {channel[g][k] : k \in DOMAIN channel[g]}

(* A page that keeps up misses nothing: every event whose Publish has       *)
(* passed its channel is shown or waits there.                              *)
NothingMissed ==
    \A g \in Pages \ (slow \cup closed) : \A n \in due[g] :
        n \in Reached(g) \/ \E p \in Publishers : event[p] = n /\ g \in sending[p]

(* No page is told the same twice. *)
NothingTwice ==
    \A g \in Pages :
        /\ Cardinality({got[g][k] : k \in DOMAIN got[g]}) = Len(got[g])
        /\ \A k \in DOMAIN channel[g] : \A l \in DOMAIN got[g] : channel[g][k] # got[g][l]

(* Publish never waits for a page: a worker that saves a job goes on, even  *)
(* if no page reads any more.                                               *)
PublishEnds == \A p \in Publishers : event[p] # 0 ~> event[p] = 0

(* A page that has gone leaves the map, and one that comes enters it, while *)
(* publishers go on.                                                        *)
PagesComeAndGo ==
    \A g \in Pages :
        /\ page[g] = "subscribe" ~> page[g] # "subscribe"
        /\ page[g] = "leave" ~> g \notin subscribers
=============================================================================
