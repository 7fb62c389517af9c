------------------------- MODULE JobEventBusProofs --------------------------
(***************************************************************************)
(* No event is sent on a closed channel, and a page is told of every event *)
(* once, for any number of pages, publishers and events and any capacity.  *)
(***************************************************************************)
EXTENDS JobEventBus, SequenceTheorems, FiniteSetTheorems, TLAPS

(* The pages in the map are those between Subscribe and unsubscribe, a      *)
(* closed channel belongs to a page that is gone, and a publisher ranges    *)
(* over pages that cannot leave before it is done.                          *)
BusInv ==
    /\ page \in [Pages -> PagePCs]
    /\ event \in [Publishers -> Nat]
    /\ sending \in [Publishers -> SUBSET Pages]
    /\ events \in Nat
    /\ subscribers = {g \in Pages : page[g] \in {"loop", "leave"}}
    /\ closed = {g \in Pages : page[g] = "gone"}
    /\ \A p \in Publishers : sending[p] \subseteq subscribers
    /\ \A p \in Publishers : event[p] = 0 => sending[p] = {}

LEMMA BusStarts == Init => BusInv
  BY DEF Init, BusInv, PagePCs

LEMMA PageSteps ==
    ASSUME BusInv, NEW g \in Pages, Connect(g) \/ Show(g) \/ Disconnect(g) \/ Takes(g)
    PROVE  BusInv'
  <1> USE DEF BusInv, Moves, senderVars, PagePCs
  <1>1. CASE Connect(g)
    BY <1>1 DEF Connect
  <1>2. CASE Show(g)
    BY <1>2 DEF Show
  <1>3. CASE Disconnect(g)
    BY <1>3 DEF Disconnect
  <1>4. CASE Subscribe(g)
    BY <1>4 DEF Subscribe
  <1>5. CASE Unsubscribe(g)
    <2>1. \A p \in Publishers : sending[p] = {}
      BY <1>5 DEF Unsubscribe, MayWrite, Publishing
    <2> QED
      BY <1>5, <2>1 DEF Unsubscribe, Forget
  <1> QED
    BY <1>1, <1>2, <1>3, <1>4, <1>5 DEF Takes

LEMMA PublisherSteps ==
    ASSUME BusInv, NEW p \in Publishers, Publish(p) \/ Sends(p)
    PROVE  BusInv'
  <1> USE DEF BusInv, handlerVars
  <1>1. CASE Publish(p)
    <2>1. events + 1 \in Nat /\ events + 1 # 0
      OBVIOUS
    <2> QED
      BY <1>1, <2>1 DEF Publish
  <1>2. CASE Published(p)
    BY <1>2 DEF Published
  <1>3. ASSUME NEW g \in Pages, Offer(p, g) PROVE BusInv'
    BY <1>3 DEF Offer, Offered
  <1> QED
    BY <1>1, <1>2, <1>3 DEF Sends

LEMMA BusInductive == Spec => []BusInv
  <1>1. ASSUME BusInv, [Next]_vars PROVE BusInv'
    <2>1. CASE Next
      BY <1>1, <2>1, PageSteps, PublisherSteps DEF Next
    <2>2. CASE UNCHANGED vars
      BY <1>1, <2>2 DEF vars, BusInv
    <2> QED
      BY <1>1, <2>1, <2>2
  <1> QED
    BY <1>1, BusStarts, PTL DEF Spec

(* A send on a closed channel would end the server: unsubscribe takes the   *)
(* write lock, so no publisher is in the middle of its range when it closes.*)
THEOREM NoSendOnClosed == Spec => []OpenChannelsOnly
  <1>1. BusInv => OpenChannelsOnly
    BY DEF BusInv, OpenChannelsOnly
  <1> QED
    BY <1>1, BusInductive, PTL

-----------------------------------------------------------------------------
(* What is in a sequence                                                    *)

Elements(s) == {s[k] : k \in DOMAIN s}
Once(s) == \A k, l \in DOMAIN s : s[k] = s[l] => k = l

LEMMA Appended ==
    ASSUME NEW s \in Seq(Nat), NEW n \in Nat
    PROVE  /\ Append(s, n) \in Seq(Nat)
           /\ Elements(Append(s, n)) = Elements(s) \cup {n}
           /\ Once(s) /\ n \notin Elements(s) => Once(Append(s, n))
  <1> DEFINE t == Append(s, n)
  <1>1. /\ t \in Seq(Nat) /\ Len(t) = Len(s) + 1 /\ Len(s) \in Nat
        /\ \A i \in 1..Len(s) : t[i] = s[i]
        /\ t[Len(s) + 1] = n
    BY AppendProperties
  <1>2. DOMAIN s = 1..Len(s) /\ DOMAIN t = 1..(Len(s) + 1)
    BY <1>1
  <1> HIDE DEF t
  <1>3. \A k \in DOMAIN t : k = Len(s) + 1 \/ k \in DOMAIN s
    BY <1>1, <1>2
  <1>4. DOMAIN s \subseteq DOMAIN t /\ Len(s) + 1 \in DOMAIN t
    BY <1>1, <1>2
  <1>5. Elements(t) = Elements(s) \cup {n}
    BY <1>1, <1>2, <1>3, <1>4 DEF Elements
  <1>6. Once(s) /\ n \notin Elements(s) => Once(t)
    BY <1>1, <1>2, <1>3 DEF Once, Elements
  <1> QED
    BY <1>1, <1>5, <1>6 DEF t

LEMMA Shown ==
    ASSUME NEW s \in Seq(Nat), s # <<>>
    PROVE  /\ Tail(s) \in Seq(Nat) /\ Head(s) \in Nat /\ Len(Tail(s)) = Len(s) - 1
           /\ Elements(s) = Elements(Tail(s)) \cup {Head(s)}
           /\ Once(s) => Once(Tail(s)) /\ Head(s) \notin Elements(Tail(s))
  <1> DEFINE t == Tail(s)
  <1>1. /\ t \in Seq(Nat) /\ Len(t) = Len(s) - 1 /\ Len(s) \in Nat \ {0}
        /\ \A i \in 1..Len(t) : t[i] = s[i + 1]
        /\ Head(s) = s[1] /\ Head(s) \in Nat
    BY HeadTailProperties, EmptySeq
  <1>2. DOMAIN s = 1..Len(s) /\ DOMAIN t = 1..(Len(s) - 1)
    BY <1>1
  <1> HIDE DEF t
  <1>3. /\ 1 \in DOMAIN s
        /\ \A k \in DOMAIN t : k + 1 \in DOMAIN s /\ k + 1 # 1 /\ t[k] = s[k + 1]
        /\ \A k \in DOMAIN s : k = 1 \/ (k - 1 \in DOMAIN t /\ t[k - 1] = s[k])
    BY <1>1, <1>2
  <1>4. Elements(s) = Elements(t) \cup {Head(s)}
    <2>1. \A k \in DOMAIN s : s[k] = Head(s) \/ \E l \in DOMAIN t : s[k] = t[l]
      BY <1>1, <1>3
    <2>2. \A l \in DOMAIN t : \E k \in DOMAIN s : t[l] = s[k]
      BY <1>3
    <2>3. \E k \in DOMAIN s : Head(s) = s[k]
      BY <1>1, <1>3
    <2> QED
      BY ONLY <2>1, <2>2, <2>3 DEF Elements
  <1>5. Once(s) => Once(t)
    BY <1>2, <1>3 DEF Once
  <1>6. Once(s) => Head(s) \notin Elements(t)
    <2>1. Once(s) => \A k \in DOMAIN t : t[k] # s[1]
      BY <1>3 DEF Once
    <2> QED
      BY <1>1, <2>1 DEF Elements
  <1> QED
    BY <1>1, <1>4, <1>5, <1>6 DEF t

LEMMA OnceCounts ==
    ASSUME NEW s \in Seq(Nat), Once(s)
    PROVE  Cardinality(Elements(s)) = Len(s)
  <1> DEFINE S == 1..Len(s)
             T == Elements(s)
  <1>1. Len(s) \in Nat /\ DOMAIN s = S /\ s \in [S -> T]
    BY DEF Elements
  <1>2. IsFiniteSet(S) /\ Cardinality(S) = Len(s)
    BY <1>1, FS_Interval
  <1>3. s \in Surjection(S, T)
    BY <1>1 DEF Surjection, Elements
  <1>4. s \in Injection(S, T)
    BY <1>1 DEF Injection, IsInjective, Once
  <1> HIDE DEF S, T
  <1> QED
    BY <1>2, <1>3, <1>4, FS_Surjection DEF T

-----------------------------------------------------------------------------
(* What a page is told                                                      *)

(* Events have numbers of their own; a page that is yet to be offered one   *)
(* has not been told it.                                                    *)
Told ==
    /\ channel \in [Pages -> Seq(Nat)] /\ got \in [Pages -> Seq(Nat)]
    /\ due \in [Pages -> SUBSET Nat]
    /\ \A g \in Pages : Len(channel[g]) <= Capacity
    /\ \A p \in Publishers : event[p] <= events
    /\ \A p, q \in Publishers : event[p] = event[q] /\ event[p] # 0 => p = q
    /\ \A g \in Pages : \A n \in Reached(g) \cup due[g] : n <= events
    /\ \A p \in Publishers, g \in Pages : g \in sending[p] => event[p] \notin Reached(g)
    /\ \A g \in Pages : /\ Once(channel[g]) /\ Once(got[g])
                        /\ Elements(channel[g]) \cap Elements(got[g]) = {}

TellInv == Told /\ NothingMissed

LEMMA ReachedIs == \A g \in Pages : Reached(g) = Elements(got[g]) \cup Elements(channel[g])
  BY DEF Reached, Elements

LEMMA ReachedNext ==
    \A g \in Pages : Reached(g)' = Elements(got'[g]) \cup Elements(channel'[g])
  BY DEF Reached, Elements

LEMMA TellStarts == Init => TellInv
  <1> SUFFICES ASSUME Init PROVE TellInv
    OBVIOUS
  <1>1. Elements(<<>>) = {} /\ Once(<<>>) /\ <<>> \in Seq(Nat) /\ Len(<<>>) = 0
    BY DEF Elements, Once
  <1>2. \A g \in Pages : Reached(g) = {}
    BY <1>1, ReachedIs DEF Init
  <1>3. Told
    <2>1. \A g \in Pages : channel[g] = <<>> /\ got[g] = <<>> /\ due[g] = {}
      BY DEF Init
    <2>2. channel \in [Pages -> Seq(Nat)] /\ got \in [Pages -> Seq(Nat)]
      BY <1>1 DEF Init
    <2> QED
      BY <1>1, <1>2, <2>1, <2>2, BusAssumption DEF Told, Init
  <1>4. NothingMissed
    BY DEF NothingMissed, Init
  <1> QED
    BY <1>3, <1>4 DEF TellInv

(* the handler shows what its channel holds *)
LEMMA ShowTells ==
    ASSUME BusInv, TellInv, NEW g \in Pages, Show(g)
    PROVE  TellInv'
  <1> USE DEF TellInv
  <1> DEFINE n == Head(channel[g])
  <1>1. /\ channel[g] \in Seq(Nat) /\ channel[g] # <<>> /\ got[g] \in Seq(Nat)
        /\ channel' = [channel EXCEPT ![g] = Tail(channel[g])]
        /\ got' = [got EXCEPT ![g] = Append(got[g], n)]
        /\ UNCHANGED <<sending, event, events, due, slow, closed>>
    BY DEF Show, Told, senderVars
  <1>2. /\ Tail(channel[g]) \in Seq(Nat) /\ n \in Nat
        /\ Len(Tail(channel[g])) = Len(channel[g]) - 1
        /\ Elements(channel[g]) = Elements(Tail(channel[g])) \cup {n}
        /\ Once(channel[g]) => Once(Tail(channel[g])) /\ n \notin Elements(Tail(channel[g]))
    BY <1>1, Shown
  <1>3. /\ Append(got[g], n) \in Seq(Nat)
        /\ Elements(Append(got[g], n)) = Elements(got[g]) \cup {n}
        /\ Once(got[g]) /\ n \notin Elements(got[g]) => Once(Append(got[g], n))
    BY <1>1, <1>2, Appended
  <1> HIDE DEF n
  <1>4. /\ channel' \in [Pages -> Seq(Nat)] /\ got' \in [Pages -> Seq(Nat)]
        /\ channel'[g] = Tail(channel[g]) /\ got'[g] = Append(got[g], n)
        /\ \A h \in Pages : h # g => channel'[h] = channel[h] /\ got'[h] = got[h]
    BY <1>1, <1>2, <1>3 DEF Told
  <1>5. \A h \in Pages : Reached(h)' = Reached(h)
    <2>1. Elements(got'[g]) \cup Elements(channel'[g]) = Elements(got[g]) \cup Elements(channel[g])
      BY <1>2, <1>3, <1>4
    <2>2. Reached(g)' = Reached(g)
      BY <2>1, ReachedIs, ReachedNext
    <2> QED
      BY <1>4, <2>2, ReachedIs, ReachedNext
  <1>6. \A h \in Pages :
            /\ Len(channel'[h]) <= Capacity
            /\ Once(channel'[h]) /\ Once(got'[h])
            /\ Elements(channel'[h]) \cap Elements(got'[h]) = {}
    <2>1. /\ Once(channel[g]) /\ Once(got[g]) /\ Elements(channel[g]) \cap Elements(got[g]) = {}
          /\ Len(channel[g]) <= Capacity /\ Len(channel[g]) \in Nat
      BY <1>1 DEF Told
    <2>2. Len(channel[g]) - 1 <= Capacity
      BY <2>1, BusAssumption
    <2> QED
      BY <1>2, <1>3, <1>4, <2>1, <2>2 DEF Told
  <1>7. Told'
    <2>1. \A h \in Pages : \A m \in Reached(h)' \cup due'[h] : m <= events'
      BY <1>1, <1>5 DEF Told
    <2>2. \A q \in Publishers, h \in Pages : h \in sending'[q] => event'[q] \notin Reached(h)'
      BY <1>1, <1>5 DEF Told
    <2>3. /\ due' \in [Pages -> SUBSET Nat]
          /\ \A q \in Publishers : event'[q] <= events'
          /\ \A q, r \in Publishers : event'[q] = event'[r] /\ event'[q] # 0 => q = r
      BY <1>1 DEF Told
    <2> QED
      BY <1>4, <1>6, <2>1, <2>2, <2>3 DEF Told
  <1>8. NothingMissed'
    BY <1>1, <1>5 DEF NothingMissed
  <1> QED
    BY <1>7, <1>8

(* one round of the loop of Publish *)
LEMMA OfferTells ==
    ASSUME BusInv, TellInv, NEW p \in Publishers, NEW g \in Pages, Offer(p, g)
    PROVE  TellInv'
  <1> USE DEF TellInv
  <1>1. /\ g \in sending[p] /\ event[p] \in Nat /\ event[p] # 0
        /\ sending \in [Publishers -> SUBSET Pages]
        /\ sending' = [sending EXCEPT ![p] = sending[p] \ {g}]
        /\ UNCHANGED <<event, events, due, closed, got>>
    BY DEF Offer, Offered, BusInv, handlerVars
  <1>2. event[p] \notin Reached(g) /\ event[p] <= events
    BY <1>1 DEF Told
  <1>3. \A q \in Publishers : sending'[q] \subseteq sending[q]
    BY <1>1
  <1>4. CASE HasRoom(g)
    <2>1. /\ channel[g] \in Seq(Nat) /\ Len(channel[g]) < Capacity
          /\ channel' = [channel EXCEPT ![g] = Append(channel[g], event[p])]
          /\ UNCHANGED slow
      BY <1>4 DEF Offer, HasRoom, Told
    <2>2. /\ Append(channel[g], event[p]) \in Seq(Nat)
          /\ Elements(Append(channel[g], event[p])) = Elements(channel[g]) \cup {event[p]}
          /\ Once(channel[g]) /\ event[p] \notin Elements(channel[g])
                => Once(Append(channel[g], event[p]))
      BY <1>1, <2>1, Appended
    <2>3. Len(Append(channel[g], event[p])) <= Capacity
      BY <1>1, <2>1, AppendProperties, BusAssumption
    <2>4. /\ channel' \in [Pages -> Seq(Nat)]
          /\ channel'[g] = Append(channel[g], event[p])
          /\ \A h \in Pages : h # g => channel'[h] = channel[h]
      BY <2>1, <2>2 DEF Told
    <2>5. /\ Reached(g)' = Reached(g) \cup {event[p]}
          /\ \A h \in Pages : h # g => Reached(h)' = Reached(h)
      BY <1>1, <2>2, <2>4, ReachedIs, ReachedNext
    <2>6. \A h \in Pages :
              /\ Len(channel'[h]) <= Capacity
              /\ Once(channel'[h]) /\ Once(got'[h])
              /\ Elements(channel'[h]) \cap Elements(got'[h]) = {}
      <3>1. /\ Once(channel[g]) /\ Once(got[g])
            /\ Elements(channel[g]) \cap Elements(got[g]) = {}
        BY DEF Told
      <3>2. event[p] \notin Elements(channel[g]) /\ event[p] \notin Elements(got[g])
        BY <1>2, ReachedIs
      <3>3. /\ Once(channel'[g]) /\ Once(got'[g])
            /\ Elements(channel'[g]) \cap Elements(got'[g]) = {}
        BY <1>1, <2>2, <2>4, <3>1, <3>2
      <3>4. ASSUME NEW h \in Pages, h # g
            PROVE  /\ Len(channel'[h]) <= Capacity
                   /\ Once(channel'[h]) /\ Once(got'[h])
                   /\ Elements(channel'[h]) \cap Elements(got'[h]) = {}
        BY <1>1, <2>4, <3>4 DEF Told
      <3> QED
        BY <2>3, <2>4, <3>3, <3>4
    <2>7. \A q \in Publishers, h \in Pages : h \in sending'[q] => event[q] \notin Reached(h)'
      <3>1. \A q \in Publishers, h \in Pages : h \in sending'[q] => event[q] \notin Reached(h)
        BY <1>3 DEF Told
      <3>2. \A q \in Publishers : g \in sending'[q] => event[q] # event[p]
        BY <1>1 DEF Told
      <3> QED
        BY <1>1, <1>3, <2>5, <3>1, <3>2
    <2>8. Told'
      BY <1>1, <1>2, <2>4, <2>5, <2>6, <2>7 DEF Told
    <2>9. NothingMissed'
      <3> SUFFICES ASSUME NEW h \in Pages \ (slow \cup closed), NEW n \in due[h]
                   PROVE  n \in Reached(h)' \/ \E q \in Publishers : event[q] = n /\ h \in sending'[q]
        BY <1>1, <2>1 DEF NothingMissed
      <3>1. CASE n \in Reached(h)
        BY <2>5, <3>1
      <3>2. ASSUME NEW q \in Publishers, event[q] = n, h \in sending[q]
            PROVE  n \in Reached(h)' \/ h \in sending'[q]
        BY <1>1, <2>5, <3>2
      <3> QED
        BY <3>1, <3>2 DEF NothingMissed
    <2> QED
      BY <2>8, <2>9
  <1>5. CASE ~ HasRoom(g)
    <2>1. Len(channel[g]) = Capacity
      BY <1>5, BusAssumption DEF HasRoom, Told
    <2>2. UNCHANGED channel /\ slow' = slow \cup {g}
      BY <1>5, <2>1 DEF Offer
    <2>3. \A h \in Pages : Reached(h)' = Reached(h)
      BY <1>1, <2>2, ReachedIs, ReachedNext
    <2>4. Told'
      BY <1>1, <1>3, <2>2, <2>3 DEF Told
    <2>5. NothingMissed'
      BY <1>1, <2>2, <2>3 DEF NothingMissed
    <2> QED
      BY <2>4, <2>5
  <1> QED
    BY <1>4, <1>5

(* Publish takes a new number, and begins and ends with its range *)
LEMMA PublishTells ==
    ASSUME BusInv, TellInv, NEW p \in Publishers, Publish(p) \/ Published(p)
    PROVE  TellInv'
  <1> USE DEF TellInv
  <1>1. UNCHANGED <<channel, got, closed, slow>>
    BY DEF Publish, Published, handlerVars
  <1>2. \A h \in Pages : Reached(h)' = Reached(h)
    BY <1>1, ReachedIs, ReachedNext
  <1>3. sending[p] = {}
    BY DEF Publish, Published, BusInv
  <1>4. CASE Publish(p)
    <2>1. /\ events \in Nat /\ events' = events + 1
          /\ event \in [Publishers -> Nat] /\ event' = [event EXCEPT ![p] = events + 1]
          /\ sending' = [sending EXCEPT ![p] = subscribers] /\ subscribers \subseteq Pages
          /\ due' = [g \in Pages |-> due[g] \cup IF g \in subscribers THEN {events + 1} ELSE {}]
          /\ sending \in [Publishers -> SUBSET Pages]
      BY <1>4 DEF Publish, BusInv
    <2>2. /\ events + 1 \in Nat /\ events + 1 # 0
          /\ \A n \in Nat : n <= events => n <= events + 1 /\ n # events + 1
      BY <2>1
    <2>3. /\ event'[p] = events + 1 /\ sending'[p] = subscribers
          /\ \A q \in Publishers : q # p => event'[q] = event[q] /\ sending'[q] = sending[q]
      BY <2>1
    <2>4. \A g \in Pages : \A n \in Reached(g) \cup due[g] : n \in Nat /\ n <= events
      <3>1. \A g \in Pages : Elements(got[g]) \subseteq Nat /\ Elements(channel[g]) \subseteq Nat
        BY DEF Told, Elements
      <3> QED
        BY <3>1, ReachedIs DEF Told
    <2>5. \A g \in Pages : \A n \in due'[g] : n \in due[g] \/ (n = events + 1 /\ g \in sending'[p])
      BY <2>1, <2>3
    <2>6. \A g \in Pages : \A n \in Reached(g)' \cup due'[g] : n \in Nat /\ n <= events'
      BY <1>2, <2>1, <2>2, <2>4, <2>5
    <2>7. \A q \in Publishers : event'[q] <= events'
      BY <2>1, <2>2, <2>3 DEF Told
    <2>8. \A q, r \in Publishers : event'[q] = event'[r] /\ event'[q] # 0 => q = r
      BY <2>1, <2>2, <2>3 DEF Told
    <2>9. \A q \in Publishers, g \in Pages : g \in sending'[q] => event'[q] \notin Reached(g)'
      BY <1>2, <2>1, <2>2, <2>3, <2>4 DEF Told
    <2>10. Told'
      BY <1>1, <2>1, <2>6, <2>7, <2>8, <2>9 DEF Told
    <2>11. NothingMissed'
      BY <1>1, <1>2, <1>3, <2>3, <2>5 DEF NothingMissed
    <2> QED
      BY <2>10, <2>11
  <1>5. CASE Published(p)
    <2>1. /\ event \in [Publishers -> Nat] /\ event' = [event EXCEPT ![p] = 0]
          /\ UNCHANGED <<sending, events, due>> /\ events \in Nat
      BY <1>5 DEF Published, BusInv
    <2>2. event'[p] = 0 /\ \A q \in Publishers : q # p => event'[q] = event[q]
      BY <2>1
    <2>3. Told'
      BY <1>1, <1>2, <1>3, <2>1, <2>2 DEF Told
    <2>4. NothingMissed'
      BY <1>1, <1>2, <1>3, <2>1, <2>2 DEF NothingMissed
    <2> QED
      BY <2>3, <2>4
  <1> QED
    BY <1>4, <1>5

LEMMA TellInductive == Spec => []TellInv
  <1>1. ASSUME BusInv, TellInv, [Next]_vars PROVE TellInv'
    <2>1. ASSUME NEW g \in Pages, Connect(g) \/ Disconnect(g) \/ Takes(g)
          PROVE  TellInv'
      <3>1. UNCHANGED <<channel, got, sending, event, events, due, slow>> /\ closed \subseteq closed'
        BY <2>1 DEF Connect, Disconnect, Takes, Subscribe, Unsubscribe, senderVars
      <3>2. \A h \in Pages : Reached(h)' = Reached(h)
        BY <3>1, ReachedIs, ReachedNext
      <3>3. Told'
        BY <1>1, <3>1, <3>2 DEF TellInv, Told
      <3>4. NothingMissed'
        BY <1>1, <3>1, <3>2 DEF TellInv, NothingMissed
      <3> QED
        BY <3>3, <3>4 DEF TellInv
    <2>2. CASE UNCHANGED vars
      <3>1. UNCHANGED <<channel, got, sending, event, events, due, slow, closed>>
        BY <2>2 DEF vars
      <3>2. \A h \in Pages : Reached(h)' = Reached(h)
        BY <3>1, ReachedIs, ReachedNext
      <3> QED
        BY <1>1, <3>1, <3>2 DEF TellInv, Told, NothingMissed
    <2>3. ASSUME NEW p \in Publishers, Sends(p)
          PROVE  TellInv'
      BY <1>1, <2>3, PublishTells, OfferTells DEF Sends
    <2> QED
      BY <1>1, <2>1, <2>2, <2>3, ShowTells, PublishTells DEF Next
  <1> QED
    BY <1>1, TellStarts, BusInductive, PTL DEF Spec

(* A page whose channel has had room for every event misses none: Publish   *)
(* goes through the whole map it read under the read lock, and a page is in *)
(* it from Subscribe until unsubscribe.                                     *)
THEOREM KeepingUpMissesNothing == Spec => []NothingMissed
  BY TellInductive, PTL DEF TellInv

(* No page is shown an event twice: Publish offers it to each channel once, *)
(* and what is taken from a channel is shown once.                          *)
THEOREM NothingIsToldTwice == Spec => []NothingTwice
  <1>1. TellInv => NothingTwice
    <2> SUFFICES ASSUME TellInv, NEW g \in Pages
                 PROVE  /\ Cardinality({got[g][k] : k \in DOMAIN got[g]}) = Len(got[g])
                        /\ \A k \in DOMAIN channel[g] : \A l \in DOMAIN got[g] : channel[g][k] # got[g][l]
      BY DEF NothingTwice
    <2>1. /\ got[g] \in Seq(Nat) /\ Once(got[g])
          /\ Elements(channel[g]) \cap Elements(got[g]) = {}
      BY DEF TellInv, Told
    <2>2. Cardinality(Elements(got[g])) = Len(got[g])
      BY <2>1, OnceCounts
    <2>3. \A k \in DOMAIN channel[g] : \A l \in DOMAIN got[g] : channel[g][k] # got[g][l]
      BY <2>1 DEF Elements
    <2> QED
      BY <2>2, <2>3 DEF Elements
  <1> QED
    BY <1>1, TellInductive, PTL
=============================================================================
