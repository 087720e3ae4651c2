---------------------------- MODULE RelaisProofs ----------------------------
(***************************************************************************)
(* The safety of the relays for any channels, debounce time and number of  *)
(* commands, and for both orders of the stores in operator().              *)
(***************************************************************************)
EXTENDS Relais, FiniteSetTheorems, TLAPS

LEMMA InitIInv == Init => IInv
<1> SUFFICES ASSUME Init PROVE IInv
  OBVIOUS
<1> USE RelaisAssumption DEF Init
<1>1. Cardinality(Channels) \in Nat
  BY FS_CardinalityType
<1>2. queue \in Seq(Messages)
  <2>1. \A c \in Channels : Cmd(c, 0) \in Messages
    BY DEF Cmd, Messages
  <2> QED
    BY <1>1, <2>1
<1>3. HostTypeOK /\ MainTypeOK /\ EventTypeOK /\ CoroTypeOK
  BY <1>2 DEF HostTypeOK, MainTypeOK, EventTypeOK, CoroTypeOK
<1>4. GroundFirst /\ HandleKept
  BY DEF GroundFirst, Grounded, HandleKept, Waits
<1>5. \A c \in Channels : PinsFollow(c) /\ Outlasts(c) /\ HandleOwned(c)
  BY DEF PinsFollow, Outlasts, Filled, HandleOwned
<1>6. CopyRight
  BY DEF CopyRight
<1> QED
  BY <1>3, <1>4, <1>5, <1>6 DEF IInv, TypeOK

(* While operator() runs, the command it was called for is the head of the *)
(* queue, also when the host posts.                                        *)
LEMMA HeadType ==
  ASSUME HostTypeOK, queue # << >>
  PROVE  Ch \in Channels /\ Enable \in {0, 1}
<1>1. Head(queue) \in Messages
  BY DEF HostTypeOK
<1> QED
  BY <1>1 DEF Ch, Enable, Messages

LEMMA NextIInv == IInv /\ [Next]_vars => IInv'
<1> SUFFICES ASSUME IInv, [Next]_vars PROVE IInv'
  OBVIOUS
<1>0. /\ HostTypeOK /\ MainTypeOK /\ EventTypeOK /\ CoroTypeOK
      /\ \A c \in Channels : /\ Grounded(c) /\ Waits(c) /\ PinsFollow(c)
                             /\ Outlasts(c) /\ HandleOwned(c)
      /\ CopyRight
  BY DEF IInv, TypeOK, GroundFirst, HandleKept
<1>h. queue # << >> => Ch \in Channels /\ Enable \in {0, 1}
  BY <1>0, HeadType
<1> USE RelaisAssumption, <1>0
<1>1. ASSUME NEW c \in Channels, NEW e \in {0, 1}, HostSets(c, e) PROVE IInv'
  <2>a. Append(queue, [type |-> "switch", ch |-> c, enable |-> e]) \in Seq(Messages)
    <3>1. [type |-> "switch", ch |-> c, enable |-> e] \in Messages
      BY DEF Messages
    <3> QED
      BY <3>1 DEF HostTypeOK
  <2>b. queue # << >> => Head(queue') = Head(queue)
    BY <1>1 DEF HostSets, HostTypeOK
  <2>c. queue' # << >>
    BY <1>1 DEF HostSets, HostTypeOK
  <2>1. HostTypeOK'
    BY <1>1, <2>a, <2>b, <2>c DEF HostSets, main, event, coro, Ch,
       HostTypeOK
  <2>2. MainTypeOK'
    BY <1>1, <2>a, <2>b, <2>c DEF HostSets, main, event, coro, Ch,
       MainTypeOK
  <2>3. EventTypeOK'
    BY <1>1, <2>a, <2>b, <2>c DEF HostSets, main, event, coro, Ch,
       EventTypeOK
  <2>4. CoroTypeOK'
    BY <1>1, <2>a, <2>b, <2>c DEF HostSets, main, event, coro, Ch,
       CoroTypeOK
  <2>5. ASSUME NEW d \in Channels PROVE Grounded(d)'
    BY <1>1, <2>a, <2>b, <2>c DEF HostSets, main, event, coro, Ch,
       MainTypeOK, EventTypeOK, CoroTypeOK, Grounded, PinsFollow
  <2>6. ASSUME NEW d \in Channels PROVE Waits(d)'
    BY <1>1, <2>a, <2>b, <2>c DEF HostSets, main, event, coro, Ch,
       MainTypeOK, EventTypeOK, CoroTypeOK, Waits, Outlasts, Filled,
       HandleOwned, CopyRight
  <2>7. ASSUME NEW d \in Channels PROVE PinsFollow(d)'
    BY <1>1, <2>a, <2>b, <2>c DEF HostSets, main, event, coro, Ch,
       MainTypeOK, EventTypeOK, CoroTypeOK, PinsFollow
  <2>8. ASSUME NEW d \in Channels PROVE Outlasts(d)'
    BY <1>1, <2>a, <2>b, <2>c DEF HostSets, main, event, coro, Ch,
       MainTypeOK, EventTypeOK, CoroTypeOK, Outlasts, Filled, Waits,
       HandleOwned, CopyRight
  <2>9. ASSUME NEW d \in Channels PROVE HandleOwned(d)'
    BY <1>1, <2>a, <2>b, <2>c DEF HostSets, main, event, coro, Ch,
       MainTypeOK, EventTypeOK, CoroTypeOK, HandleOwned, CopyRight
  <2>10. CopyRight'
    BY <1>1, <2>a, <2>b, <2>c DEF HostSets, main, event, coro, Ch,
       MainTypeOK, EventTypeOK, CoroTypeOK, CopyRight, Outlasts, Filled,
       Waits, HandleOwned
  <2> QED
    BY <2>1, <2>2, <2>3, <2>4, <2>5, <2>6, <2>7, <2>8, <2>9, <2>10 DEF IInv,
       TypeOK, GroundFirst, HandleKept
<1>2. CASE SetValue
  <2>a. Append(Tail(queue), Cmd(Ch, Enable)) \in Seq(Messages)
    <3>1. Cmd(Ch, Enable) \in Messages
      BY <1>2, <1>h DEF SetValue, Cmd, Messages
    <3>2. Tail(queue) \in Seq(Messages)
      BY <1>2 DEF SetValue, HostTypeOK
    <3> QED
      BY <3>1, <3>2
  <2>b. Tail(queue) \in Seq(Messages)
    BY <1>2 DEF SetValue, HostTypeOK
  <2>c. Ch \in Channels /\ Enable \in {0, 1}
    BY <1>2, <1>h DEF SetValue
  <2>1. HostTypeOK'
    BY <1>2, <2>a, <2>b, <2>c DEF SetValue, main, event, coro, Ch, Enable,
       HostTypeOK
  <2>2. MainTypeOK'
    BY <1>2, <2>a, <2>b, <2>c DEF SetValue, main, event, coro, Ch, Enable,
       MainTypeOK
  <2>3. EventTypeOK'
    BY <1>2, <2>a, <2>b, <2>c DEF SetValue, main, event, coro, Ch, Enable,
       EventTypeOK
  <2>4. CoroTypeOK'
    BY <1>2, <2>a, <2>b, <2>c DEF SetValue, main, event, coro, Ch, Enable,
       CoroTypeOK
  <2>5. ASSUME NEW d \in Channels PROVE Grounded(d)'
    BY <1>2, <2>a, <2>b, <2>c DEF SetValue, main, event, coro, Ch, Enable,
       MainTypeOK, EventTypeOK, CoroTypeOK, Grounded, PinsFollow
  <2>6. ASSUME NEW d \in Channels PROVE Waits(d)'
    BY <1>2, <2>a, <2>b, <2>c DEF SetValue, main, event, coro, Ch, Enable,
       MainTypeOK, EventTypeOK, CoroTypeOK, Waits, Outlasts, Filled,
       HandleOwned, CopyRight
  <2>7. ASSUME NEW d \in Channels PROVE PinsFollow(d)'
    BY <1>2, <2>a, <2>b, <2>c DEF SetValue, main, event, coro, Ch, Enable,
       MainTypeOK, EventTypeOK, CoroTypeOK, PinsFollow
  <2>8. ASSUME NEW d \in Channels PROVE Outlasts(d)'
    BY <1>2, <2>a, <2>b, <2>c DEF SetValue, main, event, coro, Ch, Enable,
       MainTypeOK, EventTypeOK, CoroTypeOK, Outlasts, Filled, Waits,
       HandleOwned, CopyRight
  <2>9. ASSUME NEW d \in Channels PROVE HandleOwned(d)'
    BY <1>2, <2>a, <2>b, <2>c DEF SetValue, main, event, coro, Ch, Enable,
       MainTypeOK, EventTypeOK, CoroTypeOK, HandleOwned, CopyRight
  <2>10. CopyRight'
    BY <1>2, <2>a, <2>b, <2>c DEF SetValue, main, event, coro, Ch, Enable,
       MainTypeOK, EventTypeOK, CoroTypeOK, CopyRight, Outlasts, Filled,
       Waits, HandleOwned
  <2> QED
    BY <2>1, <2>2, <2>3, <2>4, <2>5, <2>6, <2>7, <2>8, <2>9, <2>10 DEF IInv,
       TypeOK, GroundFirst, HandleKept
<1>3. CASE Deliver
  <2>1. HostTypeOK'
    BY <1>3, <1>h DEF Deliver, host, event, coro, Ch, HostTypeOK
  <2>2. MainTypeOK'
    BY <1>3, <1>h DEF Deliver, host, event, coro, Ch, MainTypeOK
  <2>3. EventTypeOK'
    BY <1>3, <1>h DEF Deliver, host, event, coro, Ch, EventTypeOK
  <2>4. CoroTypeOK'
    BY <1>3, <1>h DEF Deliver, host, event, coro, Ch, CoroTypeOK
  <2>5. ASSUME NEW d \in Channels PROVE Grounded(d)'
    BY <1>3, <1>h DEF Deliver, host, event, coro, Ch, MainTypeOK,
       EventTypeOK, CoroTypeOK, Grounded, PinsFollow
  <2>6. ASSUME NEW d \in Channels PROVE Waits(d)'
    BY <1>3, <1>h DEF Deliver, host, event, coro, Ch, MainTypeOK,
       EventTypeOK, CoroTypeOK, Waits, Outlasts, Filled, HandleOwned,
       CopyRight
  <2>7. ASSUME NEW d \in Channels PROVE PinsFollow(d)'
    BY <1>3, <1>h DEF Deliver, host, event, coro, Ch, MainTypeOK,
       EventTypeOK, CoroTypeOK, PinsFollow
  <2>8. ASSUME NEW d \in Channels PROVE Outlasts(d)'
    BY <1>3, <1>h DEF Deliver, host, event, coro, Ch, MainTypeOK,
       EventTypeOK, CoroTypeOK, Outlasts, Filled, Waits, HandleOwned,
       CopyRight
  <2>9. ASSUME NEW d \in Channels PROVE HandleOwned(d)'
    BY <1>3, <1>h DEF Deliver, host, event, coro, Ch, MainTypeOK,
       EventTypeOK, CoroTypeOK, HandleOwned, CopyRight
  <2>10. CopyRight'
    BY <1>3, <1>h DEF Deliver, host, event, coro, Ch, MainTypeOK,
       EventTypeOK, CoroTypeOK, CopyRight, Outlasts, Filled, Waits,
       HandleOwned
  <2> QED
    BY <2>1, <2>2, <2>3, <2>4, <2>5, <2>6, <2>7, <2>8, <2>9, <2>10 DEF IInv,
       TypeOK, GroundFirst, HandleKept
<1>4. CASE EmplaceReset
  <2>a. queue # << >> /\ Ch \in Channels /\ Enable \in {0, 1}
    BY <1>4, <1>h DEF EmplaceReset, CopyRight
  <2>1. HostTypeOK'
    BY <1>4, <1>h, <2>a DEF EmplaceReset, host, coro, Ch, HostTypeOK
  <2>2. MainTypeOK'
    BY <1>4, <1>h, <2>a DEF EmplaceReset, host, coro, Ch, MainTypeOK
  <2>3. EventTypeOK'
    BY <1>4, <1>h, <2>a DEF EmplaceReset, host, coro, Ch, EventTypeOK
  <2>4. CoroTypeOK'
    BY <1>4, <1>h, <2>a DEF EmplaceReset, host, coro, Ch, CoroTypeOK
  <2>5. ASSUME NEW d \in Channels PROVE Grounded(d)'
    BY <1>4, <1>h, <2>a DEF EmplaceReset, host, coro, Ch, MainTypeOK,
       EventTypeOK, CoroTypeOK, Grounded, PinsFollow
  <2>6. ASSUME NEW d \in Channels PROVE Waits(d)'
    BY <1>4, <1>h, <2>a DEF EmplaceReset, host, coro, Ch, MainTypeOK,
       EventTypeOK, CoroTypeOK, Waits, Outlasts, Filled, HandleOwned,
       CopyRight
  <2>7. ASSUME NEW d \in Channels PROVE PinsFollow(d)'
    BY <1>4, <1>h, <2>a DEF EmplaceReset, host, coro, Ch, MainTypeOK,
       EventTypeOK, CoroTypeOK, PinsFollow
  <2>8. ASSUME NEW d \in Channels PROVE Outlasts(d)'
    BY <1>4, <1>h, <2>a DEF EmplaceReset, host, coro, Ch, MainTypeOK,
       EventTypeOK, CoroTypeOK, Outlasts, Filled, Waits, HandleOwned,
       CopyRight
  <2>9. ASSUME NEW d \in Channels PROVE HandleOwned(d)'
    BY <1>4, <1>h, <2>a DEF EmplaceReset, host, coro, Ch, MainTypeOK,
       EventTypeOK, CoroTypeOK, HandleOwned, CopyRight
  <2>10. CopyRight'
    BY <1>4, <1>h, <2>a DEF EmplaceReset, host, coro, Ch, MainTypeOK,
       EventTypeOK, CoroTypeOK, CopyRight, Outlasts, Filled, Waits,
       HandleOwned
  <2> QED
    BY <2>1, <2>2, <2>3, <2>4, <2>5, <2>6, <2>7, <2>8, <2>9, <2>10 DEF IInv,
       TypeOK, GroundFirst, HandleKept
<1>5. CASE EmplaceFirst
  <2>a. queue # << >> /\ Ch \in Channels /\ Enable \in {0, 1}
    BY <1>5, <1>h DEF EmplaceFirst, CopyRight
  <2>1. HostTypeOK'
    BY <1>5, <1>h, <2>a DEF EmplaceFirst, host, coro, StorePayload,
       StoreEngaged, Ch, HostTypeOK
  <2>2. MainTypeOK'
    BY <1>5, <1>h, <2>a DEF EmplaceFirst, host, coro, StorePayload,
       StoreEngaged, Ch, MainTypeOK
  <2>3. EventTypeOK'
    BY <1>5, <1>h, <2>a DEF EmplaceFirst, host, coro, StorePayload,
       StoreEngaged, Ch, EventTypeOK
  <2>4. CoroTypeOK'
    BY <1>5, <1>h, <2>a DEF EmplaceFirst, host, coro, StorePayload,
       StoreEngaged, Ch, CoroTypeOK
  <2>5. ASSUME NEW d \in Channels PROVE Grounded(d)'
    BY <1>5, <1>h, <2>a DEF EmplaceFirst, host, coro, StorePayload,
       StoreEngaged, Ch, MainTypeOK, EventTypeOK, CoroTypeOK, Grounded,
       PinsFollow
  <2>6. ASSUME NEW d \in Channels PROVE Waits(d)'
    BY <1>5, <1>h, <2>a DEF EmplaceFirst, host, coro, StorePayload,
       StoreEngaged, Ch, MainTypeOK, EventTypeOK, CoroTypeOK, Waits,
       Outlasts, Filled, HandleOwned, CopyRight
  <2>7. ASSUME NEW d \in Channels PROVE PinsFollow(d)'
    BY <1>5, <1>h, <2>a DEF EmplaceFirst, host, coro, StorePayload,
       StoreEngaged, Ch, MainTypeOK, EventTypeOK, CoroTypeOK, PinsFollow
  <2>8. ASSUME NEW d \in Channels PROVE Outlasts(d)'
    BY <1>5, <1>h, <2>a DEF EmplaceFirst, host, coro, StorePayload,
       StoreEngaged, Ch, MainTypeOK, EventTypeOK, CoroTypeOK, Outlasts,
       Filled, Waits, HandleOwned, CopyRight
  <2>9. ASSUME NEW d \in Channels PROVE HandleOwned(d)'
    BY <1>5, <1>h, <2>a DEF EmplaceFirst, host, coro, StorePayload,
       StoreEngaged, Ch, MainTypeOK, EventTypeOK, CoroTypeOK, HandleOwned,
       CopyRight
  <2>10. CopyRight'
    BY <1>5, <1>h, <2>a DEF EmplaceFirst, host, coro, StorePayload,
       StoreEngaged, Ch, MainTypeOK, EventTypeOK, CoroTypeOK, CopyRight,
       Outlasts, Filled, Waits, HandleOwned
  <2> QED
    BY <2>1, <2>2, <2>3, <2>4, <2>5, <2>6, <2>7, <2>8, <2>9, <2>10 DEF IInv,
       TypeOK, GroundFirst, HandleKept
<1>6. CASE EmplaceSecond
  <2>a. queue # << >> /\ Ch \in Channels /\ Enable \in {0, 1}
    BY <1>6, <1>h DEF EmplaceSecond, CopyRight
  <2>1. HostTypeOK'
    BY <1>6, <1>h, <2>a DEF EmplaceSecond, host, coro, StorePayload,
       StoreEngaged, Ch, HostTypeOK
  <2>2. MainTypeOK'
    BY <1>6, <1>h, <2>a DEF EmplaceSecond, host, coro, StorePayload,
       StoreEngaged, Ch, MainTypeOK
  <2>3. EventTypeOK'
    BY <1>6, <1>h, <2>a DEF EmplaceSecond, host, coro, StorePayload,
       StoreEngaged, Ch, EventTypeOK
  <2>4. CoroTypeOK'
    BY <1>6, <1>h, <2>a DEF EmplaceSecond, host, coro, StorePayload,
       StoreEngaged, Ch, CoroTypeOK
  <2>5. ASSUME NEW d \in Channels PROVE Grounded(d)'
    BY <1>6, <1>h, <2>a DEF EmplaceSecond, host, coro, StorePayload,
       StoreEngaged, Ch, MainTypeOK, EventTypeOK, CoroTypeOK, Grounded,
       PinsFollow
  <2>6. ASSUME NEW d \in Channels PROVE Waits(d)'
    BY <1>6, <1>h, <2>a DEF EmplaceSecond, host, coro, StorePayload,
       StoreEngaged, Ch, MainTypeOK, EventTypeOK, CoroTypeOK, Waits,
       Outlasts, Filled, HandleOwned, CopyRight
  <2>7. ASSUME NEW d \in Channels PROVE PinsFollow(d)'
    BY <1>6, <1>h, <2>a DEF EmplaceSecond, host, coro, StorePayload,
       StoreEngaged, Ch, MainTypeOK, EventTypeOK, CoroTypeOK, PinsFollow
  <2>8. ASSUME NEW d \in Channels PROVE Outlasts(d)'
    BY <1>6, <1>h, <2>a DEF EmplaceSecond, host, coro, StorePayload,
       StoreEngaged, Ch, MainTypeOK, EventTypeOK, CoroTypeOK, Outlasts,
       Filled, Waits, HandleOwned, CopyRight
  <2>9. ASSUME NEW d \in Channels PROVE HandleOwned(d)'
    BY <1>6, <1>h, <2>a DEF EmplaceSecond, host, coro, StorePayload,
       StoreEngaged, Ch, MainTypeOK, EventTypeOK, CoroTypeOK, HandleOwned,
       CopyRight
  <2>10. CopyRight'
    BY <1>6, <1>h, <2>a DEF EmplaceSecond, host, coro, StorePayload,
       StoreEngaged, Ch, MainTypeOK, EventTypeOK, CoroTypeOK, CopyRight,
       Outlasts, Filled, Waits, HandleOwned
  <2> QED
    BY <2>1, <2>2, <2>3, <2>4, <2>5, <2>6, <2>7, <2>8, <2>9, <2>10 DEF IInv,
       TypeOK, GroundFirst, HandleKept
<1>7. CASE SwapLoad
  <2>a. queue # << >> /\ Ch \in Channels /\ Enable \in {0, 1}
    BY <1>7, <1>h DEF SwapLoad, CopyRight
  <2>1. HostTypeOK'
    BY <1>7, <1>h, <2>a DEF SwapLoad, host, event, coro, Ch, HostTypeOK
  <2>2. MainTypeOK'
    BY <1>7, <2>a DEF SwapLoad, MainTypeOK, EventTypeOK
  <2>3. EventTypeOK'
    BY <1>7, <1>h, <2>a DEF SwapLoad, host, event, coro, Ch, EventTypeOK
  <2>4. CoroTypeOK'
    BY <1>7, <1>h, <2>a DEF SwapLoad, host, event, coro, Ch, CoroTypeOK
  <2>5. ASSUME NEW d \in Channels PROVE Grounded(d)'
    BY <1>7, <1>h, <2>a DEF SwapLoad, host, event, coro, Ch, MainTypeOK,
       EventTypeOK, CoroTypeOK, Grounded, PinsFollow
  <2>6. ASSUME NEW d \in Channels PROVE Waits(d)'
    BY <1>7, <1>h, <2>a DEF SwapLoad, host, event, coro, Ch, MainTypeOK,
       EventTypeOK, CoroTypeOK, Waits, Outlasts, Filled, HandleOwned,
       CopyRight
  <2>7. ASSUME NEW d \in Channels PROVE PinsFollow(d)'
    BY <1>7, <1>h, <2>a DEF SwapLoad, host, event, coro, Ch, MainTypeOK,
       EventTypeOK, CoroTypeOK, PinsFollow
  <2>8. ASSUME NEW d \in Channels PROVE Outlasts(d)'
    BY <1>7, <1>h, <2>a DEF SwapLoad, host, event, coro, Ch, MainTypeOK,
       EventTypeOK, CoroTypeOK, Outlasts, Filled, Waits, HandleOwned,
       CopyRight
  <2>9. ASSUME NEW d \in Channels PROVE HandleOwned(d)'
    BY <1>7, <1>h, <2>a DEF SwapLoad, host, event, coro, Ch, MainTypeOK,
       EventTypeOK, CoroTypeOK, HandleOwned, CopyRight
  <2>10. CopyRight'
    BY <1>7, <1>h, <2>a DEF SwapLoad, host, event, coro, Ch, MainTypeOK,
       EventTypeOK, CoroTypeOK, CopyRight, Outlasts, Filled, Waits,
       HandleOwned
  <2> QED
    BY <2>1, <2>2, <2>3, <2>4, <2>5, <2>6, <2>7, <2>8, <2>9, <2>10 DEF IInv,
       TypeOK, GroundFirst, HandleKept
<1>8. CASE SwapStore
  <2>a. queue # << >> /\ Ch \in Channels /\ Enable \in {0, 1}
    BY <1>8, <1>h DEF SwapStore, CopyRight
  <2>b. Tail(queue) \in Seq(Messages)
    BY <2>a DEF HostTypeOK
  <2>1. HostTypeOK'
    BY <1>8, <1>h, <2>a, <2>b DEF SwapStore, host, coro, Return, Ch,
       HostTypeOK
  <2>2. MainTypeOK'
    BY <1>8, <1>h, <2>a, <2>b DEF SwapStore, host, coro, Return, Ch,
       MainTypeOK
  <2>3. EventTypeOK'
    BY <1>8, <1>h, <2>a, <2>b DEF SwapStore, host, coro, Return, Ch,
       EventTypeOK
  <2>4. CoroTypeOK'
    BY <1>8, <1>h, <2>a, <2>b DEF SwapStore, host, coro, Return, Ch,
       CoroTypeOK
  <2>5. ASSUME NEW d \in Channels PROVE Grounded(d)'
    BY <1>8, <1>h, <2>a, <2>b DEF SwapStore, host, coro, Return, Ch,
       MainTypeOK, EventTypeOK, CoroTypeOK, Grounded, PinsFollow
  <2>6. ASSUME NEW d \in Channels PROVE Waits(d)'
    BY <1>8, <1>h, <2>a, <2>b DEF SwapStore, host, coro, Return, Ch,
       MainTypeOK, EventTypeOK, CoroTypeOK, Waits, Outlasts, Filled,
       HandleOwned, CopyRight
  <2>7. ASSUME NEW d \in Channels PROVE PinsFollow(d)'
    BY <1>8, <1>h, <2>a, <2>b DEF SwapStore, host, coro, Return, Ch,
       MainTypeOK, EventTypeOK, CoroTypeOK, PinsFollow
  <2>8. ASSUME NEW d \in Channels PROVE Outlasts(d)'
    BY <1>8, <1>h, <2>a, <2>b DEF SwapStore, host, coro, Return, Ch,
       MainTypeOK, EventTypeOK, CoroTypeOK, Outlasts, Filled, Waits,
       HandleOwned, CopyRight
  <2>9. ASSUME NEW d \in Channels PROVE HandleOwned(d)'
    BY <1>8, <1>h, <2>a, <2>b DEF SwapStore, host, coro, Return, Ch,
       MainTypeOK, EventTypeOK, CoroTypeOK, HandleOwned, CopyRight
  <2>10. CopyRight'
    BY <1>8, <1>h, <2>a, <2>b DEF SwapStore, host, coro, Return, Ch,
       MainTypeOK, EventTypeOK, CoroTypeOK, CopyRight, Outlasts, Filled,
       Waits, HandleOwned
  <2> QED
    BY <2>1, <2>2, <2>3, <2>4, <2>5, <2>6, <2>7, <2>8, <2>9, <2>10 DEF IInv,
       TypeOK, GroundFirst, HandleKept
<1>9. CASE Call
  <2>a. queue # << >> /\ Ch \in Channels /\ Enable \in {0, 1}
    BY <1>9, <1>h DEF Call, CopyRight
  <2>b. Tail(queue) \in Seq(Messages)
    BY <2>a DEF HostTypeOK
  <2>c. co[Ch] = "event" /\ payload[Ch] \in {0, 1}
    BY <1>9, <2>a DEF Call, CopyRight, EventTypeOK
  <2>1. HostTypeOK'
    BY <1>9, <1>h, <2>a, <2>b, <2>c DEF Call, host, ResumedByMain, Obey,
       Aged, Return, HostTypeOK
  <2>2. MainTypeOK'
    BY <1>9, <1>h, <2>a, <2>b, <2>c DEF Call, host, ResumedByMain, Obey,
       Aged, Return, MainTypeOK
  <2>3. EventTypeOK'
    BY <1>9, <1>h, <2>a, <2>b, <2>c DEF Call, host, ResumedByMain, Obey,
       Aged, Return, EventTypeOK
  <2>4. CoroTypeOK'
    BY <1>9, <1>h, <2>a, <2>b, <2>c DEF Call, host, ResumedByMain, Obey,
       Aged, Return, CoroTypeOK
  <2>5. ASSUME NEW d \in Channels PROVE Grounded(d)'
    BY <1>9, <1>h, <2>a, <2>b, <2>c DEF Call, host, ResumedByMain, Obey,
       Aged, Return, MainTypeOK, EventTypeOK, CoroTypeOK, Grounded,
       PinsFollow
  <2>6. ASSUME NEW d \in Channels PROVE Waits(d)'
    BY <1>9, <1>h, <2>a, <2>b, <2>c DEF Call, host, ResumedByMain, Obey,
       Aged, Return, MainTypeOK, EventTypeOK, CoroTypeOK, Waits, Outlasts,
       Filled, HandleOwned, CopyRight
  <2>7. ASSUME NEW d \in Channels PROVE PinsFollow(d)'
    BY <1>9, <1>h, <2>a, <2>b, <2>c DEF Call, host, ResumedByMain, Obey,
       Aged, Return, MainTypeOK, EventTypeOK, CoroTypeOK, PinsFollow
  <2>8. ASSUME NEW d \in Channels PROVE Outlasts(d)'
    BY <1>9, <1>h, <2>a, <2>b, <2>c DEF Call, host, ResumedByMain, Obey,
       Aged, Return, MainTypeOK, EventTypeOK, CoroTypeOK, Outlasts, Filled,
       Waits, HandleOwned, CopyRight
  <2>9. ASSUME NEW d \in Channels PROVE HandleOwned(d)'
    BY <1>9, <1>h, <2>a, <2>b, <2>c DEF Call, host, ResumedByMain, Obey,
       Aged, Return, MainTypeOK, EventTypeOK, CoroTypeOK, HandleOwned,
       CopyRight
  <2>10. CopyRight'
    BY <1>9, <1>h, <2>a, <2>b, <2>c DEF Call, host, ResumedByMain, Obey,
       Aged, Return, MainTypeOK, EventTypeOK, CoroTypeOK, CopyRight,
       Outlasts, Filled, Waits, HandleOwned
  <2> QED
    BY <2>1, <2>2, <2>3, <2>4, <2>5, <2>6, <2>7, <2>8, <2>9, <2>10 DEF IInv,
       TypeOK, GroundFirst, HandleKept
<1>10. ASSUME NEW c \in Channels, PauseOverWaits(c) PROVE IInv'
  <2>1. HostTypeOK'
    BY <1>10, <1>h DEF PauseOverWaits, host, main, SecondRelay, Aged, Ch,
       HostTypeOK
  <2>2. MainTypeOK'
    BY <1>10, <1>h DEF PauseOverWaits, host, main, SecondRelay, Aged, Ch,
       MainTypeOK
  <2>3. EventTypeOK'
    BY <1>10, <1>h DEF PauseOverWaits, host, main, SecondRelay, Aged, Ch,
       EventTypeOK
  <2>4. CoroTypeOK'
    BY <1>10, <1>h DEF PauseOverWaits, host, main, SecondRelay, Aged, Ch,
       CoroTypeOK
  <2>5. ASSUME NEW d \in Channels PROVE Grounded(d)'
    BY <1>10, <1>h DEF PauseOverWaits, host, main, SecondRelay, Aged, Ch,
       MainTypeOK, EventTypeOK, CoroTypeOK, Grounded, PinsFollow
  <2>6. ASSUME NEW d \in Channels PROVE Waits(d)'
    BY <1>10, <1>h DEF PauseOverWaits, host, main, SecondRelay, Aged, Ch,
       MainTypeOK, EventTypeOK, CoroTypeOK, Waits, Outlasts, Filled,
       HandleOwned, CopyRight
  <2>7. ASSUME NEW d \in Channels PROVE PinsFollow(d)'
    BY <1>10, <1>h DEF PauseOverWaits, host, main, SecondRelay, Aged, Ch,
       MainTypeOK, EventTypeOK, CoroTypeOK, PinsFollow
  <2>8. ASSUME NEW d \in Channels PROVE Outlasts(d)'
    BY <1>10, <1>h DEF PauseOverWaits, host, main, SecondRelay, Aged, Ch,
       MainTypeOK, EventTypeOK, CoroTypeOK, Outlasts, Filled, Waits,
       HandleOwned, CopyRight
  <2>9. ASSUME NEW d \in Channels PROVE HandleOwned(d)'
    BY <1>10, <1>h DEF PauseOverWaits, host, main, SecondRelay, Aged, Ch,
       MainTypeOK, EventTypeOK, CoroTypeOK, HandleOwned, CopyRight
  <2>10. CopyRight'
    BY <1>10, <1>h DEF PauseOverWaits, host, main, SecondRelay, Aged, Ch,
       MainTypeOK, EventTypeOK, CoroTypeOK, CopyRight, Outlasts, Filled,
       Waits, HandleOwned
  <2> QED
    BY <2>1, <2>2, <2>3, <2>4, <2>5, <2>6, <2>7, <2>8, <2>9, <2>10 DEF IInv,
       TypeOK, GroundFirst, HandleKept
<1>11. ASSUME NEW c \in Channels, PauseOverGoesOn(c) PROVE IInv'
  <2>a. payload[c] \in {0, 1} /\ target[c] \in {0, 1}
    BY DEF EventTypeOK, CoroTypeOK
  <2>1. HostTypeOK'
    BY <1>11, <1>h, <2>a DEF PauseOverGoesOn, host, main, Obey, Aged, Ch,
       HostTypeOK
  <2>2. MainTypeOK'
    BY <1>11, <1>h, <2>a DEF PauseOverGoesOn, host, main, Obey, Aged, Ch,
       MainTypeOK
  <2>3. EventTypeOK'
    BY <1>11, <1>h, <2>a DEF PauseOverGoesOn, host, main, Obey, Aged, Ch,
       EventTypeOK
  <2>4. CoroTypeOK'
    BY <1>11, <1>h, <2>a DEF PauseOverGoesOn, host, main, Obey, Aged, Ch,
       CoroTypeOK
  <2>5. ASSUME NEW d \in Channels PROVE Grounded(d)'
    BY <1>11, <1>h, <2>a DEF PauseOverGoesOn, host, main, Obey, Aged, Ch,
       MainTypeOK, EventTypeOK, CoroTypeOK, Grounded, PinsFollow
  <2>6. ASSUME NEW d \in Channels PROVE Waits(d)'
    BY <1>11, <1>h, <2>a DEF PauseOverGoesOn, host, main, Obey, Aged, Ch,
       MainTypeOK, EventTypeOK, CoroTypeOK, Waits, Outlasts, Filled,
       HandleOwned, CopyRight
  <2>7. ASSUME NEW d \in Channels PROVE PinsFollow(d)'
    BY <1>11, <1>h, <2>a DEF PauseOverGoesOn, host, main, Obey, Aged, Ch,
       MainTypeOK, EventTypeOK, CoroTypeOK, PinsFollow
  <2>8. ASSUME NEW d \in Channels PROVE Outlasts(d)'
    BY <1>11, <1>h, <2>a DEF PauseOverGoesOn, host, main, Obey, Aged, Ch,
       MainTypeOK, EventTypeOK, CoroTypeOK, Outlasts, Filled, Waits,
       HandleOwned, CopyRight
  <2>9. ASSUME NEW d \in Channels PROVE HandleOwned(d)'
    BY <1>11, <1>h, <2>a DEF PauseOverGoesOn, host, main, Obey, Aged, Ch,
       MainTypeOK, EventTypeOK, CoroTypeOK, HandleOwned, CopyRight
  <2>10. CopyRight'
    BY <1>11, <1>h, <2>a DEF PauseOverGoesOn, host, main, Obey, Aged, Ch,
       MainTypeOK, EventTypeOK, CoroTypeOK, CopyRight, Outlasts, Filled,
       Waits, HandleOwned
  <2> QED
    BY <2>1, <2>2, <2>3, <2>4, <2>5, <2>6, <2>7, <2>8, <2>9, <2>10 DEF IInv,
       TypeOK, GroundFirst, HandleKept
<1>12. CASE Tick
  <2>a. \A d \in Channels : left'[d] \in Nat /\ left'[d] >= left[d] - 1
    BY <1>12 DEF Tick, CoroTypeOK
  <2>b. mpc # "loop" => stall' = stall + 1
    BY <1>12 DEF Tick
  <2>1. HostTypeOK'
    BY <1>12, <1>h, <2>a, <2>b DEF Tick, host, event, Ch, HostTypeOK
  <2>2. MainTypeOK'
    BY <1>12, <1>h, <2>a, <2>b DEF Tick, host, event, Ch, MainTypeOK
  <2>3. EventTypeOK'
    BY <1>12, <1>h, <2>a, <2>b DEF Tick, host, event, Ch, EventTypeOK
  <2>4. CoroTypeOK'
    BY <1>12, <1>h, <2>a, <2>b DEF Tick, host, event, Ch, CoroTypeOK
  <2>5. ASSUME NEW d \in Channels PROVE Grounded(d)'
    BY <1>12, <1>h, <2>a, <2>b DEF Tick, host, event, Ch, MainTypeOK,
       EventTypeOK, CoroTypeOK, Grounded, PinsFollow
  <2>6. ASSUME NEW d \in Channels PROVE Waits(d)'
    BY <1>12, <1>h, <2>a, <2>b DEF Tick, host, event, Ch, MainTypeOK,
       EventTypeOK, CoroTypeOK, Waits, Outlasts, Filled, HandleOwned,
       CopyRight
  <2>7. ASSUME NEW d \in Channels PROVE PinsFollow(d)'
    BY <1>12, <1>h, <2>a, <2>b DEF Tick, host, event, Ch, MainTypeOK,
       EventTypeOK, CoroTypeOK, PinsFollow
  <2>8. ASSUME NEW d \in Channels PROVE Outlasts(d)'
    <3>1. /\ engaged' = engaged /\ co' = co /\ mpc' = mpc /\ first' = first
          /\ queue' = queue
      BY <1>12 DEF Tick, event
    <3>2. stall \in Nat /\ left[d] \in Nat /\ left'[d] \in Nat
      BY <2>a DEF MainTypeOK, CoroTypeOK
    <3>3. CASE Filled /\ Ch = d /\ co[d] = "pause"
      <4>1. stall' = stall + 1
        BY <2>b, <3>3 DEF Filled
      <4>2. engaged[d] = 1 \/ left[d] + stall >= Debounce
        BY <3>3 DEF Outlasts
      <4> QED
        BY <2>a, <3>1, <3>2, <4>1, <4>2 DEF Outlasts
    <3>4. CASE ~(Filled /\ Ch = d /\ co[d] = "pause")
      BY <3>1, <3>4 DEF Outlasts, Filled, Ch
    <3> QED
      BY <3>3, <3>4
  <2>9. ASSUME NEW d \in Channels PROVE HandleOwned(d)'
    BY <1>12, <1>h, <2>a, <2>b DEF Tick, host, event, Ch, MainTypeOK,
       EventTypeOK, CoroTypeOK, HandleOwned, CopyRight
  <2>10. CopyRight'
    BY <1>12, <1>h, <2>a, <2>b DEF Tick, host, event, Ch, MainTypeOK,
       EventTypeOK, CoroTypeOK, CopyRight, Outlasts, Filled, Waits,
       HandleOwned
  <2> QED
    BY <2>1, <2>2, <2>3, <2>4, <2>5, <2>6, <2>7, <2>8, <2>9, <2>10 DEF IInv,
       TypeOK, GroundFirst, HandleKept
<1>13. CASE UNCHANGED vars
  <2>1. (HostTypeOK /\ MainTypeOK /\ EventTypeOK /\ CoroTypeOK)'
    BY <1>13 DEF vars, HostTypeOK, MainTypeOK, EventTypeOK, CoroTypeOK
  <2>2. ASSUME NEW d \in Channels
        PROVE  /\ Grounded(d)' /\ Waits(d)' /\ PinsFollow(d)'
               /\ Outlasts(d)' /\ HandleOwned(d)'
    BY <1>13 DEF vars, Grounded, Waits, PinsFollow, Outlasts, Filled,
                 HandleOwned, Ch
  <2>3. CopyRight'
    BY <1>13 DEF vars, CopyRight, Ch
  <2> QED
    BY <2>1, <2>2, <2>3 DEF IInv, TypeOK, GroundFirst, HandleKept
<1> QED
  BY <1>1, <1>2, <1>3, <1>4, <1>5, <1>6, <1>7, <1>8, <1>9, <1>10, <1>11, <1>12,
     <1>13
  DEF Next, MainLoop, PauseOver

(* A step that turns an output on or a ground off ends a pause.            *)
LEMMA StepDebounced ==
  ASSUME IInv, [Next]_vars, NEW d \in Channels,
         out'[d] > out[d] \/ gnd'[d] < gnd[d]
  PROVE  age[d] = Debounce
<1>0. /\ HostTypeOK /\ MainTypeOK /\ EventTypeOK /\ CoroTypeOK
      /\ \A c \in Channels : PinsFollow(c)
      /\ CopyRight
  BY DEF IInv, TypeOK
<1>h. queue # << >> => Ch \in Channels /\ Enable \in {0, 1}
  BY <1>0, HeadType
<1>d. /\ out[d] \in {0, 1} /\ gnd[d] \in {0, 1} /\ target[d] \in {0, 1}
      /\ age[d] \in 0..Debounce /\ left[d] \in 0..Debounce
      /\ Debounce \in Nat
  BY <1>0, RelaisAssumption DEF CoroTypeOK
<1>s. ~(out' = out /\ gnd' = gnd)
  BY <1>d
<1>1. CASE Call
  <2>1. queue # << >> /\ Ch \in Channels
    BY <1>0, <1>1, <1>h DEF Call, CopyRight
  <2>2. /\ gnd'[d] = gnd[d] \/ gnd'[d] = 1
        /\ out'[d] = out[d] \/ out'[d] = 0
    BY <1>0, <1>1, <2>1 DEF Call, ResumedByMain, CoroTypeOK
  <2> QED
    BY <1>d, <2>2
<1>2. ASSUME NEW c \in Channels, PauseOver(c) PROVE age[d] = Debounce
  <2>1. co[c] = "pause" /\ left[c] = 0
    BY <1>2 DEF PauseOver, PauseOverWaits, PauseOverGoesOn
  <2>2. c = d
    <3>1. SUFFICES ASSUME c # d PROVE out'[d] = out[d] /\ gnd'[d] = gnd[d]
      BY <1>d
    <3>2. CASE PauseOverWaits(c)
      BY <1>0, <3>1, <3>2 DEF PauseOverWaits, SecondRelay, CoroTypeOK
    <3>3. CASE PauseOverGoesOn(c)
      BY <1>0, <3>1, <3>3 DEF PauseOverGoesOn, CoroTypeOK
    <3> QED
      BY <1>2, <3>2, <3>3 DEF PauseOver
  <2> QED
    BY <1>0, <1>d, <2>1, <2>2 DEF PinsFollow
<1>3. CASE Call \/ \E c \in Channels : PauseOver(c)
  BY <1>1, <1>2, <1>3
<1>4. CASE ~(Call \/ \E c \in Channels : PauseOver(c))
  BY <1>s, <1>4 DEF Next, vars, coro, HostSets, MainLoop, SetValue, Deliver,
     EmplaceReset, EmplaceFirst, EmplaceSecond, SwapLoad, SwapStore, Tick
<1> QED
  BY <1>3, <1>4

(* The inductive invariant holds in every behaviour.                       *)
THEOREM RelaisInvariant == Spec => []IInv
  BY InitIInv, NextIInv, PTL DEF Spec

(* An output is never connected without its ground.                        *)
THEOREM RelaisGroundFirst == Spec => []GroundFirst
  BY RelaisInvariant, PTL DEF IInv

(* The handle of a waiting coroutine is not lost to the unlocked swap.     *)
THEOREM RelaisHandleKept == Spec => []HandleKept
  BY RelaisInvariant, PTL DEF IInv

(* The relays of a channel are never switched within the debounce time.    *)
THEOREM RelaisDebounced == Spec => Debounced
<1>1. IInv /\ [Next]_vars =>
        [\A c \in Channels :
           (out'[c] > out[c] \/ gnd'[c] < gnd[c]) => age[c] = Debounce]_vars
  BY StepDebounced
<1> QED
  BY <1>1, RelaisInvariant, PTL DEF Spec, Debounced
=============================================================================
