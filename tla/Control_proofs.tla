--------------------------- MODULE Control_proofs ---------------------------
(***************************************************************************)
(* Control for any device, any requests, any faults and any number of      *)
(* transfers: type correctness, which answer ends which transfer, and the  *)
(* order in which the device gets the requests (IInv); and, where at most  *)
(* IN requests are stalled and datagrams not sent, that both halves end up *)
(* serving the settings the host has selected (Serving).                   *)
(***************************************************************************)
EXTENDS Control, QueueLemmas, FiniteSetTheorems

-----------------------------------------------------------------------------
(* What the induction is about *)

Sent     == DOMAIN issued
Outcomes == [end : {"waiting", "answered", "stalled", "abandoned"}, by : Setups \cup {0}]
OutItems == [item : {"setup", "data"}, req : Setups]
InItems  == [req : Setups, status : {"ok", "EPIPE", "error"}]
Messages == [type : {"reply", "stall", "done"}, req : Setups]
Steps    == [at : {"idle", "disable", "read", "enable"}, req : Setups \cup {0},
             settings : SUBSET Settings]
Gadgets  == [eps : [EpIds -> Nat], active : SUBSET Settings]

\* TypeOK, the queues apart.
QueuesTyped ==
    /\ gIn \in Seq(Setups) /\ up \in Seq(Setups) /\ urbs \in Seq(Setups) /\ seen \in Seq(Setups)
    /\ gOut \in Seq(OutItems) /\ down \in Seq(Messages)
    /\ dIn \in Seq(InItems) /\ dOut \in Seq(InItems)

HostTyped ==
    /\ issued \in Seq(Requests)
    /\ outcome \in Seq(Outcomes)
    /\ Len(outcome) = Len(issued) /\ Len(issued) <= MaxSetups
    /\ selected \subseteq Nat \X Nat

RestTyped ==
    /\ queued \in Setups \cup {0}
    /\ g \in Gadgets
    /\ dEps \in [EpIds -> Nat]
    /\ cur \subseteq Settings
    /\ com \in Steps /\ conf \in Steps
    /\ com.at = "idle" => com = Idle

Typed == known \in BOOLEAN /\ QueuesTyped /\ HostTyped /\ RestTyped

\* The requests at each place.
GIn     == Range(gIn)
GOut    == ReqsOf(Range(gOut))
Asked   == ReqsOf({x \in Range(gOut) : x.item = "setup"})
Handed  == ReqsOf({x \in Range(gOut) : x.item = "data"})
Queued  == {queued} \ {0}
Up      == Range(up)
Coming  == IF com.at = "idle" THEN {} ELSE {com.req}
Urbs    == Range(urbs)
Seen    == Range(seen)
DIn     == ReqsOf(Range(dIn))
Down    == ReqsOf(Range(down))
Replies == ReqsOf({x \in Range(down) : x.type # "done"})
Dones   == ReqsOf({x \in Range(down) : x.type = "done"})

\* The requests of each kind.
Ins       == {n \in Sent : IsIn(n)}
Puts      == {n \in Sent : Kind(n) = "put"}
Selecting == {n \in Sent : Kind(n) = "set_interface"}
Valid     == {n \in Sent : n \in Selecting => issued[n].setting \in Settings}

\* What is where.  A setting the device does not have goes no further than the
\* gadget.
RightKind ==
    /\ GIn \subseteq Ins
    /\ GOut \subseteq Sent \ Ins /\ Handed \subseteq Puts
    /\ Queued \subseteq Sent
    /\ Up \subseteq Valid /\ Coming \subseteq Valid \cap Selecting
    /\ Urbs \subseteq Sent /\ Seen \subseteq Sent
    /\ DIn \subseteq Ins
    /\ Replies \subseteq Ins /\ Dones \subseteq Selecting

\* A request is at one place; but the gadget answers one without data, which it
\* forwards, itself.
Unique ==
    IsInjective(gIn) /\ Ordered(dIn, Differ(InItems)) /\ Ordered(down, Differ(Messages))

Apart ==
    /\ GIn \cap GOut = {}
    /\ (GIn \cup GOut) \cap (Up \cup Urbs \cup DIn \cup Coming \cup Down) = {}
    /\ Up \cap Urbs = {}
    /\ (Up \cup Urbs) \cap (DIn \cup Coming \cup Down) = {}
    /\ (DIn \cup Coming) \cap Down = {}
    /\ Seen \cap (GIn \cup GOut \cup Up \cup Urbs) = {}
    /\ Queued \cap (GIn \cup GOut) = {}
    /\ (Queued \cap Ins) \cap (Up \cup Urbs \cup DIn \cup Down) = {}
    /\ (Queued \cap Puts) \cap (Up \cup Urbs \cup Coming \cup Down \cup Seen) = {}

\* The requests an answer may still come of, and those whose answer has ended a
\* transfer.
Answering ==
    GIn \cup Asked \cup Queued \cup (Ins \cap (Up \cup Urbs)) \cup DIn \cup Replies
Ended == {n \in DOMAIN outcome : outcome[n].end \in {"answered", "stalled"}}
Spent == {outcome[n].by : n \in Ended}

Answers ==
    /\ \A n \in DOMAIN outcome : outcome[n].end = "waiting" => n = Len(outcome)
    /\ \A n \in Ended : outcome[n].by \in 1..n
    /\ Spent \cap Answering = {}
    /\ AnswersMatch

\* The device may get the first before the second.
Excused(n) == \E k \in 1..n : outcome[k].end = "abandoned"
Earlier == {p \in Sent \X Sent :
    \/ p[1] < p[2]
    \/ /\ p[1] > p[2]
       /\ (Kind(p[2]) = "put" /\ IsIn(p[1])) \/ Excused(p[2]) \/ p \in overtook}
EarlierItems == {p \in OutItems \X OutItems : <<p[1].req, p[2].req>> \in Earlier}

InOrder ==
    /\ Ordered(seen, Earlier) /\ Ordered(urbs, Earlier) /\ Ordered(up, Earlier)
    /\ Ordered(gOut, EarlierItems)
    /\ Seen \X (Urbs \cup Up \cup GOut) \subseteq Earlier
    /\ Urbs \X (Up \cup GOut) \subseteq Earlier
    /\ Up \X GOut \subseteq Earlier

IInv == Typed /\ RightKind /\ Unique /\ Apart /\ Answers /\ InOrder

\* Only datagrams overtake each other, and only where they may.
History == overtook \subseteq Setups \X Setups /\ (Fault("reorder") \/ overtook = {})

-----------------------------------------------------------------------------
(* Types *)

LEMMA TypedIsTypeOK == IInv /\ History => TypeOK
  BY DEF IInv, History, Typed, QueuesTyped, HostTyped, RestTyped, TypeOK, Outcomes, OutItems, InItems,
         Messages, Steps, Gadgets

\* How many of some settings use an endpoint.
LEMMA UsesCounts ==
    ASSUME NEW e, NEW S, S \subseteq Settings
    PROVE  /\ Uses(e, S) \in Nat
           /\ (\E s \in S : e \in EpsOf[s]) => Uses(e, S) > 0
           /\ (\A s \in S : e \notin EpsOf[s]) => Uses(e, S) = 0
<1> DEFINE T == {s \in S : e \in EpsOf[s]}
<1>1. IsFiniteSet(T)
  BY InterfacesAssumption, FS_Subset
<1>2. Cardinality(T) \in Nat /\ (Cardinality(T) = 0 <=> T = {})
  BY <1>1, FS_CardinalityType, FS_EmptySet
<1>3. Uses(e, S) = Cardinality(T)
  BY DEF Uses
<1> HIDE DEF T
<1>4. Uses(e, S) \in Nat /\ (Uses(e, S) = 0 <=> T = {})
  BY <1>2, <1>3
<1>5. (\E s \in S : e \in EpsOf[s]) => T # {}
  BY DEF T
<1>6. (\A s \in S : e \notin EpsOf[s]) => T = {}
  BY DEF T
<1> QED
  BY <1>4, <1>5, <1>6

LEMMA EpsTyped ==
    ASSUME NEW eps \in [EpIds -> Nat], NEW S, S \subseteq Settings, NEW failed
    PROVE  Without(eps, S) \in [EpIds -> Nat] /\ With(eps, S, failed) \in [EpIds -> Nat]
<1>1. \A e \in EpIds : eps[e] \in Nat /\ Uses(e, S) \in Nat
  BY UsesCounts
<1> QED
  BY <1>1 DEF Without, With

LEMMA GadgetTyped ==
    ASSUME NEW a \in Gadgets, NEW failed
    PROVE  Reset(a, failed) \in Gadgets /\ \A s : SetInterface(a, s, failed) \in Gadgets
<1>1. \A S \in SUBSET Settings : DisableInterfaces(a, S) \in Gadgets
  BY EpsTyped DEF DisableInterfaces, Gadgets
<1>2. \A b \in Gadgets, S \in SUBSET Settings : EnableInterfaces(b, S, failed) \in Gadgets
  BY EpsTyped DEF EnableInterfaces, Gadgets
<1>3. Default \subseteq Settings /\ a.active \subseteq Settings
  BY DEF Default, Gadgets
<1>4. \A s : SameInterface(s) \ {s} \subseteq Settings /\ {s} \cap Settings \subseteq Settings
  BY DEF SameInterface
<1> QED
  BY <1>1, <1>2, <1>3, <1>4 DEF Reset, SetInterface

\* What has been sent, and how it ended.
LEMMA SentFacts ==
    ASSUME Typed
    PROVE  /\ Len(issued) \in Nat /\ Len(outcome) = Len(issued) /\ MaxSetups \in Nat
           /\ Sent = 1..Len(issued) /\ DOMAIN outcome = Sent
           /\ Sent \subseteq Setups /\ 0 \notin Sent
           /\ \A n \in Sent : issued[n] \in Requests /\ Kind(n) \in Kinds
                              /\ issued[n].setting \in Nat \X Nat
           /\ \A n \in Sent : outcome[n] \in Outcomes
<1>1. issued \in Seq(Requests) /\ outcome \in Seq(Outcomes)
      /\ Len(outcome) = Len(issued) /\ Len(issued) <= MaxSetups /\ MaxSetups \in Nat
  BY ControlAssumption DEF Typed, HostTyped
<1>2. Len(issued) \in Nat /\ DOMAIN issued = 1..Len(issued) /\ DOMAIN outcome = 1..Len(outcome)
  BY <1>1, LenProperties
<1>3. /\ \A n \in 1..Len(issued) : issued[n] \in Requests
      /\ \A n \in 1..Len(outcome) : outcome[n] \in Outcomes
  BY <1>1, ElementOfSeq
<1>4. \A n \in Sent : Kind(n) \in Kinds /\ issued[n].setting \in Nat \X Nat
  BY <1>2, <1>3, ControlAssumption DEF Sent, Kind
<1>5. Sent \subseteq Setups /\ 0 \notin Sent
  BY <1>1, <1>2 DEF Sent, Setups
<1> QED
  BY <1>1, <1>2, <1>3, <1>4, <1>5 DEF Sent

LEMMA WaitingIs ==
    ASSUME Typed, Waiting
    PROVE  Len(outcome) \in Sent /\ outcome[Len(outcome)].end = "waiting"
<1>1. outcome \in Seq(Outcomes) /\ outcome # <<>>
  BY DEF Typed, HostTyped, Waiting
<1>2. Len(outcome) # 0
  BY <1>1, EmptySeq
<1> QED
  BY <1>2, SentFacts DEF Waiting, Last
-----------------------------------------------------------------------------
(* What an operation on a queue does *)

LEMMA NotItself == \A n \in Setups : <<n, n>> \notin Earlier
  BY DEF Earlier, Setups

LEMMA FromGIn ==
    ASSUME IInv, gIn # <<>>, gIn' = Tail(gIn)
    PROVE  /\ Head(gIn) \in Setups /\ gIn' \in Seq(Setups) /\ IsInjective(gIn)'
           /\ GIn = GIn' \cup {Head(gIn)} /\ Head(gIn) \notin GIn'
<1>1. gIn \in Seq(Setups) /\ IsInjective(gIn)
  BY DEF IInv, Typed, QueuesTyped, Unique
<1> QED
  BY <1>1, TailHolds DEF GIn

LEMMA ToGIn ==
    ASSUME IInv, NEW n \in Setups, n \notin GIn, gIn' = Append(gIn, n)
    PROVE  gIn' \in Seq(Setups) /\ IsInjective(gIn)' /\ GIn' = GIn \cup {n}
<1>1. gIn \in Seq(Setups) /\ IsInjective(gIn)
  BY DEF IInv, Typed, QueuesTyped, Unique
<1> QED
  BY <1>1, AppendHolds DEF GIn

LEMMA FromGOut ==
    ASSUME IInv, gOut # <<>>, gOut' = Tail(gOut)
    PROVE  /\ Head(gOut) \in OutItems /\ gOut' \in Seq(OutItems)
           /\ GOut = GOut' \cup {Head(gOut).req}
           /\ Head(gOut).item = "setup" =>
                  Asked = Asked' \cup {Head(gOut).req} /\ Handed = Handed'
           /\ Head(gOut).item = "data" =>
                  Handed = Handed' \cup {Head(gOut).req} /\ Asked = Asked'
           /\ Ordered(gOut', EarlierItems)
           /\ \A x \in Range(gOut') : <<Head(gOut), x>> \in EarlierItems
           /\ {Head(gOut).req} \X GOut' \subseteq Earlier /\ Head(gOut).req \notin GOut'
<1>1. gOut \in Seq(OutItems) /\ Ordered(gOut, EarlierItems)
  BY DEF IInv, Typed, QueuesTyped, InOrder
<1>2. /\ Head(gOut) \in OutItems /\ gOut' \in Seq(OutItems)
      /\ Range(gOut) = Range(gOut') \cup {Head(gOut)}
  BY <1>1, TailHolds
<1>3. Ordered(gOut', EarlierItems) /\ \A x \in Range(gOut') : <<Head(gOut), x>> \in EarlierItems
  BY <1>1, TailOrdered
<1>4. \A x \in Range(gOut') : <<Head(gOut).req, x.req>> \in Earlier
  BY <1>3 DEF EarlierItems
<1>5. \A n \in GOut' : <<Head(gOut).req, n>> \in Earlier
  BY <1>4 DEF GOut, ReqsOf
<1>6. Head(gOut).req \notin GOut'
  <2> SUFFICES ASSUME Head(gOut).req \in GOut' PROVE FALSE
    OBVIOUS
  <2>1. <<Head(gOut).req, Head(gOut).req>> \in Earlier
    BY <1>5
  <2>2. Head(gOut).req \in Setups
    BY <1>2 DEF OutItems
  <2> QED
    BY <2>1, <2>2, NotItself
<1>7. GOut = GOut' \cup {Head(gOut).req}
  BY <1>2 DEF GOut, ReqsOf
<1>8. Head(gOut).item = "setup" =>
          Asked = Asked' \cup {Head(gOut).req} /\ Handed = Handed'
  BY <1>2 DEF Asked, Handed, ReqsOf
<1>9. Head(gOut).item = "data" =>
          Handed = Handed' \cup {Head(gOut).req} /\ Asked = Asked'
  BY <1>2 DEF Asked, Handed, ReqsOf
<1> QED
  BY <1>2, <1>3, <1>5, <1>6, <1>7, <1>8, <1>9

LEMMA ToGOut ==
    ASSUME IInv, NEW x \in OutItems, gOut' = Append(gOut, x)
    PROVE  /\ gOut' \in Seq(OutItems)
           /\ GOut' = GOut \cup {x.req}
           /\ x.item = "setup" => Asked' = Asked \cup {x.req} /\ Handed' = Handed
           /\ x.item = "data" => Handed' = Handed \cup {x.req} /\ Asked' = Asked
<1>1. gOut \in Seq(OutItems)
  BY DEF IInv, Typed, QueuesTyped
<1>2. gOut' \in Seq(OutItems) /\ Range(gOut') = Range(gOut) \cup {x}
  BY <1>1, AppendHolds
<1>3. GOut' = GOut \cup {x.req}
  BY <1>2 DEF GOut, ReqsOf
<1>4. x.item = "setup" => Asked' = Asked \cup {x.req} /\ Handed' = Handed
  BY <1>2 DEF Asked, Handed, ReqsOf
<1>5. x.item = "data" => Handed' = Handed \cup {x.req} /\ Asked' = Asked
  BY <1>2 DEF Asked, Handed, ReqsOf
<1> QED
  BY <1>2, <1>3, <1>4, <1>5

\* The order of the queue afterwards is said of an order that need not be the one before.
LEMMA ToGOutOrdered ==
    ASSUME IInv, NEW x \in OutItems, gOut' = Append(gOut, x), Earlier \subseteq Earlier',
           \A n \in GOut : <<n, x.req>> \in Earlier'
    PROVE  Ordered(gOut, EarlierItems)'
<1>1. gOut \in Seq(OutItems) /\ Ordered(gOut, EarlierItems)
  BY DEF IInv, Typed, QueuesTyped, InOrder
<1>2. Ordered(gOut, EarlierItems')
  <2>1. EarlierItems \subseteq EarlierItems'
    BY Zenon DEF EarlierItems
  <2> QED
    BY <1>1, <2>1, LargerOrder
<1>3. \A y \in Range(gOut) : y \in OutItems /\ y.req \in GOut
  <2>1. DOMAIN gOut = 1..Len(gOut) /\ \A i \in 1..Len(gOut) : gOut[i] \in OutItems
    BY <1>1, LenProperties, ElementOfSeq
  <2> QED
    BY <2>1 DEF Range, GOut, ReqsOf
<1>4. \A y \in Range(gOut) : <<y, x>> \in EarlierItems'
  BY <1>3 DEF EarlierItems
<1> QED
  BY <1>1, <1>2, <1>4, AppendOrdered

LEMMA FromUp ==
    ASSUME IInv, up # <<>>, up' = Tail(up)
    PROVE  /\ Head(up) \in Setups /\ up' \in Seq(Setups)
           /\ Up = Up' \cup {Head(up)} /\ Head(up) \notin Up'
           /\ Ordered(up', Earlier) /\ \A n \in Up' : <<Head(up), n>> \in Earlier
<1>1. up \in Seq(Setups) /\ Ordered(up, Earlier)
  BY DEF IInv, Typed, QueuesTyped, InOrder
<1>2. Head(up) \in Setups /\ up' \in Seq(Setups) /\ Up = Up' \cup {Head(up)}
  BY <1>1, TailHolds DEF Up
<1>3. Ordered(up', Earlier) /\ \A n \in Up' : <<Head(up), n>> \in Earlier
  BY <1>1, TailOrdered DEF Up
<1> QED
  BY <1>2, <1>3, NotItself

LEMMA ToUp ==
    ASSUME IInv, NEW n \in Setups, up' = Append(up, n),
           \A m \in Up : <<m, n>> \in Earlier
    PROVE  up' \in Seq(Setups) /\ Up' = Up \cup {n} /\ Ordered(up', Earlier)
<1>1. up \in Seq(Setups) /\ Ordered(up, Earlier)
  BY DEF IInv, Typed, QueuesTyped, InOrder
<1>2. up' \in Seq(Setups) /\ Up' = Up \cup {n}
  BY <1>1, AppendHolds DEF Up
<1> QED
  BY <1>1, <1>2, AppendOrdered DEF Up

LEMMA LoseUp ==
    ASSUME IInv, NEW i \in DOMAIN up, up' = RemoveAt(up, i)
    PROVE  up' \in Seq(Setups) /\ Up' \subseteq Up /\ Ordered(up', Earlier)
<1>1. up \in Seq(Setups) /\ Ordered(up, Earlier)
  BY DEF IInv, Typed, QueuesTyped, InOrder
<1>2. up' \in Seq(Setups) /\ Up' \subseteq Up
  BY <1>1, RemoveAtHolds DEF Up
<1> QED
  BY <1>1, <1>2, RemoveAtOrdered

LEMMA FromUrbs ==
    ASSUME IInv, urbs # <<>>, urbs' = Tail(urbs)
    PROVE  /\ Head(urbs) \in Setups /\ urbs' \in Seq(Setups)
           /\ Urbs = Urbs' \cup {Head(urbs)} /\ Head(urbs) \notin Urbs'
           /\ Ordered(urbs', Earlier) /\ \A n \in Urbs' : <<Head(urbs), n>> \in Earlier
<1>1. urbs \in Seq(Setups) /\ Ordered(urbs, Earlier)
  BY DEF IInv, Typed, QueuesTyped, InOrder
<1>2. Head(urbs) \in Setups /\ urbs' \in Seq(Setups) /\ Urbs = Urbs' \cup {Head(urbs)}
  BY <1>1, TailHolds DEF Urbs
<1>3. Ordered(urbs', Earlier) /\ \A n \in Urbs' : <<Head(urbs), n>> \in Earlier
  BY <1>1, TailOrdered DEF Urbs
<1> QED
  BY <1>2, <1>3, NotItself

LEMMA ToUrbs ==
    ASSUME IInv, NEW n \in Setups, urbs' = Append(urbs, n),
           \A m \in Urbs : <<m, n>> \in Earlier
    PROVE  urbs' \in Seq(Setups) /\ Urbs' = Urbs \cup {n} /\ Ordered(urbs', Earlier)
<1>1. urbs \in Seq(Setups) /\ Ordered(urbs, Earlier)
  BY DEF IInv, Typed, QueuesTyped, InOrder
<1>2. urbs' \in Seq(Setups) /\ Urbs' = Urbs \cup {n}
  BY <1>1, AppendHolds DEF Urbs
<1> QED
  BY <1>1, <1>2, AppendOrdered DEF Urbs

LEMMA ToSeen ==
    ASSUME IInv, NEW n \in Setups, seen' = Append(seen, n),
           \A m \in Seen : <<m, n>> \in Earlier
    PROVE  seen' \in Seq(Setups) /\ Seen' = Seen \cup {n} /\ Ordered(seen', Earlier)
<1>1. seen \in Seq(Setups) /\ Ordered(seen, Earlier)
  BY DEF IInv, Typed, QueuesTyped, InOrder
<1>2. seen' \in Seq(Setups) /\ Seen' = Seen \cup {n}
  BY <1>1, AppendHolds DEF Seen
<1> QED
  BY <1>1, <1>2, AppendOrdered DEF Seen

LEMMA FromDIn ==
    ASSUME IInv, dIn # <<>>, dIn' = Tail(dIn)
    PROVE  /\ Head(dIn) \in InItems /\ dIn' \in Seq(InItems)
           /\ DIn = DIn' \cup {Head(dIn).req} /\ Head(dIn).req \notin DIn'
           /\ Ordered(dIn', Differ(InItems))
<1>1. dIn \in Seq(InItems) /\ Ordered(dIn, Differ(InItems))
  BY DEF IInv, Typed, QueuesTyped, Unique
<1>2. Head(dIn) \in InItems /\ dIn' \in Seq(InItems)
  BY <1>1, TailHolds
<1> QED
  BY <1>1, <1>2, TailDiffers DEF DIn

LEMMA ToDIn ==
    ASSUME IInv, NEW x \in InItems, dIn' = Append(dIn, x), x.req \notin DIn
    PROVE  /\ dIn' \in Seq(InItems) /\ DIn' = DIn \cup {x.req}
           /\ Ordered(dIn', Differ(InItems))
<1>1. dIn \in Seq(InItems) /\ Ordered(dIn, Differ(InItems))
  BY DEF IInv, Typed, QueuesTyped, Unique
<1>2. dIn' \in Seq(InItems)
  BY <1>1, AppendHolds
<1> QED
  BY <1>1, <1>2, AppendDiffers DEF DIn

LEMMA FromDown ==
    ASSUME IInv, down # <<>>, down' = Tail(down)
    PROVE  /\ Head(down) \in Messages /\ down' \in Seq(Messages)
           /\ Down = Down' \cup {Head(down).req} /\ Head(down).req \notin Down'
           /\ Head(down).type # "done" =>
                  Replies = Replies' \cup {Head(down).req} /\ Dones = Dones'
           /\ Head(down).type = "done" =>
                  Dones = Dones' \cup {Head(down).req} /\ Replies = Replies'
           /\ Ordered(down', Differ(Messages))
<1>1. down \in Seq(Messages) /\ Ordered(down, Differ(Messages))
  BY DEF IInv, Typed, QueuesTyped, Unique
<1>2. /\ Head(down) \in Messages /\ down' \in Seq(Messages)
      /\ Range(down) = Range(down') \cup {Head(down)}
  BY <1>1, TailHolds
<1>3. Head(down).type # "done" => Replies = Replies' \cup {Head(down).req} /\ Dones = Dones'
  BY <1>2 DEF Replies, Dones, ReqsOf
<1>4. Head(down).type = "done" => Dones = Dones' \cup {Head(down).req} /\ Replies = Replies'
  BY <1>2 DEF Replies, Dones, ReqsOf
<1> QED
  BY <1>1, <1>2, <1>3, <1>4, TailDiffers DEF Down

LEMMA ToDown ==
    ASSUME IInv, NEW x \in Messages, down' = Append(down, x), x.req \notin Down
    PROVE  /\ down' \in Seq(Messages) /\ Down' = Down \cup {x.req}
           /\ x.type # "done" => Replies' = Replies \cup {x.req} /\ Dones' = Dones
           /\ x.type = "done" => Dones' = Dones \cup {x.req} /\ Replies' = Replies
           /\ Ordered(down', Differ(Messages))
<1>1. down \in Seq(Messages) /\ Ordered(down, Differ(Messages))
  BY DEF IInv, Typed, QueuesTyped, Unique
<1>2. down' \in Seq(Messages) /\ Range(down') = Range(down) \cup {x}
  BY <1>1, AppendHolds
<1>3. x.type # "done" => Replies' = Replies \cup {x.req} /\ Dones' = Dones
  BY <1>2 DEF Replies, Dones, ReqsOf
<1>4. x.type = "done" => Dones' = Dones \cup {x.req} /\ Replies' = Replies
  BY <1>2 DEF Replies, Dones, ReqsOf
<1>5. Down' = Down \cup {x.req}
  BY <1>2 DEF Down, ReqsOf
<1>6. Ordered(down', Differ(Messages))
  <2>1. x.req \notin ReqsOf(Range(down))
    BY DEF Down
  <2> QED
    BY <1>1, <2>1, AppendDiffers
<1> QED
  BY <1>2, <1>3, <1>4, <1>5, <1>6

LEMMA LoseDown ==
    ASSUME IInv, NEW i \in DOMAIN down, down' = RemoveAt(down, i)
    PROVE  /\ down' \in Seq(Messages) /\ Down' \subseteq Down
           /\ Replies' \subseteq Replies /\ Dones' \subseteq Dones
           /\ Ordered(down', Differ(Messages))
<1>1. down \in Seq(Messages) /\ Ordered(down, Differ(Messages))
  BY DEF IInv, Typed, QueuesTyped, Unique
<1>2. down' \in Seq(Messages) /\ Range(down') \subseteq Range(down)
  BY <1>1, RemoveAtHolds
<1>3. Down' \subseteq Down /\ Replies' \subseteq Replies /\ Dones' \subseteq Dones
  BY <1>2 DEF Down, Replies, Dones, ReqsOf
<1> QED
  BY <1>1, <1>2, <1>3, RemoveAtOrdered

-----------------------------------------------------------------------------
(* Answers and order *)

LEMMA Parts ==
    ASSUME IInv
    PROVE  GOut = Asked \cup Handed /\ Down = Replies \cup Dones
<1>1. \A x \in Range(gOut) : x.item \in {"setup", "data"}
  <2>1. gOut \in Seq(OutItems)
    BY DEF IInv, Typed, QueuesTyped
  <2>2. DOMAIN gOut = 1..Len(gOut) /\ \A i \in 1..Len(gOut) : gOut[i] \in OutItems
    BY <2>1, LenProperties, ElementOfSeq
  <2> QED
    BY <2>2 DEF Range, OutItems
<1>2. GOut = Asked \cup Handed
  BY <1>1 DEF GOut, Asked, Handed, ReqsOf
<1>3. Down = Replies \cup Dones
  BY DEF Down, Replies, Dones, ReqsOf
<1> QED
  BY <1>2, <1>3

LEMMA AllSent ==
    ASSUME IInv
    PROVE  /\ GIn \subseteq Sent /\ GOut \subseteq Sent /\ Asked \subseteq GOut
           /\ Up \subseteq Sent /\ Urbs \subseteq Sent /\ Seen \subseteq Sent
           /\ DIn \subseteq Sent /\ Coming \subseteq Sent
           /\ Down = Replies \cup Dones /\ Down \subseteq Sent
           /\ Answering \subseteq Sent
<1>1. RightKind
  BY DEF IInv
<1>2. Ins \subseteq Sent /\ Valid \subseteq Sent /\ Selecting \subseteq Sent
  BY DEF Ins, Valid, Selecting
<1>3. Down = Replies \cup Dones
  BY DEF Down, Replies, Dones, ReqsOf
<1>4. Asked \subseteq GOut
  BY DEF Asked, GOut, ReqsOf
<1> QED
  BY <1>1, <1>2, <1>3, <1>4 DEF RightKind, Answering

\* A transfer that has ended while its answer may still come has been given up, or
\* was ended by an answer to one before.
LEMMA LateIsExcused ==
    ASSUME IInv, NEW n \in Answering, outcome[n].end # "waiting"
    PROVE  Excused(n)
<1>1. n \in Sent /\ DOMAIN outcome = Sent /\ Sent = 1..Len(issued) /\ Len(issued) \in Nat
      /\ outcome[n] \in Outcomes
  BY AllSent, SentFacts DEF IInv
<1>2. CASE outcome[n].end = "abandoned"
  <2>1. n \in 1..n
    BY <1>1
  <2> QED
    BY <1>2, <2>1 DEF Excused
<1>3. CASE n \in Ended
  <2>1. outcome[n].by \in 1..n /\ outcome[n].by # n
    BY <1>3 DEF IInv, Answers, Spent
  <2>2. \E k \in 1..outcome[n].by : outcome[k].end = "abandoned"
    BY <1>1, <1>3, <2>1 DEF IInv, Answers, AnswersMatch, Ended
  <2>3. \A k \in 1..outcome[n].by : k \in 1..n
    BY <1>1, <2>1
  <2> QED
    BY <2>2, <2>3 DEF Excused
<1> QED
  BY <1>1, <1>2, <1>3 DEF Outcomes, Ended

LEMMA NotTheLast ==
    ASSUME NEW L \in Nat, NEW k \in 1..L, NEW m \in 1..L, m > k
    PROVE  k # L
  OBVIOUS

\* So the device may get a request whose answer may still come after every other.
LEMMA AfterAll ==
    ASSUME IInv, NEW n \in Answering, NEW m \in Sent, m # n
    PROVE  <<m, n>> \in Earlier
<1>1. n \in Sent /\ DOMAIN outcome = Sent /\ Sent = 1..Len(issued) /\ Len(issued) \in Nat
      /\ Len(outcome) = Len(issued)
  BY AllSent, SentFacts DEF IInv
<1>2. CASE m < n
  BY <1>1, <1>2 DEF Earlier
<1>3. CASE m > n
  <2>1. n # Len(outcome)
    <3>1. m \in 1..Len(issued) /\ n \in 1..Len(issued) /\ Len(issued) \in Nat
      BY <1>1, Zenon
    <3>2. n # Len(issued)
      BY <1>3, <3>1, NotTheLast, Zenon
    <3> QED
      BY <1>1, <3>2, Zenon
  <2>2. outcome[n].end # "waiting"
    BY <1>1, <2>1 DEF IInv, Answers
  <2>3. Excused(n)
    BY <2>2, LateIsExcused
  <2> QED
    BY <1>1, <1>3, <2>3 DEF Earlier
<1> QED
  BY <1>1, <1>2, <1>3

\* An IN request that is still to be forwarded may pass every OUT request.
LEMMA InsPassOut ==
    ASSUME IInv, NEW n \in GIn, NEW m \in GOut
    PROVE  <<n, m>> \in Earlier
<1>1. n \in Sent /\ m \in Sent /\ n # m /\ n \in Ins
  BY AllSent DEF IInv, Apart, RightKind
<1>2. CASE m \in Asked
  BY <1>1, <1>2, AfterAll DEF Answering
<1>3. CASE m \in Handed
  <2>1. m \in Puts
    BY <1>3 DEF IInv, RightKind
  <2>2. n < m \/ n > m
    BY <1>1, SentFacts DEF IInv
  <2> QED
    BY <1>1, <2>1, <2>2 DEF Earlier, Ins, Puts
<1> QED
  BY <1>2, <1>3, Parts

\* What is said of requests stays true where the host does nothing.
LEMMA RequestsRest ==
    ASSUME UNCHANGED <<issued, outcome>>
    PROVE  /\ Sent' = Sent /\ Ins' = Ins /\ Puts' = Puts /\ Selecting' = Selecting
           /\ Valid' = Valid
<1>1. Sent' = Sent
  BY DEF Sent
<1>2. Ins' = Ins /\ Puts' = Puts /\ Selecting' = Selecting
  BY <1>1 DEF Ins, Puts, Selecting, IsIn, Kind
<1> QED
  BY <1>1, <1>2 DEF Valid

LEMMA HostRests ==
    ASSUME UNCHANGED <<issued, outcome, overtook>>
    PROVE  /\ Sent' = Sent /\ Ins' = Ins /\ Puts' = Puts /\ Selecting' = Selecting
           /\ Valid' = Valid /\ Earlier' = Earlier /\ EarlierItems' = EarlierItems
<1>1. /\ Sent' = Sent /\ Ins' = Ins /\ Puts' = Puts /\ Selecting' = Selecting
      /\ Valid' = Valid
  BY RequestsRest
<1>2. Earlier' = Earlier
  BY <1>1 DEF Earlier, Kind, IsIn, Excused
<1> QED
  BY <1>1, <1>2 DEF EarlierItems

LEMMA AnswersKept ==
    ASSUME Answers, UNCHANGED <<issued, outcome>>, Answering' \subseteq Answering
    PROVE  Answers'
<1>1. Ended' = Ended /\ Spent' = Spent
  BY DEF Ended, Spent
<1>2. AnswersMatch'
  BY DEF Answers, AnswersMatch
<1> QED
  BY <1>1, <1>2 DEF Answers

-----------------------------------------------------------------------------
(* The gadget *)

LEMMA SetupInKeeps ==
    ASSUME IInv, SetupIn
    PROVE  IInv'
<1> DEFINE n == Head(gIn)
<1>1. UNCHANGED <<issued, outcome, overtook>>
  BY DEF SetupIn, host
<1>2. /\ n \in Setups /\ gIn' \in Seq(Setups) /\ IsInjective(gIn)'
      /\ GIn = GIn' \cup {n} /\ n \notin GIn'
  BY FromGIn DEF SetupIn
<1>3. /\ Asked' = Asked /\ Handed' = Handed /\ GOut' = GOut /\ Queued' = Queued
      /\ Coming' = Coming /\ Urbs' = Urbs /\ Seen' = Seen /\ DIn' = DIn
      /\ Down' = Down /\ Replies' = Replies /\ Dones' = Dones
  BY DEF SetupIn, driver, Asked, Handed, GOut, Queued, Coming, Urbs, Seen, DIn, Down, Replies,
         Dones
<1>4. n \in Answering /\ n \in Ins
  BY <1>2 DEF Answering, IInv, RightKind
<1>5. \A m \in Up \cup Urbs \cup Seen : <<m, n>> \in Earlier
  <2> SUFFICES ASSUME NEW m \in Up \cup Urbs \cup Seen PROVE <<m, n>> \in Earlier
    OBVIOUS
  <2>1. m # n /\ m \in Sent
    BY <1>2, AllSent DEF IInv, Apart
  <2> QED
    BY <1>4, <2>1, AfterAll
<1>6. up' \in Seq(Setups) /\ Up' \subseteq Up \cup {n} /\ Ordered(up', Earlier)
  <2>1. CASE up' = Append(up, n)
    BY <1>2, <1>5, <2>1, ToUp
  <2>2. CASE UNCHANGED up
    BY <2>2 DEF Up, IInv, Typed, QueuesTyped, InOrder
  <2> QED
    BY <2>1, <2>2 DEF SetupIn, SendUp
<1>7. Typed'
  <2>1. known' \in BOOLEAN
    BY DEF SetupIn, host, IInv, Typed
  <2>2. QueuesTyped'
    BY <1>2, <1>6 DEF SetupIn, driver, IInv, Typed, QueuesTyped
  <2>3. HostTyped' /\ RestTyped'
    BY DEF SetupIn, host, driver, IInv, Typed, HostTyped, RestTyped
  <2> QED
    BY <2>1, <2>2, <2>3 DEF Typed
<1>8. Unique'
  BY <1>2 DEF SetupIn, driver, IInv, Unique
<1>9. RightKind'
  <2>1. Ins \subseteq Valid
    BY DEF Ins, Valid, Selecting, IsIn
  <2> QED
    BY <1>1, <1>2, <1>3, <1>4, <1>6, <2>1, HostRests DEF IInv, RightKind
<1>10. Apart'
  BY <1>1, <1>2, <1>3, <1>6, HostRests DEF IInv, Apart
<1>11. Answers'
  BY <1>1, <1>2, <1>3, <1>4, <1>6, HostRests, AnswersKept DEF IInv, Answering
<1>12. InOrder'
  <2>1. \A m \in GOut : <<n, m>> \in Earlier
    BY <1>2, InsPassOut
  <2>2. /\ Seen \X (Urbs \cup Up' \cup GOut) \subseteq Earlier
        /\ Urbs \X (Up' \cup GOut) \subseteq Earlier
        /\ Up' \X GOut \subseteq Earlier
    BY <1>5, <1>6, <2>1 DEF IInv, InOrder
  <2>3. Ordered(gOut, EarlierItems)' /\ Ordered(seen, Earlier)' /\ Ordered(urbs, Earlier)'
    BY <1>1, HostRests DEF SetupIn, driver, IInv, InOrder
  <2> QED
    BY <1>1, <1>3, <1>6, <2>2, <2>3, HostRests DEF InOrder
<1> QED
  BY <1>7, <1>8, <1>9, <1>10, <1>11, <1>12 DEF IInv

LEMMA Queues ==
    ASSUME IInv, NEW n \in Setups, Queue(n)
    PROVE  /\ queued' \in Setups \cup {0}
           /\ Queued' = Queued \/ Queued' = {n}
<1>1. queued \in Setups \cup {0} /\ n # 0
  BY DEF IInv, Typed, RestTyped, Setups
<1> QED
  BY <1>1 DEF Queue, Queued

LEMMA SetupPutKeeps ==
    ASSUME IInv, SetupPut
    PROVE  IInv'
<1> DEFINE n == Head(gOut).req
<1>1. UNCHANGED <<issued, outcome, overtook>>
  BY DEF SetupPut, host
<1>2. /\ Head(gOut) \in OutItems /\ gOut' \in Seq(OutItems)
      /\ GOut = GOut' \cup {n} /\ n \notin GOut' /\ n \in Setups
      /\ Asked = Asked' \cup {n} /\ Handed' = Handed
      /\ Ordered(gOut', EarlierItems)
  BY FromGOut DEF SetupPut, OutItems
<1>3. /\ GIn' = GIn /\ Up' = Up /\ Coming' = Coming /\ Urbs' = Urbs /\ Seen' = Seen
      /\ DIn' = DIn /\ Down' = Down /\ Replies' = Replies /\ Dones' = Dones
  BY DEF SetupPut, driver, GIn, Up, Coming, Urbs, Seen, DIn, Down, Replies, Dones
<1>4. queued' \in Setups \cup {0} /\ (Queued' = Queued \/ Queued' = {n})
  BY <1>2, Queues DEF SetupPut
<1>5. n \in Puts /\ n \in Sent \ Ins
  BY <1>2 DEF SetupPut, Puts, IInv, RightKind
<1>6. Typed'
  <2>1. known' \in BOOLEAN
    BY DEF SetupPut, host, IInv, Typed
  <2>2. QueuesTyped'
    BY <1>2 DEF SetupPut, driver, IInv, Typed, QueuesTyped
  <2>3. HostTyped' /\ RestTyped'
    BY <1>4 DEF SetupPut, host, driver, IInv, Typed, HostTyped, RestTyped
  <2> QED
    BY <2>1, <2>2, <2>3 DEF Typed
<1>7. Unique'
  BY DEF SetupPut, driver, IInv, Unique
<1>8. RightKind'
  BY <1>1, <1>2, <1>3, <1>4, <1>5, HostRests DEF IInv, RightKind
<1>9. Apart'
  <2>1. n \notin GIn \cup Up \cup Urbs \cup DIn \cup Coming \cup Down \cup Seen
    BY <1>2 DEF IInv, Apart
  <2> QED
    BY <1>1, <1>2, <1>3, <1>4, <1>5, <2>1, HostRests DEF IInv, Apart
<1>10. Answers'
  BY <1>1, <1>2, <1>3, <1>4, HostRests, AnswersKept DEF IInv, Answering
<1>11. InOrder'
  <2>1. /\ Seen \X (Urbs \cup Up \cup GOut') \subseteq Earlier
        /\ Urbs \X (Up \cup GOut') \subseteq Earlier
        /\ Up \X GOut' \subseteq Earlier
    BY <1>2 DEF IInv, InOrder
  <2>2. Ordered(seen, Earlier)' /\ Ordered(urbs, Earlier)' /\ Ordered(up, Earlier)'
    BY <1>1, HostRests DEF SetupPut, driver, IInv, InOrder
  <2> QED
    BY <1>1, <1>2, <1>3, <2>1, <2>2, HostRests DEF InOrder
<1> QED
  BY <1>6, <1>7, <1>8, <1>9, <1>10, <1>11 DEF IInv

LEMMA SetupDatalessKeeps ==
    ASSUME IInv, SetupDataless
    PROVE  IInv'
<1> DEFINE n == Head(gOut).req
<1>1. UNCHANGED <<issued, outcome, overtook>>
  BY DEF SetupDataless, host
<1>2. /\ Head(gOut) \in OutItems /\ gOut' \in Seq(OutItems)
      /\ GOut = GOut' \cup {n} /\ n \notin GOut' /\ n \in Setups
      /\ Asked = Asked' \cup {n} /\ Handed' = Handed
      /\ Ordered(gOut', EarlierItems)
      /\ \A m \in GOut' : <<n, m>> \in Earlier
  BY FromGOut DEF SetupDataless, OutItems
<1>3. /\ GIn' = GIn /\ Coming' = Coming /\ Urbs' = Urbs /\ Seen' = Seen
      /\ DIn' = DIn /\ Down' = Down /\ Replies' = Replies /\ Dones' = Dones
  BY DEF SetupDataless, driver, GIn, Coming, Urbs, Seen, DIn, Down, Replies, Dones
<1>4. n \in Sent \ Ins /\ n \notin Puts
  BY <1>2 DEF SetupDataless, Dataless, Puts, IInv, RightKind
<1>5. \/ UNCHANGED <<up, queued>>
      \/ n \in Valid /\ up' = Append(up, n) /\ Queue(n)
  BY <1>4 DEF SetupDataless, Valid, Selecting
<1>6. \A m \in Up \cup Urbs \cup Seen : <<m, n>> \in Earlier
  BY <1>2 DEF IInv, InOrder
<1>7. /\ up' \in Seq(Setups) /\ Ordered(up', Earlier)
      /\ Up' = Up \/ (n \in Valid /\ Up' = Up \cup {n})
  <2>1. CASE up' = Append(up, n) /\ n \in Valid
    BY <1>2, <1>6, <2>1, ToUp
  <2>2. CASE UNCHANGED up
    BY <2>2 DEF Up, IInv, Typed, QueuesTyped, InOrder
  <2> QED
    BY <1>5, <2>1, <2>2
<1>8. queued' \in Setups \cup {0} /\ (Queued' = Queued \/ Queued' = {n})
  <2>1. CASE UNCHANGED queued
    BY <2>1 DEF Queued, IInv, Typed, RestTyped
  <2>2. CASE Queue(n)
    BY <1>2, <2>2, Queues
  <2> QED
    BY <1>5, <2>1, <2>2
<1>9. Typed'
  <2>1. known' \in BOOLEAN
    BY DEF SetupDataless, host, IInv, Typed
  <2>2. QueuesTyped'
    BY <1>2, <1>7 DEF SetupDataless, driver, IInv, Typed, QueuesTyped
  <2>3. HostTyped'
    BY DEF SetupDataless, host, IInv, Typed, HostTyped
  <2>4. g' \in Gadgets
    BY GadgetTyped DEF SetupDataless, IInv, Typed, RestTyped
  <2>5. RestTyped'
    BY <1>8, <2>4 DEF SetupDataless, driver, IInv, Typed, RestTyped
  <2> QED
    BY <2>1, <2>2, <2>3, <2>5 DEF Typed
<1>10. Unique'
  BY DEF SetupDataless, driver, IInv, Unique
<1>11. RightKind'
  BY <1>1, <1>2, <1>3, <1>4, <1>7, <1>8, HostRests DEF IInv, RightKind
<1>12. Apart'
  <2>1. n \notin GIn \cup Up \cup Urbs \cup DIn \cup Coming \cup Down \cup Seen \cup Queued
    BY <1>2 DEF IInv, Apart
  <2> QED
    BY <1>1, <1>2, <1>3, <1>4, <1>7, <1>8, <2>1, HostRests DEF IInv, Apart
<1>13. Answers'
  BY <1>1, <1>2, <1>3, <1>4, <1>7, <1>8, HostRests, AnswersKept DEF IInv, Answering
<1>14. InOrder'
  <2>1. /\ Seen \X (Urbs \cup Up' \cup GOut') \subseteq Earlier
        /\ Urbs \X (Up' \cup GOut') \subseteq Earlier
        /\ Up' \X GOut' \subseteq Earlier
    BY <1>2, <1>6, <1>7 DEF IInv, InOrder
  <2>2. Ordered(seen, Earlier)' /\ Ordered(urbs, Earlier)'
    BY <1>1, HostRests DEF SetupDataless, driver, IInv, InOrder
  <2> QED
    BY <1>1, <1>2, <1>3, <1>7, <2>1, <2>2, HostRests DEF InOrder
<1> QED
  BY <1>9, <1>10, <1>11, <1>12, <1>13, <1>14 DEF IInv

LEMMA OutDataKeeps ==
    ASSUME IInv, OutData
    PROVE  IInv'
<1> DEFINE n == Head(gOut).req
<1>1. UNCHANGED <<issued, outcome, overtook>>
  BY DEF OutData, host
<1>2. /\ Head(gOut) \in OutItems /\ gOut' \in Seq(OutItems)
      /\ GOut = GOut' \cup {n} /\ n \notin GOut' /\ n \in Setups
      /\ Asked' = Asked /\ Handed = Handed' \cup {n}
      /\ Ordered(gOut', EarlierItems)
      /\ \A m \in GOut' : <<n, m>> \in Earlier
  BY FromGOut DEF OutData, OutItems
<1>3. /\ GIn' = GIn /\ Queued' = Queued /\ Coming' = Coming /\ Urbs' = Urbs /\ Seen' = Seen
      /\ DIn' = DIn /\ Down' = Down /\ Replies' = Replies /\ Dones' = Dones
  BY DEF OutData, driver, GIn, Queued, Coming, Urbs, Seen, DIn, Down, Replies, Dones
<1>4. n \in Sent \ Ins /\ n \in Puts
  BY <1>2 DEF IInv, RightKind
<1>5. \A m \in Up \cup Urbs \cup Seen : <<m, n>> \in Earlier
  BY <1>2 DEF IInv, InOrder
<1>6. up' \in Seq(Setups) /\ Up' \subseteq Up \cup {n} /\ Ordered(up', Earlier)
  <2>1. CASE up' = Append(up, n)
    BY <1>2, <1>5, <2>1, ToUp
  <2>2. CASE UNCHANGED up
    BY <2>2 DEF Up, IInv, Typed, QueuesTyped, InOrder
  <2> QED
    BY <2>1, <2>2 DEF OutData, SendUp
<1>7. Typed'
  <2>1. known' \in BOOLEAN
    BY DEF OutData, host, IInv, Typed
  <2>2. QueuesTyped'
    BY <1>2, <1>6 DEF OutData, driver, IInv, Typed, QueuesTyped
  <2>3. HostTyped' /\ RestTyped'
    BY DEF OutData, host, driver, IInv, Typed, HostTyped, RestTyped
  <2> QED
    BY <2>1, <2>2, <2>3 DEF Typed
<1>8. Unique'
  BY DEF OutData, driver, IInv, Unique
<1>9. RightKind'
  <2>1. Puts \subseteq Valid
    BY DEF Puts, Valid, Selecting
  <2> QED
    BY <1>1, <1>2, <1>3, <1>4, <1>6, <2>1, HostRests DEF IInv, RightKind
<1>10. Apart'
  <2>1. n \notin GIn \cup Up \cup Urbs \cup DIn \cup Coming \cup Down \cup Seen \cup Queued
    BY <1>2 DEF IInv, Apart
  <2> QED
    BY <1>1, <1>2, <1>3, <1>4, <1>6, <2>1, HostRests DEF IInv, Apart
<1>11. Answers'
  BY <1>1, <1>2, <1>3, <1>4, <1>6, HostRests, AnswersKept DEF IInv, Answering
<1>12. InOrder'
  <2>1. /\ Seen \X (Urbs \cup Up' \cup GOut') \subseteq Earlier
        /\ Urbs \X (Up' \cup GOut') \subseteq Earlier
        /\ Up' \X GOut' \subseteq Earlier
    BY <1>2, <1>5, <1>6 DEF IInv, InOrder
  <2>2. Ordered(seen, Earlier)' /\ Ordered(urbs, Earlier)'
    BY <1>1, HostRests DEF OutData, driver, IInv, InOrder
  <2> QED
    BY <1>1, <1>2, <1>3, <1>6, <2>1, <2>2, HostRests DEF InOrder
<1> QED
  BY <1>7, <1>8, <1>9, <1>10, <1>11, <1>12 DEF IInv

LEMMA RecvReplyKeeps ==
    ASSUME IInv, RecvReply
    PROVE  IInv'
<1> DEFINE n == Head(down).req
<1>1. UNCHANGED <<issued, outcome, overtook>>
  BY DEF RecvReply, host
<1>2. /\ n \in Setups /\ down' \in Seq(Messages)
      /\ Down = Down' \cup {n} /\ n \notin Down'
      /\ Replies = Replies' \cup {n} /\ Dones' = Dones
      /\ Ordered(down', Differ(Messages))
  BY FromDown DEF RecvReply, Messages
<1>3. /\ GIn' = GIn /\ GOut' = GOut /\ Asked' = Asked /\ Handed' = Handed /\ Up' = Up
      /\ Coming' = Coming /\ Urbs' = Urbs /\ Seen' = Seen /\ DIn' = DIn
  BY DEF RecvReply, driver, GIn, GOut, Asked, Handed, Up, Coming, Urbs, Seen, DIn
<1>4. queued' \in Setups \cup {0} /\ (Queued' = Queued \/ Queued' = {n})
  <2>1. CASE UNCHANGED queued
    BY <2>1 DEF Queued, IInv, Typed, RestTyped
  <2>2. CASE Queue(n)
    BY <1>2, <2>2, Queues
  <2> QED
    BY <2>1, <2>2 DEF RecvReply
<1>5. n \in Ins /\ n \in Sent /\ n \notin Puts
  BY <1>2 DEF IInv, RightKind, Ins, Puts, IsIn
<1>6. Typed'
  <2>1. known' \in BOOLEAN
    BY DEF RecvReply, host, IInv, Typed
  <2>2. QueuesTyped'
    BY <1>2 DEF RecvReply, driver, IInv, Typed, QueuesTyped
  <2>3. HostTyped'
    BY DEF RecvReply, host, IInv, Typed, HostTyped
  <2>4. g' \in Gadgets
    BY GadgetTyped DEF RecvReply, IInv, Typed, RestTyped
  <2>5. RestTyped'
    BY <1>4, <2>4 DEF RecvReply, driver, IInv, Typed, RestTyped
  <2> QED
    BY <2>1, <2>2, <2>3, <2>5 DEF Typed
<1>7. Unique'
  BY <1>2 DEF RecvReply, driver, IInv, Unique
<1>8. RightKind'
  BY <1>1, <1>2, <1>3, <1>4, <1>5, HostRests DEF IInv, RightKind
<1>9. Apart'
  <2>1. n \notin GIn \cup GOut \cup Up \cup Urbs \cup DIn \cup Coming
    BY <1>2 DEF IInv, Apart
  <2> QED
    BY <1>1, <1>2, <1>3, <1>4, <1>5, <2>1, HostRests DEF IInv, Apart
<1>10. Answers'
  BY <1>1, <1>2, <1>3, <1>4, HostRests, AnswersKept DEF IInv, Answering
<1>11. InOrder'
  BY <1>1, <1>3, HostRests DEF RecvReply, driver, IInv, InOrder
<1> QED
  BY <1>6, <1>7, <1>8, <1>9, <1>10, <1>11 DEF IInv

-----------------------------------------------------------------------------
(* The driver and the device *)

\* The host and the gadget take no part in what they do.
LEMMA HostTypesKept ==
    ASSUME IInv, UNCHANGED host
    PROVE  known' \in BOOLEAN /\ HostTyped'
<1>1. known' \in BOOLEAN
  BY DEF host, IInv, Typed
<1>2. HostTyped'
  BY DEF host, IInv, Typed, HostTyped
<1> QED
  BY <1>1, <1>2

LEMMA GadgetRests ==
    ASSUME IInv, UNCHANGED <<host, overtook, gadget>>
    PROVE  /\ UNCHANGED <<issued, outcome, overtook>>
           /\ gIn' \in Seq(Setups) /\ IsInjective(gIn)' /\ gOut' \in Seq(OutItems)
           /\ queued' \in Setups \cup {0} /\ g' \in Gadgets
           /\ GIn' = GIn /\ GOut' = GOut /\ Asked' = Asked /\ Handed' = Handed
           /\ Queued' = Queued
           /\ Ordered(gOut, EarlierItems)'
<1>1. UNCHANGED <<issued, outcome, overtook, gIn, gOut, queued, g>>
  BY DEF host, gadget
<1>2. EarlierItems' = EarlierItems
  BY <1>1, HostRests
<1> QED
  BY <1>1, <1>2 DEF IInv, Typed, QueuesTyped, RestTyped, Unique, InOrder, GIn, GOut, Asked, Handed,
                    Queued

LEMMA RecvRequestKeeps ==
    ASSUME IInv, RecvRequest
    PROVE  IInv'
<1> DEFINE n == Head(up)
<1>1. UNCHANGED <<host, overtook, gadget>>
  BY DEF RecvRequest
<1>2. /\ n \in Setups /\ up' \in Seq(Setups) /\ Up = Up' \cup {n} /\ n \notin Up'
      /\ Ordered(up', Earlier) /\ \A m \in Up' : <<n, m>> \in Earlier
  BY FromUp DEF RecvRequest
<1>3. /\ Seen' = Seen /\ DIn' = DIn /\ Coming' = Coming /\ Down' = Down /\ Replies' = Replies
      /\ Dones' = Dones
  BY DEF RecvRequest, Seen, DIn, Coming, Down, Replies, Dones
<1>4. n \in Sent
  BY <1>2, AllSent
<1>5. urbs' \in Seq(Setups) /\ (Urbs' = Urbs \/ Urbs' = Urbs \cup {n}) /\ Ordered(urbs', Earlier)
  <2>1. CASE urbs' = Append(urbs, n)
    <3>1. \A m \in Urbs : <<m, n>> \in Earlier
      BY <1>2 DEF IInv, InOrder
    <3> QED
      BY <1>2, <2>1, <3>1, ToUrbs
  <2>2. CASE UNCHANGED urbs
    BY <2>2 DEF Urbs, IInv, Typed, QueuesTyped, InOrder
  <2> QED
    BY <2>1, <2>2 DEF RecvRequest
<1>6. Typed'
  <2>1. QueuesTyped'
    BY <1>1, <1>2, <1>5, GadgetRests DEF RecvRequest, IInv, Typed, QueuesTyped
  <2>2. RestTyped'
    BY <1>1, GadgetRests DEF RecvRequest, IInv, Typed, RestTyped
  <2> QED
    BY <1>1, <2>1, <2>2, HostTypesKept DEF Typed
<1>7. Unique'
  BY <1>1, GadgetRests DEF RecvRequest, IInv, Unique
<1>8. RightKind'
  BY <1>1, <1>2, <1>3, <1>4, <1>5, GadgetRests, HostRests DEF IInv, RightKind
<1>9. Apart'
  BY <1>1, <1>2, <1>3, <1>5, GadgetRests, HostRests DEF IInv, Apart
<1>10. Answers'
  BY <1>1, <1>2, <1>3, <1>5, GadgetRests, HostRests, AnswersKept DEF IInv, Answering
<1>11. InOrder'
  <2>1. /\ Seen \X (Urbs' \cup Up' \cup GOut) \subseteq Earlier
        /\ Urbs' \X (Up' \cup GOut) \subseteq Earlier
        /\ Up' \X GOut \subseteq Earlier
    BY <1>2, <1>5 DEF IInv, InOrder
  <2>2. Ordered(seen, Earlier)'
    BY <1>1, GadgetRests, HostRests DEF RecvRequest, IInv, InOrder
  <2> QED
    BY <1>1, <1>2, <1>3, <1>5, <2>1, <2>2, GadgetRests, HostRests DEF InOrder
<1> QED
  BY <1>6, <1>7, <1>8, <1>9, <1>10, <1>11 DEF IInv

LEMMA RecvSetInterfaceKeeps ==
    ASSUME IInv, RecvSetInterface
    PROVE  IInv'
<1> DEFINE n == Head(up)
<1>1. UNCHANGED <<host, overtook, gadget>>
  BY DEF RecvSetInterface
<1>2. /\ n \in Setups /\ up' \in Seq(Setups) /\ Up = Up' \cup {n} /\ n \notin Up'
      /\ Ordered(up', Earlier) /\ \A m \in Up' : <<n, m>> \in Earlier
  BY FromUp DEF RecvSetInterface
<1>3. /\ Urbs' = {} /\ Urbs = {} /\ urbs' = <<>> /\ DIn' = DIn /\ Down' = Down
      /\ Replies' = Replies /\ Dones' = Dones
  BY EmptyHolds DEF RecvSetInterface, Urbs, DIn, Down, Replies, Dones
<1>4. n \in Valid \cap Selecting /\ n \in Sent
  BY <1>2 DEF RecvSetInterface, IInv, RightKind, Valid, Selecting
<1>5. seen' \in Seq(Setups) /\ Seen' = Seen \cup {n} /\ Ordered(seen', Earlier)
  <2>1. \A m \in Seen : <<m, n>> \in Earlier
    BY <1>2 DEF IInv, InOrder
  <2> QED
    BY <1>2, <2>1, ToSeen DEF RecvSetInterface
<1>6. issued[n].setting \in Settings
  BY <1>4 DEF Valid
<1>7. com = Idle /\ Coming = {}
  BY DEF RecvSetInterface, Coming, Idle
<1>8. /\ cur' \subseteq Settings /\ com' \in Steps /\ (com.at = "idle" => com = Idle)'
      /\ (Coming' = {} \/ Coming' = {n})
  <2>1. cur \subseteq Settings /\ com \in Steps
    BY DEF IInv, Typed, RestTyped
  <2>2. CASE UNCHANGED <<cur, com>>
    BY <1>7, <2>1, <2>2 DEF Coming, Idle
  <2>3. CASE /\ cur' = (cur \ SameInterface(issued[n].setting)) \cup {issued[n].setting}
             /\ com' = [at |-> "disable", req |-> n,
                        settings |-> cur \cap SameInterface(issued[n].setting)]
    <3>1. com'.at = "disable" /\ com'.req = n
      BY <2>3
    <3>2. Coming' = {n}
      BY <3>1 DEF Coming
    <3>3. cur' \subseteq Settings /\ com' \in Steps
      BY <1>2, <1>6, <2>1, <2>3 DEF Steps
    <3> QED
      BY <3>1, <3>2, <3>3
  <2> QED
    BY <2>2, <2>3 DEF RecvSetInterface
<1>9. Typed'
  <2>1. QueuesTyped'
    BY <1>1, <1>2, <1>5, GadgetRests DEF RecvSetInterface, IInv, Typed, QueuesTyped
  <2>2. RestTyped'
    BY <1>1, <1>8, GadgetRests DEF RecvSetInterface, IInv, Typed, RestTyped
  <2> QED
    BY <1>1, <2>1, <2>2, HostTypesKept DEF Typed
<1>10. Unique'
  BY <1>1, GadgetRests DEF RecvSetInterface, IInv, Unique
<1>11. RightKind'
  BY <1>1, <1>2, <1>3, <1>4, <1>5, <1>8, GadgetRests, HostRests DEF IInv, RightKind
<1>12. Apart'
  <2>1. n \notin GIn \cup GOut \cup DIn \cup Down \cup Puts
    BY <1>2, <1>4 DEF IInv, Apart, Selecting, Puts
  <2> QED
    BY <1>1, <1>2, <1>3, <1>5, <1>7, <1>8, <2>1, GadgetRests, HostRests DEF IInv, Apart
<1>13. Answers'
  BY <1>1, <1>2, <1>3, GadgetRests, HostRests, AnswersKept DEF IInv, Answering
<1>14. InOrder'
  <2>1. /\ Seen' \X (Up' \cup GOut) \subseteq Earlier
        /\ Up' \X GOut \subseteq Earlier
    BY <1>2, <1>5 DEF IInv, InOrder
  <2>2. Ordered(urbs', Earlier)
    BY <1>3, EmptyOrdered
  <2> QED
    BY <1>1, <1>2, <1>3, <1>5, <2>1, <2>2, GadgetRests, HostRests DEF InOrder
<1> QED
  BY <1>9, <1>10, <1>11, <1>12, <1>13, <1>14 DEF IInv

LEMMA SetInterfaceDisableKeeps ==
    ASSUME IInv, SetInterfaceDisable
    PROVE  IInv'
<1>1. UNCHANGED <<host, overtook, gadget>>
  BY DEF SetInterfaceDisable
<1>2. com \in Steps /\ com.req \in Coming
  BY DEF SetInterfaceDisable, IInv, Typed, RestTyped, Coming
<1>3. issued[com.req].setting \in Settings
  BY <1>2 DEF IInv, RightKind, Valid
<1>4. com' \in Steps /\ com'.at = "enable" /\ com'.req = com.req
  BY <1>2, <1>3 DEF SetInterfaceDisable, Steps
<1>5. /\ Coming' = Coming /\ Up' = Up /\ Urbs' = Urbs /\ Seen' = Seen /\ DIn' = DIn
      /\ Down' = Down /\ Replies' = Replies /\ Dones' = Dones
  BY <1>4 DEF SetInterfaceDisable, Coming, Up, Urbs, Seen, DIn, Down, Replies, Dones
<1>6. dEps' \in [EpIds -> Nat]
  BY <1>2, EpsTyped DEF SetInterfaceDisable, Steps, IInv, Typed, RestTyped
<1>7. Typed'
  <2>1. QueuesTyped'
    BY <1>1, GadgetRests DEF SetInterfaceDisable, IInv, Typed, QueuesTyped
  <2>2. RestTyped'
    BY <1>1, <1>4, <1>6, GadgetRests DEF SetInterfaceDisable, IInv, Typed, RestTyped
  <2> QED
    BY <1>1, <2>1, <2>2, HostTypesKept DEF Typed
<1>8. Unique'
  BY <1>1, GadgetRests DEF SetInterfaceDisable, IInv, Unique
<1>9. RightKind' /\ Apart'
  BY <1>1, <1>5, GadgetRests, HostRests DEF IInv, RightKind, Apart
<1>10. Answers'
  BY <1>1, <1>5, GadgetRests, HostRests, AnswersKept DEF IInv, Answering
<1>11. InOrder'
  BY <1>1, <1>5, GadgetRests, HostRests DEF SetInterfaceDisable, IInv, InOrder
<1> QED
  BY <1>7, <1>8, <1>9, <1>10, <1>11 DEF IInv

LEMMA SetInterfaceEnableKeeps ==
    ASSUME IInv, SetInterfaceEnable
    PROVE  IInv'
<1> DEFINE n == com.req
<1>1. UNCHANGED <<host, overtook, gadget>>
  BY DEF SetInterfaceEnable
<1>2. com \in Steps /\ n \in Coming
  BY DEF SetInterfaceEnable, IInv, Typed, RestTyped, Coming
<1>3. n \in Setups /\ n \in Sent /\ n \in Selecting /\ n \notin Puts /\ n \notin Ins
  BY <1>2, AllSent, SentFacts DEF IInv, RightKind, Selecting, Puts, Ins, IsIn
<1>4. com' = Idle /\ com' \in Steps /\ Coming' = {}
  <2>1. com' = Idle /\ com'.at = "idle"
    BY DEF SetInterfaceEnable, Idle
  <2>2. Coming' = {}
    BY <2>1 DEF Coming
  <2> QED
    BY <2>1, <2>2 DEF Idle, Steps
<1>5. /\ Up' = Up /\ Urbs' = Urbs /\ Seen' = Seen /\ DIn' = DIn
  BY DEF SetInterfaceEnable, Up, Urbs, Seen, DIn
<1>6. dEps' \in [EpIds -> Nat]
  <2>1. PICK failed \in Failures : dEps' = With(dEps, com.settings, failed)
    BY DEF SetInterfaceEnable
  <2>2. dEps \in [EpIds -> Nat]
    BY DEF IInv, Typed, RestTyped
  <2>3. com.settings \subseteq Settings
    BY <1>2 DEF Steps
  <2> QED
    BY <2>1, <2>2, <2>3, EpsTyped
<1>7. /\ down' \in Seq(Messages) /\ Ordered(down', Differ(Messages)) /\ Replies' = Replies
      /\ \/ Dones' = Dones /\ Down' = Down
         \/ Dones' = Dones \cup {n} /\ Down' = Down \cup {n}
  <2>1. CASE UNCHANGED down
    BY <2>1 DEF Down, Replies, Dones, IInv, Typed, QueuesTyped, Unique
  <2>2. CASE down' = Append(down, [type |-> "done", req |-> n])
    <3>1. n \notin Down
      BY <1>2 DEF IInv, Apart
    <3>2. [type |-> "done", req |-> n] \in Messages
      BY <1>3 DEF Messages
    <3> QED
      BY <2>2, <3>1, <3>2, ToDown
  <2> QED
    BY <2>1, <2>2 DEF SetInterfaceEnable, SendDown
<1>8. Typed'
  <2>1. QueuesTyped'
    BY <1>1, <1>7, GadgetRests DEF SetInterfaceEnable, IInv, Typed, QueuesTyped
  <2>2. RestTyped'
    BY <1>1, <1>4, <1>6, GadgetRests DEF SetInterfaceEnable, IInv, Typed, RestTyped
  <2> QED
    BY <1>1, <2>1, <2>2, HostTypesKept DEF Typed
<1>9. Unique'
  BY <1>1, <1>7, GadgetRests DEF SetInterfaceEnable, IInv, Unique
<1>10. RightKind'
  BY <1>1, <1>3, <1>4, <1>5, <1>7, GadgetRests, HostRests DEF IInv, RightKind
<1>11. Apart'
  <2>1. n \notin GIn \cup GOut \cup Up \cup Urbs \cup DIn \cup Down
    BY <1>2, <1>3 DEF IInv, Apart, RightKind
  <2> QED
    BY <1>1, <1>3, <1>4, <1>5, <1>7, <2>1, GadgetRests, HostRests DEF IInv, Apart
<1>12. Answers'
  BY <1>1, <1>5, <1>7, GadgetRests, HostRests, AnswersKept DEF IInv, Answering
<1>13. InOrder'
  BY <1>1, <1>5, GadgetRests, HostRests DEF SetInterfaceEnable, IInv, InOrder
<1> QED
  BY <1>8, <1>9, <1>10, <1>11, <1>12, <1>13 DEF IInv

LEMMA CompleteKeeps ==
    ASSUME IInv, NEW status \in {"ok", "EPIPE", "error"}, Complete(status)
    PROVE  IInv'
<1> DEFINE n    == Head(urbs)
           item == [req |-> n, status |-> status]
<1>1. UNCHANGED <<host, overtook, gadget>>
  BY DEF Complete
<1>2. /\ n \in Setups /\ urbs' \in Seq(Setups) /\ Urbs = Urbs' \cup {n} /\ n \notin Urbs'
      /\ Ordered(urbs', Earlier) /\ \A m \in Urbs' : <<n, m>> \in Earlier
  BY FromUrbs DEF Complete
<1>3. /\ Up' = Up /\ Coming' = Coming /\ Down' = Down /\ Replies' = Replies /\ Dones' = Dones
  BY DEF Complete, Up, Coming, Down, Replies, Dones
<1>4. n \in Sent /\ n \notin GIn \cup GOut \cup Up \cup DIn \cup Coming \cup Down \cup Seen
  BY <1>2, AllSent DEF IInv, Apart
<1>5. item \in InItems
  BY <1>2 DEF InItems
<1>6. seen' \in Seq(Setups) /\ (Seen' = Seen \/ Seen' = Seen \cup {n}) /\ Ordered(seen', Earlier)
  <2>1. CASE seen' = Append(seen, n)
    <3>1. \A m \in Seen : <<m, n>> \in Earlier
      BY <1>2 DEF IInv, InOrder
    <3> QED
      BY <1>2, <2>1, <3>1, ToSeen
  <2>2. CASE UNCHANGED seen
    BY <2>2 DEF Seen, IInv, Typed, QueuesTyped, InOrder
  <2> QED
    BY <2>1, <2>2 DEF Complete
<1>7. dOut' \in Seq(InItems)
  <2>1. dOut \in Seq(InItems)
    BY DEF IInv, Typed, QueuesTyped
  <2> QED
    BY <1>5, <2>1, AppendHolds DEF Complete
<1>8. /\ dIn' \in Seq(InItems) /\ Ordered(dIn', Differ(InItems))
      /\ DIn' = DIn \/ (n \in Ins /\ DIn' = DIn \cup {n})
  <2>1. CASE IsIn(n)
    <3>1. dIn' = Append(dIn, item) /\ n \in Ins
      BY <1>4, <2>1 DEF Complete, Ins
    <3> QED
      BY <1>4, <1>5, <3>1, ToDIn
  <2>2. CASE ~IsIn(n)
    BY <2>2 DEF Complete, DIn, IInv, Typed, QueuesTyped, Unique
  <2> QED
    BY <2>1, <2>2
<1>9. Typed'
  <2>1. QueuesTyped'
    BY <1>1, <1>2, <1>6, <1>7, <1>8, GadgetRests DEF Complete, IInv, Typed, QueuesTyped
  <2>2. RestTyped'
    BY <1>1, GadgetRests DEF Complete, IInv, Typed, RestTyped
  <2> QED
    BY <1>1, <2>1, <2>2, HostTypesKept DEF Typed
<1>10. Unique'
  BY <1>1, <1>8, GadgetRests DEF Complete, IInv, Unique
<1>11. RightKind'
  BY <1>1, <1>2, <1>3, <1>4, <1>6, <1>8, GadgetRests, HostRests DEF IInv, RightKind
<1>12. Apart'
  <2>1. n \notin Queued \cap Ins /\ n \notin Queued \cap Puts
    BY <1>2 DEF IInv, Apart
  <2> QED
    BY <1>1, <1>2, <1>3, <1>4, <1>6, <1>8, <2>1, GadgetRests, HostRests DEF IInv, Apart
<1>13. Answers'
  BY <1>1, <1>2, <1>3, <1>8, GadgetRests, HostRests, AnswersKept DEF IInv, Answering
<1>14. InOrder'
  <2>1. /\ Seen' \X (Urbs' \cup Up \cup GOut) \subseteq Earlier
        /\ Urbs' \X (Up \cup GOut) \subseteq Earlier
        /\ Up \X GOut \subseteq Earlier
    BY <1>2, <1>6 DEF IInv, InOrder
  <2>2. Ordered(up, Earlier)'
    BY <1>1, GadgetRests, HostRests DEF Complete, IInv, InOrder
  <2> QED
    BY <1>1, <1>2, <1>3, <1>6, <2>1, <2>2, GadgetRests, HostRests DEF InOrder
<1> QED
  BY <1>9, <1>10, <1>11, <1>12, <1>13, <1>14 DEF IInv

LEMMA WorkInKeeps ==
    ASSUME IInv, WorkIn
    PROVE  IInv'
<1> DEFINE n == Head(dIn).req
<1>1. UNCHANGED <<host, overtook, gadget>>
  BY DEF WorkIn
<1>2. /\ n \in Setups /\ dIn' \in Seq(InItems) /\ DIn = DIn' \cup {n} /\ n \notin DIn'
      /\ Ordered(dIn', Differ(InItems))
  BY FromDIn DEF WorkIn, InItems
<1>3. /\ Up' = Up /\ Coming' = Coming /\ Urbs' = Urbs /\ Seen' = Seen
  BY DEF WorkIn, Up, Coming, Urbs, Seen
<1>4. n \in Ins /\ n \notin GIn \cup GOut \cup Up \cup Urbs \cup Down \cup (Queued \cap Ins)
  BY <1>2 DEF IInv, Apart, RightKind
<1>5. n \notin Puts /\ n \notin Selecting /\ n \notin Coming
  BY <1>4 DEF Ins, Puts, Selecting, IsIn, IInv, RightKind
<1>6. /\ down' \in Seq(Messages) /\ Ordered(down', Differ(Messages)) /\ Dones' = Dones
      /\ \/ Replies' = Replies /\ Down' = Down
         \/ Replies' = Replies \cup {n} /\ Down' = Down \cup {n}
  <2>1. CASE UNCHANGED down
    BY <2>1 DEF Down, Replies, Dones, IInv, Typed, QueuesTyped, Unique
  <2>2. ASSUME NEW type \in {"reply", "stall"}, down' = Append(down, [type |-> type, req |-> n])
        PROVE  /\ down' \in Seq(Messages) /\ Ordered(down', Differ(Messages)) /\ Dones' = Dones
               /\ Replies' = Replies \cup {n} /\ Down' = Down \cup {n}
    <3>1. [type |-> type, req |-> n] \in Messages
      BY <1>2 DEF Messages
    <3> QED
      BY <1>4, <2>2, <3>1, ToDown
  <2>3. \/ UNCHANGED down
        \/ \E type \in {"reply", "stall"} : down' = Append(down, [type |-> type, req |-> n])
    BY DEF WorkIn, SendDown
  <2> QED
    BY <2>1, <2>2, <2>3
<1>7. Typed'
  <2>1. QueuesTyped'
    BY <1>1, <1>2, <1>6, GadgetRests DEF WorkIn, IInv, Typed, QueuesTyped
  <2>2. RestTyped'
    BY <1>1, GadgetRests DEF WorkIn, IInv, Typed, RestTyped
  <2> QED
    BY <1>1, <2>1, <2>2, HostTypesKept DEF Typed
<1>8. Unique'
  BY <1>1, <1>2, <1>6, GadgetRests DEF IInv, Unique
<1>9. RightKind'
  BY <1>1, <1>2, <1>3, <1>4, <1>6, GadgetRests, HostRests DEF IInv, RightKind
<1>10. Apart'
  BY <1>1, <1>2, <1>3, <1>4, <1>5, <1>6, GadgetRests, HostRests DEF IInv, Apart
<1>11. Answers'
  BY <1>1, <1>2, <1>3, <1>6, GadgetRests, HostRests, AnswersKept DEF IInv, Answering
<1>12. InOrder'
  BY <1>1, <1>3, GadgetRests, HostRests DEF WorkIn, IInv, InOrder
<1> QED
  BY <1>7, <1>8, <1>9, <1>10, <1>11, <1>12 DEF IInv

\* SET_CONFIGURATION, on the driver, touches no queue but its own.
LEMMA PlacesRest ==
    ASSUME IInv, UNCHANGED <<host, overtook, gadget, up, down, urbs, dIn, cur, com, seen>>,
           dOut' \in Seq(InItems), dEps' \in [EpIds -> Nat], conf' \in Steps
    PROVE  IInv'
<1>1. /\ Up' = Up /\ Urbs' = Urbs /\ Seen' = Seen /\ DIn' = DIn /\ Coming' = Coming
      /\ Down' = Down /\ Replies' = Replies /\ Dones' = Dones
  BY DEF Up, Urbs, Seen, DIn, Coming, Down, Replies, Dones
<1>2. Typed'
  <2>1. QueuesTyped'
    BY GadgetRests DEF IInv, Typed, QueuesTyped
  <2>2. RestTyped'
    BY GadgetRests DEF IInv, Typed, RestTyped
  <2> QED
    BY <2>1, <2>2, HostTypesKept DEF Typed
<1>3. Unique'
  BY GadgetRests DEF IInv, Unique
<1>4. RightKind' /\ Apart'
  BY <1>1, GadgetRests, HostRests DEF IInv, RightKind, Apart
<1>5. Answers'
  BY <1>1, GadgetRests, HostRests, AnswersKept DEF IInv, Answering
<1>6. InOrder'
  BY <1>1, GadgetRests, HostRests DEF IInv, InOrder
<1> QED
  BY <1>2, <1>3, <1>4, <1>5, <1>6 DEF IInv

LEMMA SetConfigurationKeeps ==
    ASSUME IInv, WorkOut \/ SetConfigRead \/ SetConfigEnable
    PROVE  IInv'
<1>1. /\ dOut \in Seq(InItems) /\ dEps \in [EpIds -> Nat] /\ cur \subseteq Settings
      /\ conf \in Steps /\ conf.settings \subseteq Settings
  BY DEF IInv, Typed, QueuesTyped, RestTyped, Steps
<1>2. Idle \in Steps /\ [Idle EXCEPT !.at = "read"] \in Steps
  BY DEF Idle, Steps
<1>3. CASE WorkOut
  <2>1. dOut' \in Seq(InItems)
    BY <1>1, <1>3, TailHolds DEF WorkOut
  <2>2. dEps' \in [EpIds -> Nat]
    BY <1>1, <1>3, EpsTyped DEF WorkOut, DisableEverything
  <2>3. conf' \in Steps
    BY <1>1, <1>2, <1>3 DEF WorkOut
  <2> QED
    BY <1>3, <2>1, <2>2, <2>3, PlacesRest DEF WorkOut
<1>4. CASE SetConfigRead
  <2>1. conf' \in Steps
    BY <1>1, <1>4 DEF SetConfigRead, Steps
  <2> QED
    BY <1>1, <1>4, <2>1, PlacesRest DEF SetConfigRead
<1>5. CASE SetConfigEnable
  <2>1. dEps' \in [EpIds -> Nat]
    <3>1. PICK failed \in Failures : dEps' = With(dEps, conf.settings, failed)
      BY <1>5 DEF SetConfigEnable
    <3> QED
      BY <3>1, <1>1, EpsTyped
  <2> QED
    BY <1>1, <1>2, <1>5, <2>1, PlacesRest DEF SetConfigEnable
<1> QED
  BY <1>3, <1>4, <1>5

LEMMA LoseKeeps ==
    ASSUME IInv, Lose
    PROVE  IInv'
<1>1. UNCHANGED <<host, overtook, gadget, driver, seen>>
  BY DEF Lose
<1>2. Urbs' = Urbs /\ Seen' = Seen /\ DIn' = DIn /\ Coming' = Coming
  BY <1>1 DEF driver, Urbs, Seen, DIn, Coming
<1>3. up' \in Seq(Setups) /\ Up' \subseteq Up /\ Ordered(up', Earlier)
  <2>1. CASE UNCHANGED up
    BY <2>1 DEF Up, IInv, Typed, QueuesTyped, InOrder
  <2>2. CASE \E i \in DOMAIN up : up' = RemoveAt(up, i)
    BY <2>2, LoseUp
  <2> QED
    BY <2>1, <2>2 DEF Lose
<1>4. /\ down' \in Seq(Messages) /\ Ordered(down', Differ(Messages)) /\ Down' \subseteq Down
      /\ Replies' \subseteq Replies /\ Dones' \subseteq Dones
  <2>1. CASE UNCHANGED down
    BY <2>1 DEF Down, Replies, Dones, IInv, Typed, QueuesTyped, Unique
  <2>2. CASE \E i \in DOMAIN down : down' = RemoveAt(down, i)
    BY <2>2, LoseDown
  <2> QED
    BY <2>1, <2>2 DEF Lose
<1>5. Typed'
  <2>1. QueuesTyped'
    BY <1>1, <1>3, <1>4, GadgetRests DEF driver, IInv, Typed, QueuesTyped
  <2>2. RestTyped'
    BY <1>1, GadgetRests DEF driver, IInv, Typed, RestTyped
  <2> QED
    BY <1>1, <2>1, <2>2, HostTypesKept DEF Typed
<1>6. Unique'
  BY <1>1, <1>4, GadgetRests DEF driver, IInv, Unique
<1>7. RightKind'
  BY <1>1, <1>2, <1>3, <1>4, GadgetRests, HostRests DEF IInv, RightKind
<1>8. Apart'
  BY <1>1, <1>2, <1>3, <1>4, GadgetRests, HostRests DEF IInv, Apart
<1>9. Answers'
  BY <1>1, <1>2, <1>3, <1>4, GadgetRests, HostRests, AnswersKept DEF IInv, Answering
<1>10. InOrder'
  <2>1. Ordered(urbs, Earlier)' /\ Ordered(seen, Earlier)'
    BY <1>1, GadgetRests, HostRests DEF driver, IInv, InOrder
  <2> QED
    BY <1>1, <1>2, <1>3, <2>1, GadgetRests, HostRests DEF IInv, InOrder
<1> QED
  BY <1>5, <1>6, <1>7, <1>8, <1>9, <1>10 DEF IInv

-----------------------------------------------------------------------------
(* The host: a transfer ends, or a new one begins *)

LEMMA ReplacedHolds ==
    ASSUME NEW S, NEW s \in Seq(S), NEW i \in 1..Len(s), NEW e \in S, NEW t,
           t = [s EXCEPT ![i] = e]
    PROVE  /\ t \in Seq(S) /\ Len(t) = Len(s) /\ DOMAIN t = 1..Len(s)
           /\ t[i] = e /\ \A k \in 1..Len(s) : k # i => t[k] = s[k]
<1>1. /\ t \in Seq(S) /\ Len(t) = Len(s)
      /\ \A k \in 1..Len(s) : t[k] = IF k = i THEN e ELSE s[k]
  BY ExceptSeq
<1>2. DOMAIN t = 1..Len(t)
  BY <1>1, LenProperties
<1>3. t[i] = e /\ \A k \in 1..Len(s) : k # i => t[k] = s[k]
  BY <1>1, Zenon
<1> QED
  BY <1>1, <1>2, <1>3, Zenon

\* The transfer going on ends, and not with an answer already used.
LEMMA EndKeeps ==
    ASSUME IInv, Waiting, UNCHANGED <<issued, overtook>>,
           NEW how \in {"answered", "stalled", "abandoned"}, NEW n \in Setups \cup {0},
           End(how, n),
           how # "abandoned" => n \in Answering /\ n \notin Answering',
           Answering' \subseteq Answering
    PROVE  /\ outcome' \in Seq(Outcomes) /\ Len(outcome') = Len(outcome)
           /\ Sent' = Sent /\ Ins' = Ins /\ Puts' = Puts /\ Selecting' = Selecting
           /\ Valid' = Valid
           /\ Earlier \subseteq Earlier' /\ EarlierItems \subseteq EarlierItems'
           /\ Answers'
<1> DEFINE w == Len(outcome)
<1>1. /\ w \in Sent /\ outcome[w].end = "waiting" /\ w \in Nat /\ w = Len(issued)
      /\ Sent = 1..w /\ DOMAIN outcome = Sent /\ outcome \in Seq(Outcomes)
      /\ \A k \in 1..w : k <= w /\ k \in Nat
  BY WaitingIs, SentFacts DEF IInv, Typed, HostTyped
<1>2. [end |-> how, by |-> n] \in Outcomes
  <2>1. how \in {"waiting", "answered", "stalled", "abandoned"}
    OBVIOUS
  <2> QED
    BY <2>1, Zenon DEF Outcomes
<1>3. /\ outcome' \in Seq(Outcomes) /\ Len(outcome') = w /\ DOMAIN outcome' = Sent
      /\ outcome'[w].end = how /\ outcome'[w].by = n
      /\ \A k \in Sent : k # w => outcome'[k] = outcome[k]
  <2>1. /\ outcome' = [outcome EXCEPT ![w] = [end |-> how, by |-> n]]
        /\ w \in 1..Len(outcome) /\ outcome \in Seq(Outcomes)
    BY <1>1 DEF End
  <2>2. /\ outcome' \in Seq(Outcomes) /\ Len(outcome') = Len(outcome)
        /\ DOMAIN outcome' = 1..Len(outcome)
        /\ outcome'[w] = [end |-> how, by |-> n]
        /\ \A k \in 1..Len(outcome) : k # w => outcome'[k] = outcome[k]
    BY <1>2, <2>1, ReplacedHolds
  <2>3. [end |-> how, by |-> n].end = how /\ [end |-> how, by |-> n].by = n
    OBVIOUS
  <2> QED
    BY <1>1, <2>2, <2>3
<1> HIDE DEF w
<1>4. \A k \in Sent : outcome[k].end = "abandoned" => outcome'[k].end = "abandoned"
  BY <1>1, <1>3
<1>5. Sent' = Sent /\ Ins' = Ins /\ Puts' = Puts /\ Selecting' = Selecting
  BY DEF Sent, Ins, Puts, Selecting, IsIn, Kind
<1>6. Valid' = Valid
  BY <1>5 DEF Valid
<1>7. \A m \in Sent : Excused(m) => Excused(m)'
  <2>1. \A m \in Sent : 1..m \subseteq Sent
    BY <1>1
  <2> QED
    BY <1>4, <2>1 DEF Excused
<1>8. Earlier \subseteq Earlier'
  BY <1>5, <1>7 DEF Earlier, Kind, IsIn
<1>9. EarlierItems \subseteq EarlierItems'
  BY <1>8, Zenon DEF EarlierItems
<1>10. /\ w \notin Ended
       /\ Ended' = IF how = "abandoned" THEN Ended ELSE Ended \cup {w}
       /\ \A k \in Ended : outcome'[k] = outcome[k] /\ k \in Sent
  <2>1. w \notin Ended /\ Ended \subseteq Sent
    BY <1>1 DEF Ended
  <2>2. Ended' = {k \in Sent : outcome'[k].end \in {"answered", "stalled"}}
    BY <1>3 DEF Ended
  <2>3. w \in Ended' <=> how # "abandoned"
    BY <1>1, <1>3, <2>2
  <2>4. \A k \in Sent : k # w => (k \in Ended' <=> k \in Ended)
    BY <1>1, <1>3, <2>2 DEF Ended
  <2>5. Ended' \subseteq Sent
    BY <2>2
  <2>6. Ended' = IF how = "abandoned" THEN Ended ELSE Ended \cup {w}
    <3>1. CASE how = "abandoned"
      <4>1. Ended' = Ended
        BY <2>1, <2>3, <2>4, <2>5, <3>1
      <4> QED
        BY <3>1, <4>1
    <3>2. CASE how # "abandoned"
      <4>1. Ended' = Ended \cup {w}
        BY <1>1, <2>1, <2>3, <2>4, <2>5, <3>2
      <4> QED
        BY <3>2, <4>1
    <3> QED
      BY <3>1, <3>2
  <2> QED
    BY <1>3, <2>1, <2>6
<1>11. how # "abandoned" => n \in 1..w /\ n \notin Spent
  BY <1>1, AllSent DEF IInv, Answers
<1>12. \A k \in Ended' : outcome'[k].by \in 1..k
  <2>1. \A k \in Ended : outcome[k].by \in 1..k
    BY DEF IInv, Answers
  <2> HIDE DEF Ended
  <2> QED
    BY <1>3, <1>10, <1>11, <2>1
<1>13. Spent' = IF how = "abandoned" THEN Spent ELSE Spent \cup {n}
  BY <1>3, <1>10 DEF Spent
<1>14. Spent' \cap Answering' = {}
  <2>1. Spent \cap Answering = {}
    BY DEF IInv, Answers
  <2> QED
    BY <1>13, <2>1
<1>15. \A k \in DOMAIN outcome' : outcome'[k].end = "waiting" => k = Len(outcome')
  BY <1>1, <1>3 DEF w, IInv, Answers
<1>16. \A i, k \in Ended' : outcome'[i].by = outcome'[k].by => i = k
  <2>1. \A i, k \in Ended : outcome[i].by = outcome[k].by => i = k
    BY DEF IInv, Answers, AnswersMatch, Ended
  <2>2. \A k \in Ended : how # "abandoned" => outcome[k].by # n
    BY <1>11 DEF Spent
  <2> QED
    BY <1>3, <1>10, <2>1, <2>2
<1>17. \A k \in Ended' :
          \/ outcome'[k].by = k
          \/ /\ outcome'[k].by < k
             /\ \E i \in 1..outcome'[k].by : outcome'[i].end = "abandoned"
  <2> SUFFICES ASSUME NEW k \in Ended', outcome'[k].by # k
               PROVE  /\ outcome'[k].by < k
                      /\ \E i \in 1..outcome'[k].by : outcome'[i].end = "abandoned"
    OBVIOUS
  <2>1. CASE k \in Ended
    <3>1. /\ outcome'[k].by = outcome[k].by
          /\ outcome[k].by < k /\ \E i \in 1..outcome[k].by : outcome[i].end = "abandoned"
      BY <1>10, <2>1 DEF IInv, Answers, AnswersMatch, Ended
    <3>2. 1..outcome[k].by \subseteq Sent
      BY <1>1, <1>10, <2>1 DEF IInv, Answers
    <3> QED
      BY <1>4, <3>1, <3>2
  <2>2. CASE k = w /\ how # "abandoned"
    <3>1. outcome'[k].by = n /\ n \in Sent /\ n # w
      BY <1>1, <1>3, <1>11, <2>2
    <3>5. n < w
      BY <1>1, <3>1
    <3>2. outcome[n].end # "waiting"
      BY <1>1, <3>1 DEF w, IInv, Answers
    <3>3. Excused(n)
      BY <2>2, <3>2, LateIsExcused
    <3>4. 1..n \subseteq Sent
      BY <1>1, <3>1, <3>5
    <3> QED
      BY <1>4, <2>2, <3>1, <3>3, <3>4, <3>5 DEF Excused
  <2> QED
    BY <1>10, <2>1, <2>2
<1>18. AnswersMatch'
  BY <1>16, <1>17 DEF AnswersMatch, Ended
<1>19. Answers'
  BY <1>12, <1>14, <1>15, <1>18 DEF Answers
<1> QED
  BY <1>3, <1>5, <1>6, <1>8, <1>9, <1>19 DEF w

\* What is said in an order stays true of one that allows more.
LEMMA OrderGrows ==
    ASSUME IInv, Earlier \subseteq Earlier', EarlierItems \subseteq EarlierItems'
    PROVE  /\ Ordered(seen, Earlier') /\ Ordered(urbs, Earlier') /\ Ordered(up, Earlier')
           /\ Ordered(gOut, EarlierItems')
           /\ Seen \X (Urbs \cup Up \cup GOut) \subseteq Earlier'
           /\ Urbs \X (Up \cup GOut) \subseteq Earlier'
           /\ Up \X GOut \subseteq Earlier'
<1>1. InOrder
  BY DEF IInv
<1>2. /\ Ordered(seen, Earlier') /\ Ordered(urbs, Earlier') /\ Ordered(up, Earlier')
      /\ Ordered(gOut, EarlierItems')
  BY <1>1, LargerOrder DEF InOrder
<1> QED
  BY <1>1, <1>2 DEF InOrder

\* Two neighbours that change places are the only ones to do so.
LEMMA SwapMoves ==
    ASSUME NEW i \in Nat, NEW k \in Nat, NEW l \in Nat, k < l
    PROVE  \/ (IF k = i THEN i - 1 ELSE IF k = i - 1 THEN i ELSE k)
                 < (IF l = i THEN i - 1 ELSE IF l = i - 1 THEN i ELSE l)
           \/ k = i - 1 /\ l = i
<1>1. CASE k = i
  BY <1>1
<1>2. CASE k = i - 1
  <2>1. CASE l = i
    BY <1>2, <2>1
  <2>2. CASE l # i
    BY <1>2, <2>2
  <2> QED
    BY <2>1, <2>2
<1>3. CASE k # i /\ k # i - 1
  BY <1>3
<1> QED
  BY <1>1, <1>2, <1>3

\* Two datagrams that change places stay what they are, and in an order that allows
\* the one that they have now.
LEMMA SwapHolds ==
    ASSUME NEW S, NEW s \in Seq(S), NEW i \in 2..Len(s), NEW R, NEW Q, R \subseteq Q,
           Ordered(s, R), <<s[i], s[i - 1]>> \in Q
    PROVE  /\ s[i] \in S /\ s[i - 1] \in S /\ <<s[i - 1], s[i]>> \in R
           /\ SwapTo(s, i) \in Seq(S) /\ Range(SwapTo(s, i)) = Range(s)
           /\ Ordered(SwapTo(s, i), Q)
<1> DEFINE u == SwapTo(s, i)
           at(k) == IF k = i THEN i - 1 ELSE IF k = i - 1 THEN i ELSE k
<1>1. /\ Len(s) \in Nat /\ DOMAIN s = 1..Len(s) /\ i \in Nat /\ i - 1 \in DOMAIN s
      /\ i \in DOMAIN s /\ i - 1 < i /\ i - 1 # i
      /\ \A k \in DOMAIN s : s[k] \in S
  BY LenProperties, ElementOfSeq
<1>2. \A k \in DOMAIN s : at(k) \in DOMAIN s /\ at(at(k)) = k
  BY <1>1
<1>3. DOMAIN u = DOMAIN s /\ \A k \in DOMAIN s : u[k] = s[at(k)]
  BY <1>1 DEF SwapTo
<1>4. u \in Seq(S)
  <2>1. \A k \in 1..Len(s) : u[k] \in S
    BY <1>1, <1>2, <1>3
  <2>2. u = [k \in 1..Len(s) |-> u[k]]
    BY <1>1 DEF SwapTo
  <2> HIDE DEF u
  <2> QED
    BY <1>1, <2>1, <2>2, SeqDef
<1>5. Range(u) = Range(s)
  <2> HIDE DEF u, at
  <2> QED
    BY <1>2, <1>3 DEF Range
<1>6. ASSUME NEW k \in DOMAIN s, NEW l \in DOMAIN s, k < l
      PROVE  at(k) < at(l) \/ (k = i - 1 /\ l = i)
  <2>1. i \in Nat /\ k \in Nat /\ l \in Nat
    BY <1>1
  <2> QED
    BY <1>6, <2>1, SwapMoves
<1>7. Ordered(u, Q)
  <2>1. at(i - 1) = i /\ at(i) = i - 1
    BY <1>1
  <2> HIDE DEF u, at
  <2> SUFFICES ASSUME NEW k \in DOMAIN s, NEW l \in DOMAIN s, k < l
               PROVE  <<u[k], u[l]>> \in Q
    BY <1>3 DEF Ordered
  <2>2. CASE at(k) < at(l)
    BY <1>2, <1>3, <2>2 DEF Ordered
  <2>3. CASE k = i - 1 /\ l = i
    BY <1>3, <2>1, <2>3
  <2> QED
    BY <1>6, <2>2, <2>3
<1>8. <<s[i - 1], s[i]>> \in R
  BY <1>1 DEF Ordered
<1> QED
  BY <1>1, <1>4, <1>5, <1>7, <1>8 DEF u

\* ... so that nothing is at another place than before, and the order allows more.
LEMMA OvertakeKeeps ==
    ASSUME IInv, Overtake
    PROVE  IInv'
<1>1. UNCHANGED <<host, gadget, driver, seen>> /\ UNCHANGED <<issued, outcome>>
  BY DEF Overtake, host
<1>2. /\ Sent' = Sent /\ Ins' = Ins /\ Puts' = Puts /\ Selecting' = Selecting
      /\ Valid' = Valid
  BY <1>1, RequestsRest
<1>3. Earlier \subseteq Earlier' /\ EarlierItems \subseteq EarlierItems'
  <2>1. overtook \subseteq overtook'
    BY DEF Overtake
  <2>2. Earlier \subseteq Earlier'
    BY <1>1, <1>2, <2>1 DEF Earlier, Kind, IsIn, Excused
  <2> QED
    BY <2>2, Zenon DEF EarlierItems
<1>4. up' \in Seq(Setups) /\ Up' = Up /\ Ordered(up, Earlier)'
  <2>1. up \in Seq(Setups) /\ Ordered(up, Earlier) /\ Up \subseteq Sent
    BY AllSent DEF IInv, Typed, QueuesTyped, InOrder
  <2>2. CASE UNCHANGED up
    BY <1>3, <2>1, <2>2, LargerOrder DEF Up
  <2>3. ASSUME NEW i \in 2..Len(up), up' = SwapTo(up, i), <<up[i], up[i - 1]>> \in overtook'
        PROVE  up' \in Seq(Setups) /\ Up' = Up /\ Ordered(up, Earlier)'
    <3>1. /\ i \in DOMAIN up /\ i - 1 \in DOMAIN up /\ i - 1 < i
      BY <2>1, LenProperties
    <3>2. up[i] \in Sent /\ up[i - 1] \in Sent /\ <<up[i - 1], up[i]>> \in Earlier
      BY <2>1, <3>1 DEF Up, Range, Ordered
    <3>3. up[i] < up[i - 1] \/ up[i] > up[i - 1]
      BY <3>2, SentFacts DEF IInv, Earlier
    <3>4. <<up[i], up[i - 1]>> \in Earlier'
      BY <1>2, <2>3, <3>2, <3>3 DEF Earlier
    <3> QED
      BY <1>3, <2>1, <2>3, <3>4, SwapHolds DEF Up
  <2> QED
    BY <2>2, <2>3 DEF Overtake
<1>5. /\ down' \in Seq(Messages) /\ Ordered(down', Differ(Messages))
      /\ Down' = Down /\ Replies' = Replies /\ Dones' = Dones
  <2>1. down \in Seq(Messages) /\ Ordered(down, Differ(Messages))
    BY DEF IInv, Typed, QueuesTyped, Unique
  <2>2. CASE UNCHANGED down
    BY <2>1, <2>2 DEF Down, Replies, Dones
  <2>3. ASSUME NEW i \in 2..Len(down), down' = SwapTo(down, i)
        PROVE  /\ down' \in Seq(Messages) /\ Ordered(down', Differ(Messages))
               /\ Range(down') = Range(down)
    <3>1. i \in DOMAIN down /\ i - 1 \in DOMAIN down /\ i - 1 < i
      BY <2>1, LenProperties
    <3>2. <<down[i - 1], down[i]>> \in Differ(Messages)
      BY <2>1, <3>1 DEF Ordered
    <3>3. <<down[i], down[i - 1]>> \in Differ(Messages)
      BY <3>2 DEF Differ
    <3> QED
      BY <2>1, <2>3, <3>3, SwapHolds
  <2>4. CASE \E i \in 2..Len(down) : down' = SwapTo(down, i)
    <3>1. /\ down' \in Seq(Messages) /\ Ordered(down', Differ(Messages))
          /\ Range(down') = Range(down)
      BY <2>3, <2>4
    <3> QED
      BY <3>1 DEF Down, Replies, Dones
  <2> QED
    BY <2>2, <2>4 DEF Overtake
<1>6. /\ Urbs' = Urbs /\ Seen' = Seen /\ DIn' = DIn /\ Coming' = Coming
      /\ GIn' = GIn /\ GOut' = GOut /\ Asked' = Asked /\ Handed' = Handed /\ Queued' = Queued
  BY <1>1 DEF driver, gadget, Urbs, Seen, DIn, Coming, GIn, GOut, Asked, Handed, Queued
<1>7. Typed'
  <2>1. QueuesTyped'
    BY <1>1, <1>4, <1>5 DEF gadget, driver, IInv, Typed, QueuesTyped
  <2>2. RestTyped'
    BY <1>1 DEF gadget, driver, IInv, Typed, RestTyped
  <2> QED
    BY <1>1, <2>1, <2>2, HostTypesKept DEF Typed
<1>8. Unique'
  BY <1>1, <1>5 DEF gadget, driver, IInv, Unique
<1>9. RightKind' /\ Apart'
  BY <1>2, <1>4, <1>5, <1>6 DEF IInv, RightKind, Apart
<1>10. Answers'
  BY <1>1, <1>2, <1>4, <1>5, <1>6, AnswersKept DEF IInv, Answering
<1>11. InOrder'
  <2>1. Ordered(seen, Earlier)' /\ Ordered(urbs, Earlier)' /\ Ordered(gOut, EarlierItems)'
    BY <1>1, <1>3, OrderGrows DEF gadget, driver
  <2> QED
    BY <1>3, <1>4, <1>6, <2>1, OrderGrows DEF InOrder
<1> QED
  BY <1>7, <1>8, <1>9, <1>10, <1>11 DEF IInv

LEMMA RecvAckKeeps ==
    ASSUME IInv, RecvAck
    PROVE  IInv'
<1> DEFINE n == Head(down).req
<1>1. UNCHANGED <<issued, known, selected, gadget, up, overtook, driver, seen>>
  BY DEF RecvAck
<1>2. /\ n \in Setups /\ down' \in Seq(Messages) /\ Down = Down' \cup {n} /\ n \notin Down'
      /\ Head(down).type = "stall" => Replies = Replies' \cup {n}
      /\ Replies' \subseteq Replies /\ Dones' \subseteq Dones
      /\ Ordered(down', Differ(Messages))
  <2>1. Head(down) \in Messages
    BY FromDown DEF RecvAck
  <2> QED
    BY <2>1, FromDown DEF RecvAck, Messages
<1>3. /\ GIn' = GIn /\ GOut' = GOut /\ Asked' = Asked /\ Handed' = Handed /\ Queued' = Queued
      /\ Up' = Up /\ Coming' = Coming /\ Urbs' = Urbs /\ Seen' = Seen /\ DIn' = DIn
  BY <1>1 DEF gadget, driver, GIn, GOut, Asked, Handed, Queued, Up, Coming, Urbs, Seen, DIn
<1>4. /\ outcome' \in Seq(Outcomes) /\ Len(outcome') = Len(outcome)
      /\ Sent' = Sent /\ Ins' = Ins /\ Puts' = Puts /\ Selecting' = Selecting
      /\ Valid' = Valid
      /\ Earlier \subseteq Earlier' /\ EarlierItems \subseteq EarlierItems'
      /\ Answers'
  <2>1. CASE UNCHANGED outcome
    <3>1. Answering' \subseteq Answering
      BY <1>1, <1>2, <1>3, <2>1, HostRests DEF Answering
    <3>2. Answers'
      BY <1>1, <2>1, <3>1, AnswersKept DEF IInv
    <3>3. outcome' \in Seq(Outcomes) /\ Len(outcome') = Len(outcome)
      BY <2>1 DEF IInv, Typed, HostTyped
    <3> QED
      BY <1>1, <2>1, <3>2, <3>3, HostRests
  <2>2. CASE Waiting /\ queued = 0 /\ Head(down).type = "stall" /\ End("stalled", n)
    <3>1. Ins' = Ins
      BY <1>1 DEF Ins, Sent, IsIn, Kind
    <3>2. n \in Replies /\ n \notin Replies'
      BY <1>2, <2>2 DEF Down, Replies, ReqsOf
    <3>3. n \notin GIn \cup GOut \cup Up \cup Urbs \cup DIn /\ Queued = {}
      BY <1>2, <2>2 DEF IInv, Apart, Queued
    <3>4. Asked \subseteq GOut
      BY AllSent
    <3>5. n \in Answering /\ n \notin Answering' /\ Answering' \subseteq Answering
      BY <1>2, <1>3, <3>1, <3>2, <3>3, <3>4 DEF Answering
    <3> QED
      BY <1>1, <1>2, <2>2, <3>5, EndKeeps
  <2> QED
    BY <2>1, <2>2 DEF RecvAck
<1>5. Typed'
  <2>1. known' \in BOOLEAN
    BY <1>1 DEF IInv, Typed
  <2>2. QueuesTyped'
    BY <1>1, <1>2 DEF gadget, driver, IInv, Typed, QueuesTyped
  <2>3. HostTyped'
    BY <1>1, <1>4 DEF IInv, Typed, HostTyped
  <2>4. RestTyped'
    BY <1>1 DEF gadget, driver, IInv, Typed, RestTyped
  <2> QED
    BY <2>1, <2>2, <2>3, <2>4 DEF Typed
<1>6. Unique'
  BY <1>1, <1>2 DEF gadget, driver, IInv, Unique
<1>7. RightKind'
  BY <1>2, <1>3, <1>4 DEF IInv, RightKind
<1>8. Apart'
  BY <1>2, <1>3, <1>4 DEF IInv, Apart
<1>9. InOrder'
  BY <1>1, <1>3, <1>4, OrderGrows DEF gadget, driver, InOrder
<1> QED
  BY <1>4, <1>5, <1>6, <1>7, <1>8, <1>9 DEF IInv

LEMMA HostGivesUpKeeps ==
    ASSUME IInv, HostGivesUp
    PROVE  IInv'
<1>1. UNCHANGED <<issued, known, selected, gIn, gOut, g, up, down, overtook, driver, seen>> /\ queued' = 0
  BY DEF HostGivesUp
<1>2. /\ GIn' = GIn /\ GOut' = GOut /\ Asked' = Asked /\ Handed' = Handed /\ Queued' = {}
      /\ Up' = Up /\ Coming' = Coming /\ Urbs' = Urbs /\ Seen' = Seen /\ DIn' = DIn
      /\ Down' = Down /\ Replies' = Replies /\ Dones' = Dones
  BY <1>1 DEF driver, GIn, GOut, Asked, Handed, Queued, Up, Coming, Urbs, Seen, DIn, Down,
              Replies, Dones
<1>3. /\ outcome' \in Seq(Outcomes) /\ Len(outcome') = Len(outcome)
      /\ Sent' = Sent /\ Ins' = Ins /\ Puts' = Puts /\ Selecting' = Selecting
      /\ Valid' = Valid
      /\ Earlier \subseteq Earlier' /\ EarlierItems \subseteq EarlierItems'
      /\ Answers'
  <2>1. Ins' = Ins
    BY <1>1 DEF Ins, Sent, IsIn, Kind
  <2>2. Answering' \subseteq Answering
    BY <1>2, <2>1 DEF Answering
  <2>3. Waiting /\ End("abandoned", 0) /\ UNCHANGED <<issued, overtook>>
    BY DEF HostGivesUp
  <2> QED
    BY <2>2, <2>3, EndKeeps
<1>4. Typed'
  <2>1. known' \in BOOLEAN
    BY <1>1 DEF IInv, Typed
  <2>2. QueuesTyped'
    BY <1>1 DEF driver, IInv, Typed, QueuesTyped
  <2>3. HostTyped'
    BY <1>1, <1>3 DEF IInv, Typed, HostTyped
  <2>4. RestTyped'
    BY <1>1 DEF driver, IInv, Typed, RestTyped
  <2> QED
    BY <2>1, <2>2, <2>3, <2>4 DEF Typed
<1>5. Unique'
  BY <1>1 DEF driver, IInv, Unique
<1>6. RightKind' /\ Apart'
  BY <1>2, <1>3 DEF IInv, RightKind, Apart
<1>7. InOrder'
  BY <1>1, <1>2, <1>3, OrderGrows DEF driver, InOrder
<1> QED
  BY <1>3, <1>4, <1>5, <1>6, <1>7 DEF IInv

LEMMA HostTakesKeeps ==
    ASSUME IInv, HostTakes
    PROVE  IInv'
<1> DEFINE n    == queued
           item == [item |-> "data", req |-> n]
<1>1. UNCHANGED <<issued, gIn, g, up, down, overtook, driver, seen>> /\ queued' = 0
  BY DEF HostTakes
<1>2. /\ GIn' = GIn /\ Queued = {n} /\ Queued' = {}
      /\ Up' = Up /\ Coming' = Coming /\ Urbs' = Urbs /\ Seen' = Seen /\ DIn' = DIn
      /\ Down' = Down /\ Replies' = Replies /\ Dones' = Dones
  BY <1>1 DEF HostTakes, driver, GIn, Queued, Up, Coming, Urbs, Seen, DIn, Down, Replies, Dones
<1>3. n \in Setups /\ n \in Sent /\ item \in OutItems
  BY <1>2 DEF HostTakes, IInv, Typed, RestTyped, RightKind, OutItems
<1>4. /\ gOut' \in Seq(OutItems) /\ Asked' = Asked
      /\ \/ UNCHANGED gOut /\ GOut' = GOut /\ Handed' = Handed
         \/ /\ n \in Puts /\ gOut' = Append(gOut, item)
            /\ GOut' = GOut \cup {n} /\ Handed' = Handed \cup {n}
  <2>1. CASE UNCHANGED gOut
    BY <2>1 DEF GOut, Asked, Handed, IInv, Typed, QueuesTyped
  <2>2. CASE Kind(n) = "put" /\ gOut' = Append(gOut, item)
    BY <1>3, <2>2, ToGOut DEF Puts
  <2> QED
    BY <2>1, <2>2 DEF HostTakes
<1>5. n \notin GIn \cup GOut /\ (n \in Ins => n \notin Up \cup Urbs \cup DIn \cup Down)
  BY <1>2 DEF IInv, Apart
<1>6. n \in Answering /\ n \notin Answering' /\ Answering' \subseteq Answering
  <2>1. Ins' = Ins
    BY <1>1 DEF Ins, Sent, IsIn, Kind
  <2>2. DIn \subseteq Ins /\ Replies \subseteq Ins /\ Replies \subseteq Down /\ Asked \subseteq GOut
    BY AllSent DEF IInv, RightKind
  <2> QED
    BY <1>2, <1>4, <1>5, <2>1, <2>2 DEF Answering
<1>7. /\ outcome' \in Seq(Outcomes) /\ Len(outcome') = Len(outcome)
      /\ Sent' = Sent /\ Ins' = Ins /\ Puts' = Puts /\ Selecting' = Selecting
      /\ Valid' = Valid
      /\ Earlier \subseteq Earlier' /\ EarlierItems \subseteq EarlierItems'
      /\ Answers'
  <2>1. Waiting /\ End("answered", n) /\ UNCHANGED <<issued, overtook>>
    BY DEF HostTakes
  <2> QED
    BY <1>3, <1>6, <2>1, EndKeeps
<1>8. Typed'
  <2>1. known' \in BOOLEAN
    BY DEF HostTakes, IInv, Typed
  <2>2. QueuesTyped'
    BY <1>1, <1>4 DEF driver, IInv, Typed, QueuesTyped
  <2>3. Last(issued).setting \in Nat \X Nat
    <3>1. Len(issued) \in Sent
      BY WaitingIs, SentFacts DEF HostTakes, IInv
    <3> QED
      BY <3>1, SentFacts DEF IInv, Last
  <2>4. selected' \subseteq Nat \X Nat
    <3>1. selected \subseteq Nat \X Nat
      BY DEF IInv, Typed, HostTyped
    <3>2. Default \subseteq Nat \X Nat
      BY InterfacesAssumption DEF Default
    <3>3. \/ selected' = Default \/ selected' = selected
          \/ selected' = {s \in selected : s[1] # Last(issued).setting[1]}
                             \cup {Last(issued).setting}
      BY DEF HostTakes
    <3> QED
      BY <2>3, <3>1, <3>2, <3>3
  <2>5. HostTyped'
    BY <1>1, <1>7, <2>4 DEF IInv, Typed, HostTyped
  <2>6. RestTyped'
    BY <1>1 DEF driver, IInv, Typed, RestTyped
  <2> QED
    BY <2>1, <2>2, <2>5, <2>6 DEF Typed
<1>9. Unique'
  BY <1>1 DEF driver, IInv, Unique
<1>10. RightKind'
  <2>1. n \in Puts => n \in Sent \ Ins
    BY <1>3 DEF Puts, Ins, IsIn
  <2> QED
    BY <1>2, <1>4, <1>7, <2>1 DEF IInv, RightKind
<1>11. Apart'
  <2>1. n \in Puts => n \notin GIn \cup Up \cup Urbs \cup DIn \cup Coming \cup Down \cup Seen
    <3>1. Puts \cap Ins = {}
      BY DEF Puts, Ins, IsIn
    <3> QED
      BY <1>2, <1>5, <3>1 DEF IInv, Apart, RightKind
  <2> QED
    BY <1>2, <1>4, <1>7, <2>1 DEF IInv, Apart
<1>12. InOrder'
  <2>1. \A m \in Seen \cup Urbs \cup Up \cup GOut : m # n => <<m, n>> \in Earlier'
    BY <1>6, <1>7, AllSent, AfterAll
  <2>2. n \in Puts => \A m \in Seen \cup Urbs \cup Up \cup GOut : <<m, n>> \in Earlier'
    BY <1>2, <1>5, <2>1 DEF IInv, Apart
  <2>3. Ordered(gOut, EarlierItems)'
    <3>1. CASE UNCHANGED gOut
      BY <1>7, <3>1, OrderGrows
    <3>2. CASE n \in Puts /\ gOut' = Append(gOut, item)
      <4>1. \A m \in GOut : <<m, item.req>> \in Earlier'
        BY <2>2, <3>2
      <4> QED
        BY <1>3, <1>7, <3>2, <4>1, ToGOutOrdered
    <3> QED
      BY <1>4, <3>1, <3>2
  <2>4. /\ Seen \X (Urbs \cup Up \cup GOut') \subseteq Earlier'
        /\ Urbs \X (Up \cup GOut') \subseteq Earlier'
        /\ Up \X GOut' \subseteq Earlier'
    BY <1>4, <1>7, <2>2, OrderGrows
  <2>5. Ordered(seen, Earlier)' /\ Ordered(urbs, Earlier)' /\ Ordered(up, Earlier)'
    BY <1>1, <1>7, OrderGrows DEF driver
  <2> QED
    BY <1>2, <2>3, <2>4, <2>5 DEF InOrder
<1> QED
  BY <1>7, <1>8, <1>9, <1>10, <1>11, <1>12 DEF IInv

LEMMA HostSetupKeeps ==
    ASSUME IInv, NEW r \in Requests, HostSetup(r)
    PROVE  IInv'
<1> DEFINE n    == Len(issued')
           item == [item |-> "setup", req |-> n]
<1>1. UNCHANGED <<known, selected, queued, g, up, down, overtook, driver, seen>>
  BY DEF HostSetup
<1>2. /\ Len(issued) \in Nat /\ n = Len(issued) + 1 /\ n <= MaxSetups /\ n \in Setups /\ n # 0
      /\ issued' \in Seq(Requests) /\ issued'[n] = r
      /\ \A k \in 1..Len(issued) : issued'[k] = issued[k]
      /\ DOMAIN issued' = 1..n
  <2>1. issued \in Seq(Requests) /\ issued' = Append(issued, r) /\ Len(issued) < MaxSetups
    BY DEF HostSetup, IInv, Typed, HostTyped
  <2>2. Len(issued) \in Nat /\ MaxSetups \in Nat
    BY <2>1, LenProperties, ControlAssumption
  <2>3. /\ issued' \in Seq(Requests) /\ n = Len(issued) + 1 /\ issued'[n] = r
        /\ \A k \in 1..Len(issued) : issued'[k] = issued[k]
    BY <2>1, <2>2, AppendProperties
  <2>4. DOMAIN issued' = 1..n
    BY <2>3, LenProperties
  <2> QED
    BY <2>1, <2>2, <2>3, <2>4 DEF Setups
<1>3. /\ Sent = 1..Len(issued) /\ Sent' = Sent \cup {n} /\ n \notin Sent
      /\ \A k \in Sent : k < n /\ k \in Nat
  BY <1>2 DEF Sent, IInv, Typed, HostTyped
<1>4. \A k \in Sent : issued'[k] = issued[k]
  BY <1>2, <1>3
<1>5. /\ \A k \in Sent : /\ k \in Ins' <=> k \in Ins
                         /\ k \in Puts' <=> k \in Puts
                         /\ k \in Selecting' <=> k \in Selecting
                         /\ k \in Valid' <=> k \in Valid
      /\ Ins \subseteq Ins' /\ Puts \subseteq Puts' /\ Selecting \subseteq Selecting'
      /\ Valid \subseteq Valid'
  <2>1. \A k \in Sent : /\ k \in Ins' <=> k \in Ins
                        /\ k \in Puts' <=> k \in Puts
                        /\ k \in Selecting' <=> k \in Selecting
    BY <1>3, <1>4 DEF Ins, Puts, Selecting, IsIn, Kind
  <2>2. \A k \in Sent : k \in Valid' <=> k \in Valid
    BY <1>3, <1>4, <2>1 DEF Valid
  <2>3. /\ Ins \subseteq Sent /\ Puts \subseteq Sent /\ Selecting \subseteq Sent
        /\ Valid \subseteq Sent
    BY DEF Ins, Puts, Selecting, Valid
  <2> QED
    BY <2>1, <2>2, <2>3
<1>6. /\ outcome \in Seq(Outcomes) /\ DOMAIN outcome = Sent /\ Len(outcome) = Len(issued)
      /\ outcome' \in Seq(Outcomes) /\ Len(outcome') = n /\ DOMAIN outcome' = Sent'
      /\ \A k \in Sent : outcome'[k] = outcome[k]
      /\ outcome'[n] \in {[end |-> "waiting", by |-> 0], [end |-> "stalled", by |-> n]}
  <2>1. outcome \in Seq(Outcomes) /\ DOMAIN outcome = Sent /\ Len(outcome) = Len(issued)
    BY SentFacts DEF IInv, Typed, HostTyped
  <2>2. [end |-> "waiting", by |-> 0] \in Outcomes /\ [end |-> "stalled", by |-> n] \in Outcomes
    BY <1>2 DEF Outcomes
  <2>3. PICK x \in {[end |-> "waiting", by |-> 0], [end |-> "stalled", by |-> n]} :
            outcome' = Append(outcome, x)
    BY DEF HostSetup
  <2>4. x \in Outcomes
    BY <2>2, <2>3
  <2>5. /\ outcome' \in Seq(Outcomes) /\ Len(outcome') = Len(outcome) + 1
        /\ \A k \in 1..Len(outcome) : outcome'[k] = outcome[k]
        /\ outcome'[Len(outcome) + 1] = x
    BY <2>1, <2>3, <2>4, AppendProperties
  <2>6. DOMAIN outcome' = 1..Len(outcome')
    BY <2>5, LenProperties
  <2> QED
    BY <1>2, <1>3, <2>1, <2>3, <2>5, <2>6 DEF Sent
<1>7. /\ Queued' = Queued /\ Up' = Up /\ Coming' = Coming /\ Urbs' = Urbs /\ Seen' = Seen
      /\ DIn' = DIn /\ Down' = Down /\ Replies' = Replies /\ Dones' = Dones
  BY <1>1 DEF driver, Queued, Up, Coming, Urbs, Seen, DIn, Down, Replies, Dones
<1>8. n \notin GIn /\ item \in OutItems
  BY <1>2, <1>3, AllSent DEF OutItems
<1>9. \/ /\ outcome'[n].end = "waiting" /\ n \in Ins'
         /\ gIn' = Append(gIn, n) /\ UNCHANGED gOut
      \/ /\ outcome'[n].end = "waiting" /\ n \in Sent' \ Ins'
         /\ gOut' = Append(gOut, item) /\ UNCHANGED gIn
      \/ /\ outcome'[n] = [end |-> "stalled", by |-> n] /\ UNCHANGED <<gIn, gOut>>
  <2>1. n \in Ins' <=> r.kind \in {"get", "get_config"}
    BY <1>2, <1>3 DEF Ins, IsIn, Kind
  <2>2. \A x : outcome' = Append(outcome, x) => outcome'[n] = x
    BY <1>2, <1>6
  <2> QED
    BY <1>3, <2>1, <2>2 DEF HostSetup
<1>10. /\ gIn' \in Seq(Setups) /\ IsInjective(gIn)' /\ gOut' \in Seq(OutItems)
       /\ Handed' = Handed
       /\ \/ /\ n \in Ins' /\ outcome'[n].end = "waiting"
             /\ GIn' = GIn \cup {n} /\ GOut' = GOut /\ Asked' = Asked
          \/ /\ n \in Sent' \ Ins' /\ outcome'[n].end = "waiting"
             /\ GIn' = GIn /\ GOut' = GOut \cup {n} /\ Asked' = Asked \cup {n}
          \/ /\ outcome'[n].end = "stalled" /\ outcome'[n].by = n
             /\ GIn' = GIn /\ GOut' = GOut /\ Asked' = Asked
  <2>1. UNCHANGED gIn => gIn' \in Seq(Setups) /\ IsInjective(gIn)' /\ GIn' = GIn
    BY DEF GIn, IInv, Typed, QueuesTyped, Unique
  <2>2. UNCHANGED gOut =>
            gOut' \in Seq(OutItems) /\ GOut' = GOut /\ Asked' = Asked /\ Handed' = Handed
    BY DEF GOut, Asked, Handed, IInv, Typed, QueuesTyped
  <2>3. gIn' = Append(gIn, n) =>
            gIn' \in Seq(Setups) /\ IsInjective(gIn)' /\ GIn' = GIn \cup {n}
    BY <1>2, <1>8, ToGIn
  <2>4. gOut' = Append(gOut, item) =>
            /\ gOut' \in Seq(OutItems) /\ GOut' = GOut \cup {n}
            /\ Asked' = Asked \cup {n} /\ Handed' = Handed
    BY <1>8, ToGOut
  <2> QED
    BY <1>9, <2>1, <2>2, <2>3, <2>4
<1>11. Typed'
  <2>1. known' \in BOOLEAN
    BY <1>1 DEF IInv, Typed
  <2>2. QueuesTyped'
    BY <1>1, <1>10 DEF driver, IInv, Typed, QueuesTyped
  <2>3. HostTyped'
    BY <1>1, <1>2, <1>6 DEF IInv, Typed, HostTyped
  <2>4. RestTyped'
    BY <1>1 DEF driver, IInv, Typed, RestTyped
  <2> QED
    BY <2>1, <2>2, <2>3, <2>4 DEF Typed
<1>12. Unique'
  BY <1>1, <1>10 DEF driver, IInv, Unique
<1>13. RightKind'
  BY <1>3, <1>5, <1>7, <1>10, AllSent DEF IInv, RightKind
<1>14. Apart'
  <2>1. n \notin GIn \cup GOut \cup Up \cup Urbs \cup DIn \cup Coming \cup Down \cup Seen
                \cup Queued
    BY <1>3, AllSent DEF IInv, RightKind
  <2>2. Queued \cap Ins' = Queued \cap Ins /\ Queued \cap Puts' = Queued \cap Puts
    BY <1>5 DEF IInv, RightKind
  <2> QED
    BY <1>7, <1>10, <2>1, <2>2 DEF IInv, Apart
<1>15. Earlier \subseteq Earlier' /\ EarlierItems \subseteq EarlierItems'
  <2>1. \A k \in Sent : Excused(k) => Excused(k)'
    <3>1. \A k \in Sent : 1..k \subseteq Sent
      BY <1>2, <1>3
    <3> QED
      BY <1>6, <3>1 DEF Excused
  <2>2. Earlier \subseteq Earlier'
    <3>1. overtook' = overtook
      BY DEF HostSetup
    <3> QED
      BY <3>1, <1>3, <1>4, <2>1 DEF Earlier, Kind, IsIn
  <2> QED
    BY <2>2, Zenon DEF EarlierItems
<1>16. \A m \in Sent : <<m, n>> \in Earlier'
  BY <1>3 DEF Earlier
<1>17. InOrder'
  <2>1. \A m \in Seen \cup Urbs \cup Up \cup GOut : <<m, n>> \in Earlier'
    BY <1>16, AllSent
  <2>2. Ordered(gOut, EarlierItems)'
    <3>1. CASE UNCHANGED gOut
      BY <1>15, <3>1, OrderGrows
    <3>2. CASE gOut' = Append(gOut, item)
      <4>1. \A m \in GOut : <<m, item.req>> \in Earlier'
        BY <2>1
      <4> QED
        BY <1>8, <1>15, <3>2, <4>1, ToGOutOrdered
    <3> QED
      BY <1>9, <3>1, <3>2
  <2>3. /\ Seen \X (Urbs \cup Up \cup GOut') \subseteq Earlier'
        /\ Urbs \X (Up \cup GOut') \subseteq Earlier'
        /\ Up \X GOut' \subseteq Earlier'
    BY <1>10, <1>15, <2>1, OrderGrows
  <2>4. Ordered(seen, Earlier)' /\ Ordered(urbs, Earlier)' /\ Ordered(up, Earlier)'
    BY <1>1, <1>15, OrderGrows DEF driver
  <2> QED
    BY <1>7, <2>2, <2>3, <2>4 DEF InOrder
<1>18. Answers'
  <2>1. \A k \in Sent : outcome[k].end # "waiting"
    <3>1. \A k \in Sent : outcome[k].end = "waiting" => k = Len(outcome)
      BY <1>6 DEF IInv, Answers
    <3>2. \A k \in Sent : k = Len(outcome) /\ outcome[k].end = "waiting" => Waiting
      BY <1>6, EmptySeq DEF Waiting, Last
    <3> QED
      BY <3>1, <3>2 DEF HostSetup
  <2>2. \A k \in DOMAIN outcome' : outcome'[k].end = "waiting" => k = Len(outcome')
    BY <1>3, <1>6, <2>1
  <2>3. Answering' = Answering \cup (IF outcome'[n].end = "waiting" THEN {n} ELSE {})
    <3>1. Ins' \cap (Up \cup Urbs) = Ins \cap (Up \cup Urbs)
      BY <1>5, AllSent
    <3> QED
      BY <1>7, <1>10, <3>1 DEF Answering
  <2>4. /\ \A k \in Sent : k \in Ended' <=> k \in Ended
        /\ Ended' \subseteq Sent' /\ Ended \subseteq Sent
    BY <1>3, <1>6 DEF Ended
  <2>5. n \in Ended' => outcome'[n].end = "stalled" /\ outcome'[n].by = n
    BY <1>10 DEF Ended
  <2>6. \A k \in Ended : outcome[k].by \in Sent /\ outcome[k].by \in 1..k
    BY <1>3, <2>4 DEF IInv, Answers
  <2>7. \A k \in Ended' : outcome'[k].by \in 1..k
    BY <1>2, <1>3, <1>6, <2>4, <2>5, <2>6
  <2>8. Spent' \cap Answering' = {}
    <3>1. Spent' \subseteq Spent \cup (IF n \in Ended' THEN {n} ELSE {}) /\ Spent \subseteq Sent
      BY <1>3, <1>6, <2>4, <2>5, <2>6 DEF Spent
    <3>2. Spent \cap Answering = {} /\ Answering \subseteq Sent
      BY AllSent DEF IInv, Answers
    <3>3. n \in Ended' => outcome'[n].end # "waiting"
      BY <2>5
    <3> QED
      BY <1>3, <2>3, <3>1, <3>2, <3>3
  <2>9. AnswersMatch'
    <3>1. \A i, k \in Ended' : outcome'[i].by = outcome'[k].by => i = k
      <4>1. \A i, k \in Ended : outcome[i].by = outcome[k].by => i = k
        BY DEF IInv, Answers, AnswersMatch, Ended
      <4> QED
        BY <1>3, <1>6, <2>4, <2>5, <2>6, <4>1
    <3>2. \A k \in Ended' :
              \/ outcome'[k].by = k
              \/ /\ outcome'[k].by < k
                 /\ \E i \in 1..outcome'[k].by : outcome'[i].end = "abandoned"
      <4>1. \A k \in Ended :
                \/ outcome[k].by = k
                \/ /\ outcome[k].by < k
                   /\ \E i \in 1..outcome[k].by : outcome[i].end = "abandoned"
        BY DEF IInv, Answers, AnswersMatch, Ended
      <4>2. \A k \in Ended : 1..outcome[k].by \subseteq Sent
        BY <1>2, <1>3, <2>6
      <4> QED
        BY <1>3, <1>6, <2>4, <2>5, <4>1, <4>2, SMTT(30)
    <3> QED
      BY <3>1, <3>2 DEF AnswersMatch, Ended
  <2> QED
    BY <2>2, <2>7, <2>8, <2>9 DEF Answers
<1> QED
  BY <1>11, <1>12, <1>13, <1>14, <1>17, <1>18 DEF IInv

-----------------------------------------------------------------------------
(* The theorems *)

LEMMA InitHolds == Init => IInv
<1> SUFFICES ASSUME Init PROVE IInv
  OBVIOUS
<1>1. /\ GIn = {} /\ GOut = {} /\ Asked = {} /\ Handed = {} /\ Queued = {} /\ Up = {}
      /\ Coming = {} /\ Urbs = {} /\ Seen = {} /\ DIn = {} /\ Down = {} /\ Replies = {}
      /\ Dones = {}
  <2>1. com.at = "idle" /\ queued = 0
    BY DEF Init, Idle
  <2> QED
    BY <2>1, EmptyHolds DEF Init, GIn, GOut, Asked, Handed, Queued, Up, Coming, Urbs, Seen, DIn,
                            Down, Replies, Dones, ReqsOf
<1>2. DOMAIN issued = {} /\ DOMAIN outcome = {} /\ Sent = {} /\ Answering = {} /\ Ended = {}
  <2>1. DOMAIN issued = {} /\ DOMAIN outcome = {}
    BY DEF Init
  <2> QED
    BY <1>1, <2>1 DEF Sent, Answering, Ended, Ins
<1>3. Typed
  <2>1. known \in BOOLEAN
    BY DEF Init
  <2>2. QueuesTyped
    BY DEF Init, QueuesTyped
  <2>3. Default \subseteq Settings /\ Settings \subseteq Nat \X Nat
    BY InterfacesAssumption DEF Default
  <2>4. HostTyped
    BY <2>3, ControlAssumption DEF Init, HostTyped
  <2>5. NoEps \in [EpIds -> Nat] /\ GadgetClosed \in Gadgets
    BY DEF NoEps, GadgetClosed, Gadgets
  <2>6. EnableInterfaces(GadgetClosed, Default, {}) \in Gadgets
    BY <2>3, <2>5, EpsTyped DEF EnableInterfaces, Gadgets
  <2>7. With(NoEps, Default, {}) \in [EpIds -> Nat]
    BY <2>3, <2>5, EpsTyped
  <2>8. g \in Gadgets /\ dEps \in [EpIds -> Nat] /\ cur \subseteq Settings
    BY <2>3, <2>5, <2>6, <2>7 DEF Init
  <2>9. Idle \in Steps
    BY DEF Idle, Steps
  <2>10. RestTyped
    BY <2>8, <2>9 DEF Init, RestTyped
  <2> QED
    BY <2>1, <2>2, <2>4, <2>10 DEF Typed
<1>4. Unique
  BY EmptyHolds, EmptyOrdered DEF Init, Unique
<1>5. RightKind /\ Apart
  BY <1>1 DEF RightKind, Apart
<1>6. Answers
  <2>1. AnswersMatch
    BY <1>2 DEF AnswersMatch
  <2> QED
    BY <1>2, <2>1 DEF Answers
<1>7. InOrder
  <2>1. Ordered(seen, Earlier) /\ Ordered(urbs, Earlier) /\ Ordered(up, Earlier)
    BY EmptyOrdered DEF Init
  <2>2. Ordered(gOut, EarlierItems)
    BY EmptyOrdered DEF Init
  <2> QED
    BY <1>1, <2>1, <2>2 DEF InOrder
<1> QED
  BY <1>3, <1>4, <1>5, <1>6, <1>7 DEF IInv

LEMMA StutterKeeps ==
    ASSUME IInv, UNCHANGED vars
    PROVE  IInv'
<1>1. UNCHANGED <<host, overtook, gadget, up, down, urbs, dIn, cur, com, seen>>
      /\ UNCHANGED <<dOut, dEps, conf>>
  BY DEF vars, driver
<1>2. dOut \in Seq(InItems) /\ dEps \in [EpIds -> Nat] /\ conf \in Steps
  BY DEF IInv, Typed, QueuesTyped, RestTyped
<1> QED
  BY <1>1, <1>2, PlacesRest

LEMMA NextKeeps ==
    ASSUME IInv, Next
    PROVE  IInv'
<1>1. CASE HostStep
  BY <1>1, HostSetupKeeps, HostTakesKeeps, HostGivesUpKeeps DEF HostStep
<1>2. CASE GadgetWorks
  BY <1>2, SetupInKeeps, SetupPutKeeps, SetupDatalessKeeps, OutDataKeeps, RecvReplyKeeps,
     RecvAckKeeps DEF GadgetWorks
<1>3. CASE DriverWorks
  BY <1>3, RecvRequestKeeps, RecvSetInterfaceKeeps, SetInterfaceDisableKeeps,
     SetInterfaceEnableKeeps, WorkInKeeps, SetConfigurationKeeps DEF DriverWorks
<1>4. CASE DeviceStep
  BY <1>4, CompleteKeeps DEF DeviceStep
<1>5. CASE Lose
  BY <1>5, LoseKeeps
<1>6. CASE Overtake
  BY <1>6, OvertakeKeeps
<1> QED
  BY <1>1, <1>2, <1>3, <1>4, <1>5, <1>6 DEF Next

LEMMA HistoryKept ==
    ASSUME IInv, History, [Next]_vars
    PROVE  History'
<1>1. CASE Overtake
  <2>1. Fault("reorder")
    BY <1>1 DEF Overtake
  <2>2. up \in Seq(Setups)
    BY DEF IInv, Typed, QueuesTyped
  <2>3. \A i \in 2..Len(up) : up[i] \in Setups /\ up[i - 1] \in Setups
    BY <2>2, ElementOfSeq, LenProperties
  <2>4. overtook' \subseteq Setups \X Setups
    BY <1>1, <2>3 DEF Overtake, History
  <2> QED
    BY <2>1, <2>4 DEF History
<1>2. CASE ~Overtake
  <2>1. UNCHANGED overtook
    BY <1>2 DEF Next, vars, HostStep, HostSetup, HostTakes, HostGivesUp, GadgetWorks, SetupIn,
                SetupPut, SetupDataless, OutData, RecvReply, RecvAck, DriverWorks, RecvRequest,
                RecvSetInterface, SetInterfaceDisable, SetInterfaceEnable, WorkIn, WorkOut,
                SetConfigRead, SetConfigEnable, DeviceStep, Complete, Lose
  <2> QED
    BY <2>1 DEF History
<1> QED
  BY <1>1, <1>2

LEMMA Invariance == Spec => [](IInv /\ History)
<1>1. Init => IInv /\ History
  BY InitHolds DEF Init, History
<1>2. IInv /\ History /\ [Next]_vars => (IInv /\ History)'
  BY NextKeeps, StutterKeeps, HistoryKept
<1> QED
  BY <1>1, <1>2, PTL DEF Spec

\* The host, both halves and the device stay in the states their types allow,
\* whatever is lost, stalled, refused or given up.
THEOREM TypeCorrect == Spec => []TypeOK
<1>1. IInv /\ History => TypeOK
  BY TypedIsTypeOK
<1> QED
  BY <1>1, Invariance, PTL

\* An answer is queued on endpoint 0 for whatever transfer the host has going
\* (gadget.c:985).  Still no answer ends two transfers, none comes before its
\* request, and as long as the host gives up no transfer each one is ended by its
\* own, whatever else fails.
THEOREM EachItsAnswer == Spec => []AnswersMatch
<1>1. IInv => AnswersMatch
  BY DEF IInv, Answers
<1> QED
  BY <1>1, Invariance, PTL

LEMMA SeenInOrder == IInv => DeviceOrder
<1> SUFFICES ASSUME IInv, NEW i \in DOMAIN seen, NEW j \in DOMAIN seen, i < j
             PROVE  \/ seen[i] < seen[j]
                    \/ /\ seen[i] > seen[j]
                       /\ \/ Kind(seen[j]) = "put" /\ IsIn(seen[i])
                          \/ \E k \in 1..seen[j] : outcome[k].end = "abandoned"
                          \/ <<seen[i], seen[j]>> \in overtook
  BY DEF DeviceOrder
<1>1. <<seen[i], seen[j]>> \in Earlier
  BY DEF IInv, InOrder, Ordered
<1> QED
  BY <1>1 DEF Earlier, Excused

\* The device gets each request at most once and in the order of the host, but for
\* an IN request that overtakes one with data, what the host has given up, and two
\* requests whose datagrams arrived in another order than they were sent, though
\* each direction has a workqueue of its own (gadget.c:1252, 1170-1204) and
\* datagrams may arrive in any order (com_udp.c:280).
THEOREM DeviceInOrder == Spec => []DeviceOrder
<1>1. IInv => DeviceOrder
  BY SeenInOrder
<1> QED
  BY <1>1, Invariance, PTL

-----------------------------------------------------------------------------
(* Serving the settings the host has selected, where at most IN requests are
   stalled and datagrams not sent: a transfer whose datagram was not sent waits for
   ever, and no other begins.  No endpoint belongs to two interfaces, as USB has it. *)

OwnEndpoints      == \A s, t \in Settings : s[1] # t[1] => EpsOf[s] \cap EpsOf[t] = {}
OnlyStallsOrSends == Faults \subseteq {"stall", "send"}

SettingOf(n) == issued[n].setting
Choosing(n)  == n \in Sent /\ Kind(n) = "set_interface"

\* The settings that count: the ones selected, and with them the one the gadget
\* has just accepted and the host does not know of yet.
Target ==
    IF selected = {} THEN Default
    ELSE IF Choosing(queued)
    THEN {s \in selected : s[1] # SettingOf(queued)[1]} \cup {SettingOf(queued)}
    ELSE selected

\* The gadget has opened its endpoints when the host knows the configuration.
Open == selected # {} \/ known \/ (queued \in Sent /\ Kind(queued) = "get_config")

\* A SET_INTERFACE that the gadget has taken and neither accepted nor forwarded is
\* never answered: it has no such setting, or could not send it to the driver.
Stuck == Waiting /\ Choosing(Len(issued)) /\ Len(issued) \notin Asked \cup Queued

GadgetServes ==
    Open => Stuck \/ \A s \in Target : \A e \in EpsOf[s] : g.eps[e] > 0

\* What the driver has current is what counts, but for the requests it has not
\* carried out.
Chosen == {n \in Up : Kind(n) = "set_interface"}
CurFollows ==
    \A s \in Target :
        \/ s \in cur /\ \A n \in Chosen : SettingOf(n)[1] # s[1]
        \/ \E n \in Chosen : /\ SettingOf(n) = s
                             /\ \A m \in Chosen : SettingOf(m)[1] = s[1] => m <= n

\* The driver has set up the endpoints of what is current, or is about to.
SettingUp ==
    \/ \E n \in Up \cup Urbs : Kind(n) = "set_config"
    \/ \E x \in Range(dOut) : x.status = "ok" /\ Kind(x.req) = "set_config"
About(s) ==
    \/ SettingUp \/ conf.at = "read" \/ (conf.at = "enable" /\ s \in conf.settings)
    \/ com.at # "idle" /\ s = SettingOf(com.req)
Begun == selected # {} \/ (queued \in Sent /\ Kind(queued) = "set_config")
DriverServes ==
    Begun => \A s \in cur : About(s) \/ \A e \in EpsOf[s] : dEps[e] > 0

\* Where the com worker of the driver is in a SET_INTERFACE.
ComAt ==
    /\ com.at # "idle" =>
           /\ com.at \in {"disable", "enable"}
           /\ SettingOf(com.req) \in cur
           /\ \A s \in cur : s[1] = SettingOf(com.req)[1] => s = SettingOf(com.req)
    /\ com.at = "disable" => \A s \in com.settings : s[1] = SettingOf(com.req)[1]
    /\ com.at = "enable" => com.settings = {SettingOf(com.req)}

\* What the host may be asking for.
Asks ==
    /\ \A n \in DOMAIN outcome : outcome[n].end # "abandoned"
    /\ selected \subseteq Settings
    /\ selected = {} => Selecting = {}
    /\ Selecting = {} => cur = Default
    /\ Queued \cap Selecting \subseteq Valid
    /\ \A x \in Range(dOut) : x.status = "ok" /\ x.req \in Sent
    /\ Waiting => LET k == Kind(Len(issued))
                  IN  /\ k \in {"get_config", "set_config"} => selected = {}
                      /\ k = "set_config" => known

Serving == Asks /\ ComAt /\ GadgetServes /\ CurFollows /\ DriverServes

\* What an endpoint's count becomes.
LEMMA WithServes ==
    ASSUME NEW eps \in [EpIds -> Nat], NEW S, S \subseteq Settings
    PROVE  /\ \A e \in EpIds : eps[e] > 0 => With(eps, S, {})[e] > 0
           /\ \A s \in S : \A e \in EpsOf[s] : With(eps, S, {})[e] > 0
<1>1. \A e \in EpIds : eps[e] \in Nat /\ With(eps, S, {})[e] = eps[e] + Uses(e, S)
  BY DEF With
<1>2. \A e \in EpIds : Uses(e, S) \in Nat
  BY UsesCounts
<1>3. \A s \in S : \A e \in EpsOf[s] : e \in EpIds /\ Uses(e, S) > 0
  BY InterfacesAssumption, UsesCounts
<1> QED
  BY <1>1, <1>2, <1>3

LEMMA WithoutSpares ==
    ASSUME OwnEndpoints, NEW eps \in [EpIds -> Nat], NEW S, S \subseteq Settings,
           NEW s \in Settings, \A x \in S : x[1] # s[1]
    PROVE  \A e \in EpsOf[s] : Without(eps, S)[e] = eps[e]
<1> SUFFICES ASSUME NEW e \in EpsOf[s] PROVE Without(eps, S)[e] = eps[e]
  OBVIOUS
<1>1. e \in EpIds /\ eps[e] \in Nat
  BY InterfacesAssumption
<1>2. \A x \in S : e \notin EpsOf[x]
  BY DEF OwnEndpoints
<1>3. Uses(e, S) = 0
  BY <1>2, UsesCounts
<1> QED
  BY <1>1, <1>3 DEF Without

\* The gadget, in SET_INTERFACE and when it reads the configuration.
LEMMA GadgetChanges ==
    ASSUME OwnEndpoints, NEW a \in Gadgets
    PROVE  /\ \A s \in Default : \A e \in EpsOf[s] : Reset(a, {}).eps[e] > 0
           /\ \A s \in Settings :
                 /\ \A e \in EpsOf[s] : SetInterface(a, s, {}).eps[e] > 0
                 /\ \A x \in Settings : x[1] # s[1] =>
                       \A e \in EpsOf[x] : a.eps[e] > 0 => SetInterface(a, s, {}).eps[e] > 0
<1>1. a.eps \in [EpIds -> Nat] /\ a.active \subseteq Settings
  BY DEF Gadgets
<1>2. \A s \in Default : \A e \in EpsOf[s] : Reset(a, {}).eps[e] > 0
  <2>1. Without(a.eps, a.active) \in [EpIds -> Nat]
    BY <1>1, EpsTyped
  <2>2. Reset(a, {}).eps = With(Without(a.eps, a.active), Default, {})
    BY DEF Reset, EnableInterfaces, DisableInterfaces
  <2>3. Default \subseteq Settings
    BY DEF Default
  <2> QED
    BY <2>1, <2>2, <2>3, WithServes
<1>3. ASSUME NEW s \in Settings
      PROVE  /\ \A e \in EpsOf[s] : SetInterface(a, s, {}).eps[e] > 0
             /\ \A x \in Settings : x[1] # s[1] =>
                   \A e \in EpsOf[x] : a.eps[e] > 0 => SetInterface(a, s, {}).eps[e] > 0
  <2> DEFINE S   == SameInterface(s) \ {s}
             eps == Without(a.eps, S)
  <2>1. S \subseteq Settings /\ \A x \in S : x[1] = s[1]
    BY DEF SameInterface
  <2>2. eps \in [EpIds -> Nat]
    BY <1>1, <2>1, EpsTyped
  <2>3. SetInterface(a, s, {}).eps = With(eps, {s}, {})
    <3>1. {s} \cap Settings = {s}
      OBVIOUS
    <3> QED
      BY <3>1 DEF SetInterface, EnableInterfaces, DisableInterfaces
  <2>4. \A x \in Settings : x[1] # s[1] => \A e \in EpsOf[x] : eps[e] = a.eps[e] /\ e \in EpIds
    BY <1>1, <2>1, WithoutSpares, InterfacesAssumption, SMTT(30)
  <2> HIDE DEF eps
  <2>5. /\ \A e \in EpsOf[s] : With(eps, {s}, {})[e] > 0
        /\ \A e \in EpIds : eps[e] > 0 => With(eps, {s}, {})[e] > 0
    BY <2>2, WithServes
  <2> QED
    BY <2>3, <2>4, <2>5
<1> QED
  BY <1>2, <1>3

LEMMA NoFaults ==
    ASSUME OnlyStallsOrSends
    PROVE  \A kind \in FaultKinds \ {"stall", "send"} : ~Fault(kind)
  BY DEF OnlyStallsOrSends, Fault

\* Whatever may still be answered is the transfer going on,
LEMMA OnlyTheLast ==
    ASSUME IInv, Asks, NEW n \in Answering
    PROVE  Waiting /\ n = Len(issued) /\ n \in Sent
<1>1. /\ n \in Sent /\ Sent = 1..Len(issued) /\ Len(issued) \in Nat
      /\ DOMAIN outcome = Sent /\ Len(outcome) = Len(issued)
  BY AllSent, SentFacts DEF IInv
<1>2. 1..n \subseteq Sent
  BY <1>1
<1>3. outcome[n].end = "waiting"
  BY <1>1, <1>2, LateIsExcused DEF Asks, Excused
<1>4. n = Len(outcome)
  BY <1>1, <1>3 DEF IInv, Answers
<1>5. outcome # <<>>
  BY <1>1
<1> QED
  BY <1>1, <1>3, <1>4, <1>5 DEF Waiting, Last

\* ... and it is at one place.
LEMMA OnePlace ==
    ASSUME IInv, Asks
    PROVE  /\ \A n \in GIn \cup Asked \cup Queued \cup DIn \cup Replies :
                 Waiting /\ n = Len(issued) /\ n \in Sent
           /\ GIn \cup Asked \cup DIn \cup Replies # {} => queued = 0
           /\ queued \in Sent \/ queued = 0
<1>1. \A n \in GIn \cup Asked \cup Queued \cup DIn \cup Replies :
          Waiting /\ n = Len(issued) /\ n \in Sent
  BY OnlyTheLast DEF Answering
<1>2. ASSUME NEW n \in GIn \cup Asked \cup DIn \cup Replies, queued # 0
      PROVE  FALSE
  <2>1. queued \in Queued
    BY <1>2 DEF Queued
  <2>2. n = queued
    BY <1>1, <2>1
  <2>3. n \in Queued /\ Asked \subseteq GOut /\ Replies \subseteq Down
    BY <2>1, <2>2, AllSent
  <2>4. n \in GIn \cup Asked => n \in GIn \cup GOut
    BY <2>3
  <2>5. n \in DIn \cup Replies => n \in Ins /\ n \in DIn \cup Down
    BY <2>3 DEF IInv, RightKind
  <2> QED
    BY <2>3, <2>4, <2>5 DEF IInv, Apart
<1>3. queued \in Sent \/ queued = 0
  BY <1>1 DEF Queued
<1> QED
  BY <1>1, <1>2, <1>3

-----------------------------------------------------------------------------
(* What keeps its place *)

LEMMA HostSame ==
    ASSUME UNCHANGED <<issued, selected, queued>>
    PROVE  /\ Target' = Target /\ (Begun' <=> Begun)
           /\ \A n : SettingOf(n)' = SettingOf(n) /\ Kind(n)' = Kind(n)
           /\ UNCHANGED known => (Open' <=> Open)
           /\ UNCHANGED outcome /\ Asked' \subseteq Asked => (Stuck => Stuck')
<1>1. Sent' = Sent /\ Queued' = Queued
  BY DEF Sent, Queued
<1>2. \A n : SettingOf(n)' = SettingOf(n) /\ Kind(n)' = Kind(n) /\ (Choosing(n)' <=> Choosing(n))
  BY <1>1 DEF SettingOf, Kind, Choosing
<1>3. Target' = Target
  BY DEF Target, Choosing, Sent, Kind, SettingOf
<1>4. Begun' <=> Begun
  BY DEF Begun, Sent, Kind
<1>5. UNCHANGED known => (Open' <=> Open)
  BY DEF Open, Sent, Kind
<1>6. UNCHANGED outcome /\ Asked' \subseteq Asked => (Stuck => Stuck')
  BY <1>1, <1>2 DEF Stuck, Waiting
<1> QED
  BY <1>2, <1>3, <1>4, <1>5, <1>6

LEMMA AsksKept ==
    ASSUME Asks, UNCHANGED <<issued, outcome, known, selected>>,
           Queued' \cap Selecting \subseteq Valid,
           cur' = cur \/ Selecting # {},
           \A x \in Range(dOut') : x.status = "ok" /\ x.req \in Sent
    PROVE  Asks'
<1>1. Sent' = Sent /\ Selecting' = Selecting /\ Valid' = Valid
  BY RequestsRest
<1>2. Waiting' <=> Waiting
  BY DEF Waiting
<1>3. \A n \in DOMAIN outcome' : outcome'[n].end # "abandoned"
  BY DEF Asks
<1>4. Waiting' => LET k == Kind(Len(issued))'
                  IN  /\ k \in {"get_config", "set_config"} => selected' = {}
                      /\ k = "set_config" => known'
  BY <1>2 DEF Asks, Kind
<1>5. /\ selected' \subseteq Settings /\ (selected' = {} => Selecting' = {})
      /\ Selecting' = {} => cur' = Default
  BY <1>1 DEF Asks
<1> QED
  BY <1>1, <1>3, <1>4, <1>5 DEF Asks

LEMMA ComKept ==
    ASSUME ComAt, UNCHANGED <<issued, com, cur>>
    PROVE  ComAt'
  BY DEF ComAt, SettingOf

LEMMA GadgetKept ==
    ASSUME GadgetServes, UNCHANGED <<issued, outcome, known, selected, queued, g>>,
           Asked' \subseteq Asked
    PROVE  GadgetServes'
  BY HostSame DEF GadgetServes

LEMMA CurKept ==
    ASSUME CurFollows, UNCHANGED <<issued, cur>>, Target' = Target, Chosen' = Chosen
    PROVE  CurFollows'
  BY DEF CurFollows, SettingOf

LEMMA DriverKept ==
    ASSUME DriverServes, UNCHANGED <<issued, cur, conf, com, dEps>>, Begun' => Begun,
           SettingUp => SettingUp'
    PROVE  DriverServes'
  BY DEF DriverServes, About, SettingOf

\* A step that moves a request which selects nothing.
LEMMA Elsewhere ==
    ASSUME Serving,
           UNCHANGED <<issued, outcome, known, selected, queued, g, dOut, dEps, cur, com, conf>>,
           Asked' \subseteq Asked, Chosen' = Chosen, SettingUp => SettingUp'
    PROVE  Serving'
<1>1. Asks'
  BY AsksKept DEF Serving, Asks, Queued
<1>2. ComAt' /\ GadgetServes'
  BY ComKept, GadgetKept DEF Serving
<1>3. CurFollows'
  BY HostSame, CurKept DEF Serving
<1>4. DriverServes'
  BY HostSame, DriverKept DEF Serving
<1> QED
  BY <1>1, <1>2, <1>3, <1>4 DEF Serving

\* A request is added to those on their way to the driver, or none is.
LEMMA UpGrows ==
    ASSUME IInv, UNCHANGED <<issued, urbs, dOut>>, NEW n \in Sent,
           Up' = Up \cup {n}
    PROVE  /\ Chosen' = Chosen \cup (IF Kind(n) = "set_interface" THEN {n} ELSE {})
           /\ SettingUp => SettingUp'
           /\ Kind(n) = "set_config" => SettingUp'
<1>1. \A m : Kind(m)' = Kind(m)
  BY DEF Kind
<1>2. Chosen' = Chosen \cup (IF Kind(n) = "set_interface" THEN {n} ELSE {})
  BY <1>1 DEF Chosen
<1>3. Urbs' = Urbs
  BY DEF Urbs
<1>4. SettingUp => SettingUp'
  BY <1>1, <1>3 DEF SettingUp
<1> QED
  BY <1>1, <1>2, <1>3, <1>4 DEF SettingUp

-----------------------------------------------------------------------------
(* The gadget *)

LEMMA UpAppended ==
    ASSUME IInv, NEW n \in Sent, up' = Append(up, n)
    PROVE  Up' = Up \cup {n}
<1>1. up \in Seq(Setups) /\ n \in Setups
  BY SentFacts DEF IInv, Typed, QueuesTyped
<1> QED
  BY <1>1, AppendHolds DEF Up

\* A request that selects nothing is forwarded, or sending it fails.
LEMMA ForwardServes ==
    ASSUME IInv, Serving, NEW n \in Sent, Kind(n) # "set_interface", SendUp(n),
           UNCHANGED <<issued, outcome, known, selected, queued, g, urbs>>,
           UNCHANGED <<dOut, dEps, cur, com, conf>>, Asked' = Asked
    PROVE  Serving'
<1>1. CASE up' = Append(up, n)
  <2>1. Up' = Up \cup {n}
    BY <1>1, UpAppended
  <2>2. Chosen' = Chosen /\ (SettingUp => SettingUp')
    BY <2>1, UpGrows
  <2> QED
    BY <2>2, Elsewhere
<1>2. CASE UNCHANGED up
  <2>1. Chosen' = Chosen /\ (SettingUp => SettingUp')
    BY <1>2 DEF Chosen, SettingUp, Up, Urbs, Kind
  <2> QED
    BY <2>1, Elsewhere
<1> QED
  BY <1>1, <1>2 DEF SendUp

LEMMA SetupInServes ==
    ASSUME IInv, Serving, SetupIn
    PROVE  Serving'
<1> DEFINE n == Head(gIn)
<1>1. n \in GIn /\ n \in Ins /\ n \in Sent
  BY FromGIn DEF SetupIn, IInv, RightKind, Ins
<1>2. UNCHANGED <<issued, outcome, known, selected, queued, g, urbs, dOut, dEps, cur, com, conf>>
  BY DEF SetupIn, host, driver
<1>3. Asked' = Asked
  BY DEF SetupIn, Asked
<1>4. Kind(n) # "set_interface"
  BY <1>1 DEF Ins, IsIn
<1>5. SendUp(n)
  BY DEF SetupIn
<1> QED
  BY <1>1, <1>2, <1>3, <1>4, <1>5, ForwardServes

LEMMA OutDataServes ==
    ASSUME IInv, Serving, OutData
    PROVE  Serving'
<1> DEFINE n == Head(gOut).req
<1>1. n \in Puts /\ n \in Sent /\ Asked' = Asked
  BY FromGOut DEF OutData, IInv, RightKind, Puts
<1>2. UNCHANGED <<issued, outcome, known, selected, queued, g, urbs, dOut, dEps, cur, com, conf>>
  BY DEF OutData, host, driver
<1>3. Kind(n) # "set_interface"
  BY <1>1 DEF Puts
<1>4. SendUp(n)
  BY DEF OutData
<1> QED
  BY <1>1, <1>2, <1>3, <1>4, ForwardServes

\* A request is queued that selects no interface.
LEMMA QueuedPlain ==
    ASSUME IInv, Asks, UNCHANGED <<issued, outcome, known, selected>>, queued = 0,
           NEW n \in Sent, Kind(n) # "set_interface", queued' \in {0, n}, Asked' \subseteq Asked
    PROVE  /\ Target' = Target /\ (Stuck => Stuck')
           /\ Begun' => Begun \/ Kind(n) = "set_config"
           /\ Open' => Open \/ Kind(n) = "get_config"
           /\ Queued' \cap Selecting = {}
<1>1. Sent' = Sent /\ 0 \notin Sent
  BY SentFacts DEF Sent, IInv
<1>2. ~Choosing(queued) /\ ~Choosing(queued)'
  BY <1>1 DEF Choosing, Kind
<1>3. Target' = Target
  BY <1>2 DEF Target
<1>4. Stuck => Stuck'
  <2>1. \A k : Choosing(k)' <=> Choosing(k)
    BY <1>1 DEF Choosing, Kind
  <2>2. ~Choosing(n) /\ Queued' \subseteq {n}
    BY DEF Choosing, Queued
  <2> QED
    BY <2>1, <2>2 DEF Stuck, Waiting
<1>5. Begun' => Begun \/ Kind(n) = "set_config"
  BY <1>1 DEF Begun, Kind
<1>6. Open' => Open \/ Kind(n) = "get_config"
  BY <1>1 DEF Open, Kind
<1>7. Queued' \cap Selecting = {}
  BY DEF Queued, Selecting
<1> QED
  BY <1>3, <1>4, <1>5, <1>6, <1>7

LEMMA SetupPutServes ==
    ASSUME OnlyStallsOrSends, IInv, Serving, SetupPut
    PROVE  Serving'
<1> DEFINE n == Head(gOut).req
<1>1. n \in Asked /\ n \in Sent /\ Kind(n) = "put" /\ Asked' \subseteq Asked
  BY FromGOut, AllSent DEF SetupPut
<1>2. queued = 0 /\ queued' \in {0, n}
  BY <1>1, OnePlace DEF SetupPut, Queue, Serving
<1>3. UNCHANGED <<issued, outcome, known, selected, g, up, urbs, dOut, dEps, cur, com, conf>>
  BY DEF SetupPut, host, driver
<1>4. /\ Target' = Target /\ (Stuck => Stuck') /\ (Begun' => Begun) /\ (Open' => Open)
      /\ Queued' \cap Selecting = {}
  BY <1>1, <1>2, <1>3, QueuedPlain DEF Serving
<1>5. Chosen' = Chosen /\ (SettingUp => SettingUp')
  BY <1>3 DEF Chosen, SettingUp, Up, Urbs, Kind
<1>6. Asks'
  BY <1>3, <1>4, AsksKept DEF Serving, Asks
<1>7. GadgetServes'
  BY <1>3, <1>4 DEF Serving, GadgetServes
<1> QED
  BY <1>3, <1>4, <1>5, <1>6, <1>7, ComKept, CurKept, DriverKept DEF Serving

LEMMA SetupDatalessServes ==
    ASSUME OnlyStallsOrSends, OwnEndpoints, IInv, Serving, SetupDataless
    PROVE  Serving'
<1> DEFINE n == Head(gOut).req
           s == SettingOf(n)
<1>1. n \in Asked /\ n \in Sent /\ Dataless(n) /\ Asked' \subseteq Asked /\ n \notin Asked'
  <2>1. Asked' \subseteq GOut'
    BY DEF Asked, GOut, ReqsOf
  <2> QED
    BY <2>1, FromGOut, AllSent DEF SetupDataless
<1>2. queued = 0 /\ Waiting /\ n = Len(issued) /\ 0 \notin Sent
  BY <1>1, OnePlace, SentFacts DEF Serving, IInv
<1>3. UNCHANGED <<issued, outcome, known, selected, urbs, dOut, dEps, cur, com, conf>>
  BY DEF SetupDataless, host, driver
<1>4. Failures = {{}} /\ ~Fault("submit")
  BY NoFaults DEF Failures, FaultKinds
<1>5. \/ Kind(n) # "set_interface" /\ g' = g /\ up' = Append(up, n) /\ Queue(n)
      \/ /\ Kind(n) = "set_interface" /\ g' = SetInterface(g, s, {}) /\ s \in Settings
         /\ up' = Append(up, n) /\ Queue(n)
      \/ Kind(n) = "set_interface" /\ UNCHANGED <<up, queued>>
      \/ g' = g /\ UNCHANGED <<up, queued>>
  BY <1>4 DEF SetupDataless, SettingOf
<1>6. CASE Kind(n) # "set_interface" /\ g' = g /\ up' = Append(up, n) /\ Queue(n)
  <2>1. queued' \in {0, n}
    BY <1>2, <1>6 DEF Queue
  <2>2. Up' = Up \cup {n}
    BY <1>1, <1>6, UpAppended
  <2>3. Chosen' = Chosen /\ (SettingUp => SettingUp') /\ (Kind(n) = "set_config" => SettingUp')
    BY <1>1, <1>3, <1>6, <2>2, UpGrows
  <2>4. Kind(n) # "get_config"
    BY <1>1 DEF Dataless
  <2>5. /\ Target' = Target /\ (Stuck => Stuck')
        /\ Begun' => Begun \/ Kind(n) = "set_config"
        /\ Open' => Open
        /\ Queued' \cap Selecting = {}
    BY <1>1, <1>2, <1>3, <1>6, <2>1, <2>4, QueuedPlain DEF Serving
  <2>6. Asks'
    BY <1>3, <2>5, AsksKept DEF Serving, Asks
  <2>7. GadgetServes'
    BY <1>6, <2>5 DEF Serving, GadgetServes
  <2>8. DriverServes'
    <3>1. CASE Kind(n) = "set_config"
      BY <2>3, <3>1 DEF DriverServes, About
    <3>2. CASE Kind(n) # "set_config"
      BY <1>3, <2>3, <2>5, <3>2, DriverKept DEF Serving
    <3> QED
      BY <3>1, <3>2
  <2> QED
    BY <1>3, <2>3, <2>5, <2>6, <2>7, <2>8, ComKept, CurKept DEF Serving
<1>7. CASE /\ Kind(n) = "set_interface" /\ g' = SetInterface(g, s, {}) /\ s \in Settings
           /\ up' = Append(up, n) /\ Queue(n)
  <2>1. queued' = n
    BY <1>2, <1>4, <1>7 DEF Queue
  <2>2. Up' = Up \cup {n}
    BY <1>1, <1>7, UpAppended
  <2>3. Chosen' = Chosen \cup {n} /\ (SettingUp => SettingUp')
    BY <1>1, <1>3, <1>7, <2>2, UpGrows
  <2>4. n \in Selecting /\ n \in Valid
    BY <1>1, <1>7 DEF Selecting, Valid, SettingOf
  <2>5. selected # {} /\ selected \subseteq Settings
    BY <2>4 DEF Serving, Asks
  <2>6. Target = selected /\ Target' = {x \in selected : x[1] # s[1]} \cup {s}
    <3>1. ~Choosing(queued)
      BY <1>2 DEF Choosing
    <3>2. Choosing(queued)' /\ SettingOf(queued)' = s
      BY <1>1, <1>3, <1>7, <2>1 DEF Choosing, Sent, Kind, SettingOf
    <3> QED
      BY <1>3, <2>5, <3>1, <3>2 DEF Target
  <2>7. Asks'
    <3>1. Queued' \cap Selecting \subseteq Valid
      BY <2>1, <2>4 DEF Queued
    <3> QED
      BY <1>3, <3>1, AsksKept DEF Serving, Asks
  <2>8. GadgetServes'
    <3>1. \A x \in selected : \A e \in EpsOf[x] : g.eps[e] > 0
      <4>1. Open /\ ~Stuck
        BY <1>1, <1>2, <2>5 DEF Open, Stuck
      <4> QED
        BY <2>6, <4>1 DEF Serving, GadgetServes
    <3>2. g \in Gadgets
      BY DEF IInv, Typed, RestTyped
    <3>3. \A x \in Target' : \A e \in EpsOf[x] : g'.eps[e] > 0
      BY <1>7, <2>5, <2>6, <3>1, <3>2, GadgetChanges
    <3> QED
      BY <3>3 DEF GadgetServes
  <2>9. CurFollows'
    <3>1. \A k : SettingOf(k)' = SettingOf(k)
      BY <1>3 DEF SettingOf
    <3>2. \A k \in Chosen : k <= n
      <4>1. Chosen \subseteq Sent /\ Sent = 1..Len(issued)
        BY AllSent, SentFacts DEF Chosen, IInv
      <4> QED
        BY <1>2, <4>1
    <3>3. n <= n
      BY <1>1, SentFacts DEF IInv
    <3>4. ASSUME NEW x \in Target'
          PROVE  \/ x \in cur /\ \A k \in Chosen' : SettingOf(k)[1] # x[1]
                 \/ \E k \in Chosen' : /\ SettingOf(k) = x
                                       /\ \A m \in Chosen' : SettingOf(m)[1] = x[1] => m <= k
      <4>1. CASE x = s
        <5>1. n \in Chosen' /\ SettingOf(n) = x /\ \A m \in Chosen' : m <= n
          BY <2>3, <3>2, <3>3, <4>1
        <5> QED
          BY <5>1
      <4>2. CASE x # s
        <5>1. x \in Target /\ SettingOf(n)[1] # x[1]
          BY <2>6, <4>2
        <5> QED
          BY <2>3, <5>1 DEF Serving, CurFollows
      <4> QED
        BY <4>1, <4>2
    <3> QED
      BY <1>3, <3>1, <3>4 DEF CurFollows
  <2>10. DriverServes'
    <3>1. Begun
      BY <2>5 DEF Begun
    <3> QED
      BY <1>3, <2>3, <3>1, DriverKept DEF Serving
  <2> QED
    BY <1>3, <2>7, <2>8, <2>9, <2>10, ComKept DEF Serving
<1>8. CASE Kind(n) = "set_interface" /\ UNCHANGED <<up, queued>>
  <2>1. Stuck'
    <3>1. Waiting' /\ Choosing(Len(issued))'
      BY <1>1, <1>2, <1>3, <1>8 DEF Waiting, Choosing, Sent, Kind
    <3>2. n \notin Queued' /\ n \notin Asked' /\ n = Len(issued)'
      BY <1>1, <1>2, <1>3, <1>8 DEF Queued
    <3> QED
      BY <3>1, <3>2 DEF Stuck
  <2>2. GadgetServes'
    BY <2>1 DEF GadgetServes
  <2>3. Chosen' = Chosen /\ (SettingUp => SettingUp')
    BY <1>3, <1>8 DEF Chosen, SettingUp, Up, Urbs, Kind
  <2>4. Asks'
    BY <1>3, <1>8, AsksKept DEF Serving, Asks, Queued
  <2> QED
    BY <1>3, <1>8, <2>2, <2>3, <2>4, HostSame, ComKept, CurKept, DriverKept DEF Serving
<1>9. CASE g' = g /\ UNCHANGED <<up, queued>>
  <2>1. Chosen' = Chosen /\ (SettingUp => SettingUp')
    BY <1>3, <1>9 DEF Chosen, SettingUp, Up, Urbs, Kind
  <2> QED
    BY <1>1, <1>3, <1>9, <2>1, Elsewhere
<1> QED
  BY <1>5, <1>6, <1>7, <1>8, <1>9

LEMMA RecvReplyServes ==
    ASSUME OnlyStallsOrSends, OwnEndpoints, IInv, Serving, RecvReply
    PROVE  Serving'
<1> DEFINE n == Head(down).req
<1>1. n \in Replies /\ n \in Ins /\ n \in Sent
  BY FromDown DEF RecvReply, IInv, RightKind, Ins
<1>2. queued = 0 /\ Waiting /\ n = Len(issued)
  BY <1>1, OnePlace DEF Serving
<1>3. UNCHANGED <<issued, outcome, known, selected, up, urbs, dOut, dEps, cur, com, conf>>
  BY DEF RecvReply, host, driver
<1>4. Failures = {{}}
  BY NoFaults DEF Failures, FaultKinds
<1>5. /\ g' = IF Kind(n) = "get_config" THEN Reset(g, {}) ELSE g
      /\ queued' \in {0, n} /\ Asked' = Asked
  BY <1>2, <1>4 DEF RecvReply, Queue, Asked
<1>6. Kind(n) # "set_interface" /\ Kind(n) # "set_config"
  BY <1>1 DEF Ins, IsIn
<1>7. /\ Target' = Target /\ (Stuck => Stuck') /\ (Begun' => Begun)
      /\ Open' => Open \/ Kind(n) = "get_config"
      /\ Queued' \cap Selecting = {}
  BY <1>1, <1>2, <1>3, <1>5, <1>6, QueuedPlain DEF Serving
<1>8. Chosen' = Chosen /\ (SettingUp => SettingUp')
  BY <1>3 DEF Chosen, SettingUp, Up, Urbs, Kind
<1>9. Asks'
  BY <1>3, <1>7, AsksKept DEF Serving, Asks
<1>10. GadgetServes'
  <2>1. CASE Kind(n) = "get_config"
    <3>1. Target = Default
      BY <1>2, <2>1 DEF Serving, Asks, Target
    <3>2. g \in Gadgets
      BY DEF IInv, Typed, RestTyped
    <3> QED
      BY <1>5, <1>7, <2>1, <3>1, <3>2, GadgetChanges DEF GadgetServes
  <2>2. CASE Kind(n) # "get_config"
    BY <1>5, <1>7, <2>2 DEF Serving, GadgetServes
  <2> QED
    BY <2>1, <2>2
<1> QED
  BY <1>3, <1>7, <1>8, <1>9, <1>10, ComKept, CurKept, DriverKept DEF Serving

\* The transfer going on has ended.
LEMMA LastEnded ==
    ASSUME IInv, Waiting, NEW how \in {"answered", "stalled"}, NEW n, End(how, n),
           \A k \in DOMAIN outcome : outcome[k].end # "abandoned"
    PROVE  ~Waiting' /\ \A k \in DOMAIN outcome' : outcome'[k].end # "abandoned"
<1> DEFINE w == Len(outcome)
<1>1. w \in DOMAIN outcome /\ outcome \in Seq(Outcomes)
  BY WaitingIs, SentFacts DEF IInv, Typed, HostTyped
<1>2. outcome' = [outcome EXCEPT ![w] = [end |-> how, by |-> n]] /\ DOMAIN outcome' = DOMAIN outcome
  BY DEF End
<1>3. Len(outcome') = w
  BY <1>1, <1>2
<1>4. outcome'[w].end = how
  BY <1>1, <1>2
<1>5. ~Waiting'
  BY <1>3, <1>4 DEF Waiting, Last
<1>6. \A k \in DOMAIN outcome' : outcome'[k].end # "abandoned"
  BY <1>1, <1>2, <1>4
<1> QED
  BY <1>5, <1>6

LEMMA RecvAckServes ==
    ASSUME IInv, Serving, RecvAck
    PROVE  Serving'
<1> DEFINE n == Head(down).req
<1>1. UNCHANGED <<issued, known, selected, queued, g, up, urbs, dOut, dEps, cur, com, conf>>
  BY DEF RecvAck, gadget, driver
<1>2. Chosen' = Chosen /\ (SettingUp => SettingUp')
  BY <1>1 DEF Chosen, SettingUp, Up, Urbs, Kind
<1>3. CASE UNCHANGED outcome
  <2>1. Asked' = Asked
    BY DEF RecvAck, gadget, Asked
  <2> QED
    BY <1>1, <1>2, <1>3, <2>1, Elsewhere
<1>4. CASE Head(down).type = "stall" /\ End("stalled", n)
  <2>1. n \in Replies /\ n \in Ins
    BY <1>4, FromDown DEF RecvAck, IInv, RightKind
  <2>2. n = Len(issued) /\ Waiting
    BY <2>1, OnePlace DEF Serving
  <2>3. ~Stuck
    BY <2>1, <2>2 DEF Stuck, Choosing, Ins, IsIn
  <2>4. ~Waiting' /\ \A k \in DOMAIN outcome' : outcome'[k].end # "abandoned"
    BY <1>4, <2>2, LastEnded DEF Serving, Asks
  <2>5. Asks'
    <3>1. Sent' = Sent /\ Selecting' = Selecting /\ Valid' = Valid /\ Queued' = Queued
      BY <1>1 DEF Sent, Selecting, Valid, Kind, Queued
    <3> QED
      BY <1>1, <2>4, <3>1 DEF Serving, Asks
  <2>6. GadgetServes'
    BY <1>1, <2>3, HostSame DEF Serving, GadgetServes
  <2> QED
    BY <1>1, <1>2, <2>5, <2>6, HostSame, ComKept, CurKept, DriverKept DEF Serving
<1> QED
  BY <1>3, <1>4 DEF RecvAck

-----------------------------------------------------------------------------
(* The host *)

LEMMA HostTakesServes ==
    ASSUME IInv, Serving, HostTakes
    PROVE  Serving'
<1> DEFINE n == queued
           s == SettingOf(n)
<1>1. UNCHANGED <<issued, g, up, urbs, dOut, dEps, cur, com, conf>> /\ queued' = 0
  BY DEF HostTakes, driver
<1>2. n \in Queued /\ n = Len(issued) /\ n \in Sent /\ Waiting /\ 0 \notin Sent
  BY OnePlace, SentFacts DEF HostTakes, Queued, Serving, IInv
<1>3. /\ Last(issued) = issued[n]
      /\ known' = (known \/ Kind(n) = "get_config")
      /\ \/ Kind(n) = "set_config" /\ selected' = Default
         \/ /\ Kind(n) = "set_interface"
            /\ selected' = {x \in selected : x[1] # s[1]} \cup {s}
         \/ Kind(n) \notin {"set_config", "set_interface"} /\ selected' = selected
  <2>1. Last(issued) = issued[n]
    BY <1>2 DEF Last
  <2> QED
    BY <2>1 DEF HostTakes, Kind, SettingOf
<1>4. Chosen' = Chosen /\ (SettingUp => SettingUp')
  BY <1>1 DEF Chosen, SettingUp, Up, Urbs, Kind
<1>5. /\ Kind(n) = "set_config" => selected = {} /\ known
      /\ Kind(n) = "set_interface" => selected # {} /\ s \in Settings /\ ~Stuck
      /\ ~Stuck
  <2>1. Kind(n) = "set_config" => selected = {} /\ known
    BY <1>2 DEF Serving, Asks
  <2>2. Kind(n) = "set_interface" => selected # {} /\ s \in Settings
    BY <1>2 DEF Serving, Asks, Selecting, Valid, SettingOf
  <2>3. ~Stuck
    BY <1>2 DEF Stuck
  <2> QED
    BY <2>1, <2>2, <2>3
<1>6. Target' = Target
  <2>1. ~Choosing(queued)'
    BY <1>1, <1>2 DEF Choosing, Sent
  <2>2. Choosing(queued) <=> Kind(n) = "set_interface"
    BY <1>2 DEF Choosing
  <2>3. CASE Kind(n) = "set_config"
    BY <1>3, <1>5, <2>1, <2>3 DEF Target
  <2>4. CASE Kind(n) = "set_interface"
    <3>1. selected' # {} /\ selected' = {x \in selected : x[1] # s[1]} \cup {s}
      BY <1>3, <2>4
    <3> QED
      BY <1>5, <2>1, <2>2, <2>4, <3>1 DEF Target
  <2>5. CASE Kind(n) \notin {"set_config", "set_interface"}
    BY <1>3, <2>1, <2>2, <2>5 DEF Target
  <2> QED
    BY <2>3, <2>4, <2>5
<1>7. (Open' => Open) /\ (Begun' => Begun)
  <2>1. queued' \notin Sent'
    BY <1>1, <1>2 DEF Sent
  <2> QED
    BY <1>2, <1>3, <1>5, <2>1 DEF Open, Begun
<1>8. Asks'
  <2>1. ~Waiting' /\ \A k \in DOMAIN outcome' : outcome'[k].end # "abandoned"
    BY <1>2, LastEnded DEF HostTakes, Serving, Asks
  <2>2. Sent' = Sent /\ Selecting' = Selecting /\ Valid' = Valid /\ Queued' = {}
    BY <1>1 DEF Sent, Selecting, Valid, Kind, Queued
  <2>3. selected' \subseteq Settings /\ (selected' = {} => selected = {})
    <3>1. selected \subseteq Settings /\ Default \subseteq Settings
      BY DEF Serving, Asks, Default
    <3> QED
      BY <1>3, <1>5, <3>1
  <2> QED
    BY <1>1, <2>1, <2>2, <2>3 DEF Serving, Asks
<1>9. GadgetServes'
  BY <1>1, <1>5, <1>6, <1>7 DEF Serving, GadgetServes
<1> QED
  BY <1>1, <1>4, <1>6, <1>7, <1>8, <1>9, ComKept, CurKept, DriverKept DEF Serving

LEMMA HostSetupServes ==
    ASSUME OnlyStallsOrSends, IInv, Serving, NEW r \in Requests, HostSetup(r)
    PROVE  Serving'
<1> DEFINE n == Len(issued')
<1>1. UNCHANGED <<known, selected, queued, g, up, urbs, dOut, dEps, cur, com, conf>>
  BY DEF HostSetup, driver
<1>2. queued = 0 /\ ~Waiting
  <2>1. ~Waiting
    BY DEF HostSetup
  <2>2. queued \notin Queued
    BY <2>1, OnePlace DEF Serving
  <2> QED
    BY <2>1, <2>2 DEF Queued
<1>3. ~Fault("submit") /\ ~Fault("again")
  BY NoFaults DEF FaultKinds
<1>4. /\ issued \in Seq(Requests) /\ issued' = Append(issued, r)
      /\ outcome \in Seq(Outcomes) /\ Len(outcome) = Len(issued) /\ Len(issued) \in Nat
      /\ [end |-> "waiting", by |-> 0] \in Outcomes
      /\ outcome' = Append(outcome, [end |-> "waiting", by |-> 0])
  <2>1. [end |-> "waiting", by |-> 0] \in Outcomes
    BY DEF Outcomes
  <2>2. issued \in Seq(Requests) /\ outcome \in Seq(Outcomes) /\ Len(outcome) = Len(issued)
    BY DEF IInv, Typed, HostTyped
  <2>3. Len(issued) \in Nat
    BY <2>2, LenProperties
  <2> QED
    BY <1>3, <2>1, <2>2, <2>3 DEF HostSetup
<1>5. /\ n = Len(issued) + 1 /\ issued'[n] = r /\ Sent = 1..Len(issued) /\ Sent' = Sent \cup {n}
      /\ \A k \in Sent : issued'[k] = issued[k]
  <2>1. /\ issued' \in Seq(Requests) /\ n = Len(issued) + 1 /\ issued'[n] = r
        /\ \A k \in 1..Len(issued) : issued'[k] = issued[k]
    BY <1>4, AppendProperties
  <2>2. DOMAIN issued' = 1..n /\ DOMAIN issued = 1..Len(issued)
    BY <1>4, <2>1, LenProperties
  <2>3. 1..n = 1..Len(issued) \cup {n}
    BY <1>4, <2>1
  <2> QED
    BY <2>1, <2>2, <2>3 DEF Sent
<1>6. \A k \in Sent : Kind(k)' = Kind(k) /\ SettingOf(k)' = SettingOf(k)
  BY <1>5 DEF Kind, SettingOf
<1>7. 0 \notin Sent /\ 0 \notin Sent'
  BY <1>4, <1>5
<1>8. Target' = Target /\ (Open' => Open) /\ (Begun' => Begun)
  BY <1>1, <1>2, <1>7 DEF Target, Choosing, Open, Begun
<1>9. \A x \in Range(dOut) : x.req \in Sent
  BY DEF Serving, Asks
<1>10. Chosen' = Chosen /\ (SettingUp => SettingUp')
  <2>1. Up' = Up /\ Urbs' = Urbs /\ Up \subseteq Sent /\ Urbs \subseteq Sent
    BY <1>1, AllSent DEF Up, Urbs
  <2>2. Chosen' = Chosen
    BY <1>6, <2>1 DEF Chosen
  <2> QED
    BY <1>1, <1>6, <1>9, <2>1, <2>2 DEF SettingUp
<1>11. Asks'
  <2>1. /\ outcome' \in Seq(Outcomes) /\ Len(outcome') = Len(outcome) + 1
        /\ outcome'[Len(outcome) + 1] = [end |-> "waiting", by |-> 0]
        /\ \A k \in 1..Len(outcome) : outcome'[k] = outcome[k]
    BY <1>4, AppendProperties
  <2>2. DOMAIN outcome' = 1..(Len(outcome) + 1) /\ DOMAIN outcome = 1..Len(outcome)
    BY <1>4, <2>1, LenProperties
  <2>3. \A k \in DOMAIN outcome' : outcome'[k].end # "abandoned"
    <3>1. \A k \in DOMAIN outcome' : k \in DOMAIN outcome \/ k = Len(outcome) + 1
      BY <1>4, <2>2
    <3>2. \A k \in DOMAIN outcome : outcome[k].end # "abandoned"
      BY DEF Serving, Asks
    <3> QED
      BY <2>1, <2>2, <3>1, <3>2
  <2>4. Kind(Len(issued))' = r.kind
    BY <1>5 DEF Kind
  <2>5. /\ r.kind \in {"get_config", "set_config"} => selected = {}
        /\ r.kind = "set_config" => known
        /\ r.kind = "set_interface" => selected # {}
    BY <1>3 DEF HostSetup, Allowed
  <2>6. /\ Selecting \subseteq Selecting' 
        /\ \A k \in Selecting' : k \in Selecting \/ r.kind = "set_interface"
    <3>1. \A k \in Sent : k \in Selecting' <=> k \in Selecting
      BY <1>5, <1>6 DEF Selecting
    <3>2. n \in Selecting' => r.kind = "set_interface"
      BY <1>5 DEF Selecting, Kind
    <3>3. Selecting \subseteq Sent /\ Selecting' \subseteq Sent \cup {n}
      BY <1>5 DEF Selecting
    <3> QED
      BY <3>1, <3>2, <3>3
  <2>7. selected' = {} => Selecting' = {}
    BY <1>1, <2>5, <2>6 DEF Serving, Asks
  <2>8. Selecting' = {} => cur' = Default
    BY <1>1, <2>6 DEF Serving, Asks
  <2>9. Queued' = {}
    BY <1>1, <1>2 DEF Queued
  <2>10. \A x \in Range(dOut') : x.status = "ok" /\ x.req \in Sent'
    BY <1>1, <1>5 DEF Serving, Asks
  <2>11. selected' \subseteq Settings
    BY <1>1 DEF Serving, Asks
  <2> QED
    BY <1>1, <2>3, <2>4, <2>5, <2>7, <2>8, <2>9, <2>10, <2>11 DEF Asks
<1>12. ComAt'
  <2>1. com.at # "idle" => com.req \in Sent
    BY AllSent DEF Coming
  <2> QED
    BY <1>1, <1>6, <2>1 DEF Serving, ComAt
<1>13. GadgetServes'
  <2>1. ~Stuck
    BY <1>2 DEF Stuck
  <2> QED
    BY <1>1, <1>8, <2>1 DEF Serving, GadgetServes
<1>14. CurFollows'
  <2>1. \A k \in Chosen : SettingOf(k)' = SettingOf(k)
    BY <1>6, AllSent DEF Chosen
  <2> QED
    BY <1>1, <1>8, <1>10, <2>1 DEF Serving, CurFollows
<1>15. DriverServes'
  <2>1. com.at # "idle" => SettingOf(com.req)' = SettingOf(com.req)
    BY <1>1, <1>6, AllSent DEF Coming
  <2>2. \A s : About(s) => About(s)'
    BY <1>1, <1>10, <2>1 DEF About
  <2> QED
    BY <1>1, <1>8, <2>2 DEF Serving, DriverServes
<1> QED
  BY <1>11, <1>12, <1>13, <1>14, <1>15 DEF Serving

-----------------------------------------------------------------------------
(* The driver and the device *)

LEMMA RecvRequestServes ==
    ASSUME OnlyStallsOrSends, IInv, Serving, RecvRequest
    PROVE  Serving'
<1> DEFINE n == Head(up)
<1>1. UNCHANGED <<issued, outcome, known, selected, queued, g, dOut, dEps, cur, com, conf>>
      /\ Asked' = Asked
  BY DEF RecvRequest, host, gadget, Asked
<1>2. Up = Up' \cup {n} /\ n \in Setups /\ Kind(n) # "set_interface"
  BY FromUp DEF RecvRequest
<1>3. urbs' = Append(urbs, n)
  BY NoFaults DEF RecvRequest, FaultKinds
<1>4. Urbs' = Urbs \cup {n}
  <2>1. urbs \in Seq(Setups)
    BY DEF IInv, Typed, QueuesTyped
  <2> QED
    BY <1>2, <1>3, <2>1, AppendHolds DEF Urbs
<1>5. \A k : Kind(k)' = Kind(k)
  BY <1>1 DEF Kind
<1>6. Chosen' = Chosen
  BY <1>2, <1>5 DEF Chosen
<1>7. SettingUp => SettingUp'
  BY <1>1, <1>2, <1>4, <1>5 DEF SettingUp
<1> QED
  BY <1>1, <1>6, <1>7, Elsewhere

LEMMA CompleteServes ==
    ASSUME OnlyStallsOrSends, IInv, Serving, NEW status \in {"ok", "EPIPE", "error"},
           Complete(status)
    PROVE  Serving'
<1> DEFINE n    == Head(urbs)
           item == [req |-> n, status |-> status]
<1>1. UNCHANGED <<issued, outcome, known, selected, queued, g, up, dEps, cur, com, conf>>
      /\ Asked' = Asked
  BY DEF Complete, host, gadget, Asked
<1>2. Urbs = Urbs' \cup {n} /\ n \in Urbs /\ n \in Sent
  BY FromUrbs, AllSent DEF Complete
<1>3. ~Fault("error") /\ ~Fault("refuse")
  BY NoFaults DEF FaultKinds
<1>4. status # "error" /\ (status = "EPIPE" => IsIn(n))
  BY <1>3 DEF Complete
<1>5. \A k : Kind(k)' = Kind(k)
  BY <1>1 DEF Kind
<1>6. Chosen' = Chosen /\ Up' = Up
  BY <1>1, <1>5 DEF Chosen, Up
<1>7. CASE IsIn(n)
  <2>1. UNCHANGED dOut /\ Kind(n) # "set_config"
    BY <1>7 DEF Complete, IsIn
  <2>2. SettingUp => SettingUp'
    BY <1>2, <1>5, <1>6, <2>1 DEF SettingUp
  <2> QED
    BY <1>1, <1>6, <2>1, <2>2, Elsewhere
<1>8. CASE ~IsIn(n)
  <2>1. status = "ok" /\ dOut' = Append(dOut, item)
    BY <1>4, <1>8 DEF Complete
  <2>2. Range(dOut') = Range(dOut) \cup {item}
    <3>1. dOut \in Seq(InItems) /\ item \in InItems
      BY <1>2, SentFacts DEF IInv, Typed, QueuesTyped, InItems
    <3> QED
      BY <2>1, <3>1, AppendHolds
  <2>3. SettingUp => SettingUp'
    BY <1>2, <1>5, <1>6, <2>1, <2>2 DEF SettingUp
  <2>4. Asks'
    <3>1. \A x \in Range(dOut') : x.status = "ok" /\ x.req \in Sent
      BY <1>2, <2>1, <2>2 DEF Serving, Asks
    <3>2. Queued' \cap Selecting \subseteq Valid
      BY <1>1 DEF Serving, Asks, Queued
    <3> QED
      BY <1>1, <3>1, <3>2, AsksKept DEF Serving
  <2> QED
    BY <1>1, <1>6, <2>3, <2>4, HostSame, ComKept, GadgetKept, CurKept, DriverKept DEF Serving
<1> QED
  BY <1>7, <1>8

LEMMA WorkInServes ==
    ASSUME Serving, WorkIn
    PROVE  Serving'
<1>1. /\ UNCHANGED <<issued, outcome, known, selected, queued, g, dOut, dEps, cur, com, conf>>
      /\ UNCHANGED <<up, urbs>> /\ Asked' = Asked
  BY DEF WorkIn, host, gadget, Asked
<1>2. Chosen' = Chosen /\ (SettingUp => SettingUp')
  BY <1>1 DEF Chosen, SettingUp, Up, Urbs, Kind
<1> QED
  BY <1>1, <1>2, Elsewhere

LEMMA WorkOutServes ==
    ASSUME IInv, Serving, WorkOut
    PROVE  Serving'
<1> DEFINE x == Head(dOut)
<1>1. UNCHANGED <<issued, outcome, known, selected, queued, g, up, urbs, cur, com>>
      /\ Asked' = Asked
  BY DEF WorkOut, host, gadget, Asked
<1>2. Range(dOut) = Range(dOut') \cup {x}
  <2>1. dOut \in Seq(InItems)
    BY DEF IInv, Typed, QueuesTyped
  <2> QED
    BY <2>1, TailHolds DEF WorkOut
<1>3. \A k : Kind(k)' = Kind(k)
  BY <1>1 DEF Kind
<1>4. Chosen' = Chosen /\ Up' = Up /\ Urbs' = Urbs
  BY <1>1, <1>3 DEF Chosen, Up, Urbs
<1>5. Asks'
  <2>1. \A y \in Range(dOut') : y.status = "ok" /\ y.req \in Sent
    BY <1>2 DEF Serving, Asks
  <2>2. Queued' \cap Selecting \subseteq Valid
    BY <1>1 DEF Serving, Asks, Queued
  <2> QED
    BY <1>1, <2>1, <2>2, AsksKept DEF Serving
<1>6. DriverServes'
  <2>1. CASE x.status = "ok" /\ Kind(x.req) = "set_config"
    <3>1. conf'.at = "read"
      BY <2>1 DEF WorkOut, Idle
    <3> QED
      BY <3>1 DEF DriverServes, About
  <2>2. CASE ~(x.status = "ok" /\ Kind(x.req) = "set_config")
    <3>1. SettingUp => SettingUp'
      BY <1>2, <1>3, <1>4, <2>2 DEF SettingUp
    <3>2. UNCHANGED <<dEps, conf>>
      BY <2>2 DEF WorkOut
    <3> QED
      BY <1>1, <3>1, <3>2, HostSame, DriverKept DEF Serving
  <2> QED
    BY <2>1, <2>2
<1> QED
  BY <1>1, <1>4, <1>5, <1>6, HostSame, ComKept, GadgetKept, CurKept DEF Serving

\* SET_CONFIGURATION and SET_INTERFACE go on at the driver.
LEMMA DriverSteps ==
    ASSUME Serving,
           UNCHANGED <<issued, outcome, known, selected, queued, g, up, urbs, dOut, cur>>,
           Asked' = Asked
    PROVE  /\ Asks' /\ GadgetServes' /\ CurFollows'
           /\ (Begun' => Begun) /\ (SettingUp => SettingUp')
           /\ \A n : SettingOf(n)' = SettingOf(n)
<1>1. Chosen' = Chosen /\ (SettingUp => SettingUp')
  BY DEF Chosen, SettingUp, Up, Urbs, Kind
<1>2. Asks'
  BY AsksKept DEF Serving, Asks, Queued
<1> QED
  BY <1>1, <1>2, HostSame, GadgetKept, CurKept DEF Serving

LEMMA SetConfigReadServes ==
    ASSUME Serving, IInv, SetConfigRead
    PROVE  Serving'
<1>1. UNCHANGED <<issued, outcome, known, selected, queued, g, up, urbs, dOut, cur>>
      /\ UNCHANGED com /\ Asked' = Asked
  BY DEF SetConfigRead, host, gadget, Asked
<1>2. conf \in Steps
  BY DEF IInv, Typed, RestTyped
<1>3. conf'.at = "enable" /\ conf'.settings = cur
  BY <1>2 DEF SetConfigRead, Steps
<1>4. DriverServes'
  BY <1>1, <1>3 DEF DriverServes, About
<1> QED
  BY <1>1, <1>4, DriverSteps, ComKept DEF Serving

\* Setting up endpoints takes none away.
LEMMA MoreServes ==
    ASSUME IInv, DriverServes, NEW S, S \subseteq Settings, dEps' = With(dEps, S, {}),
           UNCHANGED cur, Begun' => Begun,
           \A s \in cur : About(s) => s \in S \/ About(s)'
    PROVE  DriverServes'
<1>1. dEps \in [EpIds -> Nat] /\ cur \subseteq Settings
  BY DEF IInv, Typed, RestTyped
<1>2. \A s \in Settings : EpsOf[s] \subseteq EpIds
  BY InterfacesAssumption
<1> SUFFICES ASSUME Begun, NEW s \in cur, ~About(s)' PROVE \A e \in EpsOf[s] : dEps'[e] > 0
  BY DEF DriverServes
<1>3. CASE s \in S
  BY <1>1, <1>3, WithServes
<1>4. CASE s \notin S
  <2>1. \A e \in EpsOf[s] : dEps[e] > 0
    BY <1>4 DEF DriverServes
  <2> QED
    BY <1>1, <1>2, <2>1, WithServes
<1> QED
  BY <1>3, <1>4

LEMMA SetConfigEnableServes ==
    ASSUME OnlyStallsOrSends, IInv, Serving, SetConfigEnable
    PROVE  Serving'
<1>1. UNCHANGED <<issued, outcome, known, selected, queued, g, up, urbs, dOut, cur>>
      /\ UNCHANGED com /\ Asked' = Asked
  BY DEF SetConfigEnable, host, gadget, Asked
<1>2. Failures = {{}}
  BY NoFaults DEF Failures, FaultKinds
<1>3. dEps' = With(dEps, conf.settings, {}) /\ conf.at = "enable"
  BY <1>2 DEF SetConfigEnable
<1>4. conf.settings \subseteq Settings
  BY DEF IInv, Typed, RestTyped, Steps
<1>5. \A s \in cur : About(s) => s \in conf.settings \/ About(s)'
  BY <1>1, <1>3, DriverSteps DEF About
<1>6. DriverServes'
  BY <1>1, <1>3, <1>4, <1>5, DriverSteps, MoreServes DEF Serving
<1> QED
  BY <1>1, <1>6, DriverSteps, ComKept DEF Serving

LEMMA SetInterfaceEnableServes ==
    ASSUME OnlyStallsOrSends, IInv, Serving, SetInterfaceEnable
    PROVE  Serving'
<1>1. UNCHANGED <<issued, outcome, known, selected, queued, g, up, urbs, dOut, cur>>
      /\ UNCHANGED conf /\ Asked' = Asked
  BY DEF SetInterfaceEnable, host, gadget, Asked
<1>2. Failures = {{}}
  BY NoFaults DEF Failures, FaultKinds
<1>3. dEps' = With(dEps, com.settings, {}) /\ com.at = "enable" /\ com' = Idle
  BY <1>2 DEF SetInterfaceEnable
<1>4. com.settings \subseteq Settings /\ com.settings = {SettingOf(com.req)}
  BY <1>3 DEF IInv, Typed, RestTyped, Steps, Serving, ComAt
<1>5. \A s \in cur : About(s) => s \in com.settings \/ About(s)'
  BY <1>1, <1>3, <1>4, DriverSteps DEF About
<1>6. DriverServes'
  BY <1>1, <1>3, <1>4, <1>5, DriverSteps, MoreServes DEF Serving
<1>7. ComAt'
  BY <1>3 DEF ComAt, Idle
<1> QED
  BY <1>1, <1>6, <1>7, DriverSteps DEF Serving

LEMMA SetInterfaceDisableServes ==
    ASSUME OwnEndpoints, IInv, Serving, SetInterfaceDisable
    PROVE  Serving'
<1> DEFINE s == SettingOf(com.req)
<1>1. UNCHANGED <<issued, outcome, known, selected, queued, g, up, urbs, dOut, cur>>
      /\ UNCHANGED conf /\ Asked' = Asked
  BY DEF SetInterfaceDisable, host, gadget, Asked
<1>2. /\ com \in Steps /\ com.settings \subseteq Settings /\ com.at = "disable"
      /\ dEps \in [EpIds -> Nat] /\ cur \subseteq Settings
  BY DEF SetInterfaceDisable, IInv, Typed, RestTyped, Steps
<1>3. com'.at = "enable" /\ com'.req = com.req /\ com'.settings = {s}
  BY <1>2 DEF SetInterfaceDisable, Steps, SettingOf
<1>4. /\ s \in cur /\ \A x \in cur : x[1] = s[1] => x = s
      /\ \A x \in com.settings : x[1] = s[1]
  BY <1>2 DEF Serving, ComAt
<1>5. ComAt'
  BY <1>1, <1>3, <1>4, DriverSteps DEF ComAt
<1>6. DriverServes'
  <2> SUFFICES ASSUME Begun, NEW x \in cur, ~About(x)'
               PROVE  \A e \in EpsOf[x] : dEps'[e] > 0
    BY <1>1, DriverSteps DEF DriverServes
  <2>1. x # s
    BY <1>1, <1>3, DriverSteps DEF About
  <2>2. \A y \in com.settings : y[1] # x[1]
    BY <1>4, <2>1
  <2>3. ~About(x)
    BY <1>1, <2>1, DriverSteps DEF About
  <2>4. \A e \in EpsOf[x] : dEps[e] > 0
    BY <2>3 DEF Serving, DriverServes
  <2>5. \A e \in EpsOf[x] : Without(dEps, com.settings)[e] = dEps[e]
    BY <1>2, <2>2, WithoutSpares
  <2> QED
    BY <2>4, <2>5 DEF SetInterfaceDisable
<1> QED
  BY <1>1, <1>5, <1>6, DriverSteps DEF Serving

LEMMA RecvSetInterfaceServes ==
    ASSUME OnlyStallsOrSends, IInv, History, Serving, RecvSetInterface
    PROVE  Serving'
<1> DEFINE n == Head(up)
           s == SettingOf(n)
<1>1. UNCHANGED <<issued, outcome, known, selected, queued, g, urbs, dOut, dEps, conf>>
      /\ Asked' = Asked
  BY DEF RecvSetInterface, host, gadget, Asked
<1>2. /\ Up = Up' \cup {n} /\ n \notin Up' /\ \A m \in Up' : <<n, m>> \in Earlier
      /\ Kind(n) = "set_interface" /\ n \in Sent
  BY FromUp, AllSent DEF RecvSetInterface
<1>3. n \in Selecting /\ s \in Settings
  BY <1>2 DEF Selecting, SettingOf, IInv, RightKind, Valid
<1>4. /\ cur' = (cur \ SameInterface(s)) \cup {s}
      /\ com' = [at |-> "disable", req |-> n, settings |-> cur \cap SameInterface(s)]
      /\ com = Idle
  BY NoFaults DEF RecvSetInterface, FaultKinds, SettingOf
<1>5. com'.at = "disable" /\ com'.req = n /\ com'.settings = cur \cap SameInterface(s)
  BY <1>4
<1>6. cur \subseteq Settings
  BY DEF IInv, Typed, RestTyped
<1>7. s \in cur' /\ \A x \in cur' : x = s \/ (x \in cur /\ x[1] # s[1])
  BY <1>4, <1>6 DEF SameInterface
<1>8. \A x \in cur : x[1] # s[1] => x \in cur'
  BY <1>4 DEF SameInterface
<1>9. \A k : Kind(k)' = Kind(k) /\ SettingOf(k)' = SettingOf(k)
  BY <1>1 DEF Kind, SettingOf
<1>10. Asks'
  <2>1. Queued' \cap Selecting \subseteq Valid
    BY <1>1 DEF Serving, Asks, Queued
  <2>2. \A x \in Range(dOut') : x.status = "ok" /\ x.req \in Sent
    BY <1>1 DEF Serving, Asks
  <2> QED
    BY <1>1, <1>3, <2>1, <2>2, AsksKept DEF Serving
<1>11. ComAt'
  BY <1>5, <1>7, <1>9 DEF ComAt, SameInterface
<1>12. DriverServes'
  <2>1. SettingUp => SettingUp'
    <3>1. Urbs' = Urbs
      BY <1>1 DEF Urbs
    <3> QED
      BY <1>1, <1>2, <1>9, <3>1 DEF SettingUp
  <2>2. com.at = "idle"
    BY <1>4 DEF Idle
  <2>3. \A x : About(x) => About(x)'
    BY <1>1, <2>1, <2>2 DEF About
  <2>4. \A x : x = s => About(x)'
    BY <1>5, <1>9 DEF About
  <2>5. Begun' => Begun
    BY <1>1, HostSame
  <2> QED
    BY <1>1, <1>7, <2>3, <2>4, <2>5 DEF Serving, DriverServes
<1>13. CurFollows'
  <2>1. Chosen = Chosen' \cup {n} /\ n \in Chosen
    BY <1>2, <1>9 DEF Chosen
  <2>2. \A m \in Chosen' : m # n /\ ~(m <= n)
    <3> SUFFICES ASSUME NEW m \in Chosen' PROVE m # n /\ ~(m <= n)
      OBVIOUS
    <3>1. m \in Up' /\ Kind(m) = "set_interface"
      BY <1>9 DEF Chosen
    <3>2. <<n, m>> \in Earlier /\ m # n /\ m \in Sent
      BY <1>2, <3>1, AllSent
    <3>3. ~Excused(m)
      <4>1. 1..m \subseteq DOMAIN outcome
        BY <3>2, SentFacts DEF IInv
      <4> QED
        BY <4>1 DEF Excused, Serving, Asks
    <3>4. overtook = {}
      BY NoFaults DEF History, FaultKinds
    <3>5. n < m
      BY <3>1, <3>2, <3>3, <3>4 DEF Earlier
    <3>6. n \in Nat /\ m \in Nat
      BY <1>2, <3>2, SentFacts DEF IInv
    <3> QED
      BY <3>2, <3>5, <3>6
  <2>3. Target' = Target
    BY <1>1, HostSame
  <2>4. ASSUME NEW x \in Target
        PROVE  \/ x \in cur' /\ \A k \in Chosen' : SettingOf(k)[1] # x[1]
               \/ \E k \in Chosen' : /\ SettingOf(k) = x
                                     /\ \A m \in Chosen' : SettingOf(m)[1] = x[1] => m <= k
    <3>1. CASE x \in cur /\ \A k \in Chosen : SettingOf(k)[1] # x[1]
      BY <1>8, <2>1, <3>1
    <3>2. CASE \E k \in Chosen : /\ SettingOf(k) = x
                                 /\ \A m \in Chosen : SettingOf(m)[1] = x[1] => m <= k
      <4>1. PICK k \in Chosen : /\ SettingOf(k) = x
                                /\ \A m \in Chosen : SettingOf(m)[1] = x[1] => m <= k
        BY <3>2
      <4>2. CASE k = n
        <5>1. \A m \in Chosen' : SettingOf(m)[1] # x[1]
          BY <2>1, <2>2, <4>1, <4>2
        <5> QED
          BY <1>7, <4>1, <4>2, <5>1
      <4>3. CASE k # n
        BY <2>1, <4>1, <4>3
      <4> QED
        BY <4>2, <4>3
    <3> QED
      BY <3>1, <3>2 DEF Serving, CurFollows
  <2> QED
    BY <1>9, <2>3, <2>4 DEF CurFollows
<1>14. GadgetServes'
  BY <1>1, GadgetKept DEF Serving
<1> QED
  BY <1>10, <1>11, <1>12, <1>13, <1>14 DEF Serving

-----------------------------------------------------------------------------
(* The theorem *)

LEMMA InitServes == Init => Serving
<1> SUFFICES ASSUME Init PROVE Serving
  OBVIOUS
<1>1. /\ issued = <<>> /\ outcome = <<>> /\ cur = Default /\ queued = 0 /\ up = <<>>
      /\ urbs = <<>> /\ dOut = <<>> /\ com = Idle /\ com.at = "idle"
  BY DEF Init, Idle
<1>2. /\ Sent = {} /\ DOMAIN outcome = {} /\ Selecting = {} /\ Queued = {} /\ Up = {}
      /\ Range(dOut) = {} /\ ~Waiting /\ Chosen = {}
  BY <1>1, EmptyHolds DEF Sent, Selecting, Queued, Up, Waiting, Chosen
<1>3. Default \subseteq Settings
  BY DEF Default
<1>4. \/ known = FALSE /\ selected = {}
      \/ /\ selected = Default
         /\ g.eps = With(NoEps, Default, {}) /\ dEps = With(NoEps, Default, {})
  BY DEF Init, EnableInterfaces, GadgetClosed
<1>5. Target = Default
  BY <1>1, <1>2, <1>4 DEF Target, Choosing
<1>6. \A s \in Default : \A e \in EpsOf[s] : With(NoEps, Default, {})[e] > 0
  <2>1. NoEps \in [EpIds -> Nat]
    BY DEF NoEps
  <2> QED
    BY <1>3, <2>1, WithServes
<1>7. Asks
  <2>1. selected \subseteq Settings
    BY <1>3, <1>4
  <2> QED
    BY <1>1, <1>2, <2>1 DEF Asks
<1>8. ComAt
  BY <1>1 DEF ComAt
<1>9. GadgetServes
  BY <1>1, <1>2, <1>4, <1>5, <1>6 DEF GadgetServes, Open
<1>10. CurFollows
  BY <1>1, <1>2, <1>5 DEF CurFollows
<1>11. DriverServes
  BY <1>1, <1>2, <1>4, <1>6 DEF DriverServes, Begun
<1> QED
  BY <1>7, <1>8, <1>9, <1>10, <1>11 DEF Serving

LEMMA NextServes ==
    ASSUME OnlyStallsOrSends, OwnEndpoints, IInv, History, Serving, Next
    PROVE  Serving'
<1>1. ~HostGivesUp /\ ~Lose /\ ~Overtake
  BY NoFaults DEF HostGivesUp, Lose, Overtake, FaultKinds
<1>2. CASE HostStep
  BY <1>1, <1>2, HostSetupServes, HostTakesServes DEF HostStep
<1>3. CASE GadgetWorks
  BY <1>3, SetupInServes, SetupPutServes, SetupDatalessServes, OutDataServes, RecvReplyServes,
     RecvAckServes DEF GadgetWorks
<1>4. CASE DriverWorks
  BY <1>4, RecvRequestServes, RecvSetInterfaceServes, SetInterfaceDisableServes,
     SetInterfaceEnableServes, WorkInServes, WorkOutServes, SetConfigReadServes,
     SetConfigEnableServes DEF DriverWorks
<1>5. CASE DeviceStep
  BY <1>5, CompleteServes DEF DeviceStep
<1> QED
  BY <1>1, <1>2, <1>3, <1>4, <1>5 DEF Next

LEMMA StutterServes ==
    ASSUME Serving, UNCHANGED vars
    PROVE  Serving'
<1>1. UNCHANGED <<issued, outcome, known, selected, queued, g, dOut, dEps, cur, com, conf>>
      /\ UNCHANGED <<up, urbs>> /\ Asked' = Asked
  BY DEF vars, host, gadget, driver, Asked
<1>2. Chosen' = Chosen /\ (SettingUp => SettingUp')
  BY <1>1 DEF Chosen, SettingUp, Up, Urbs, Kind
<1> QED
  BY <1>1, <1>2, Elsewhere

LEMMA ServingServes ==
    ASSUME IInv, Serving
    PROVE  Served
<1> SUFFICES ASSUME Quiet, NEW s \in selected, NEW e \in EpsOf[s]
             PROVE  g.eps[e] > 0 /\ dEps[e] > 0
  BY DEF Served
<1>1. /\ Up = {} /\ Urbs = {} /\ Range(dOut) = {} /\ queued = 0 /\ ~Waiting
      /\ com.at = "idle" /\ conf.at = "idle"
  BY EmptyHolds DEF Quiet, Up, Urbs, Idle
<1>2. ~Choosing(queued)
  BY <1>1, SentFacts DEF Choosing, IInv
<1>3. s \in Target
  BY <1>2 DEF Target
<1>4. g.eps[e] > 0
  BY <1>1, <1>3 DEF Serving, GadgetServes, Open, Stuck
<1>5. s \in cur
  BY <1>1, <1>3 DEF Serving, CurFollows, Chosen
<1>6. ~About(s) /\ Begun
  BY <1>1 DEF About, SettingUp, Begun
<1> QED
  BY <1>4, <1>5, <1>6 DEF Serving, DriverServes

\* If at most IN requests are stalled and datagrams not sent, every transfer is let
\* finish, the host sets up the device once, and no endpoint belongs to two
\* interfaces, both halves end up with every endpoint of the settings the host has
\* selected, though each follows the host on its own account (gadget.c:1184,
\* driver.c:657 and driver.c:768-779) and two threads of the driver may be at it at
\* the same time.
THEOREM BothServe ==
    ASSUME OnlyStallsOrSends, OwnEndpoints
    PROVE  Spec => []Served
<1>1. Init => Serving
  BY InitServes
<1>2. IInv /\ History /\ Serving /\ [Next]_vars => Serving'
  BY NextServes, StutterServes
<1>3. IInv /\ Serving => Served
  BY ServingServes
<1> QED
  BY <1>1, <1>2, <1>3, Invariance, PTL DEF Spec
=============================================================================
