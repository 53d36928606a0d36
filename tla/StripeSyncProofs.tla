---------------------------- MODULE StripeSyncProofs ----------------------------
(***************************************************************************)
(* Proofs about StripeSync: its types, and that the copy of the status in  *)
(* the session check's cache follows the record, whatever fails, repeats   *)
(* or overlaps.                                                            *)
(***************************************************************************)
EXTENDS StripeSync, TLAPS

Delivering == [pc: {"idle", "retrieve", "save", "invalidate"}, event: Event \cup {NoEvent},
               seen: User, want: User]
Buying == [pc: {"idle", "customer", "link", "session"}, customer: Customers \cup {NoCustomer}]

\* What a subscription can be once there is an event of it.
Sold == {"incomplete", "active", "past_due", "canceled"}

\* Events are of subscriptions that were sold, to customers there are.
EventInv ==
    \A e \in events : /\ e.object.status \in Sold
                      /\ e.object.customer \in customers
                      /\ subscription[e.subscription].status \in Sold

\* A customer is linked to the owner before anything is sold to it, and the
\* owner is never without one again.
CustomerInv ==
    /\ user.customer \in customers \cup {NoCustomer}
    /\ \A b \in Buyers :
          /\ buyer[b].pc \in {"link", "session"} => buyer[b].customer \in customers
          /\ buyer[b].pc = "session" => user.customer # NoCustomer
    /\ \A s \in Subscriptions : subscription[s].status # "none" =>
          subscription[s].customer \in customers /\ user.customer # NoCustomer

\* A delivery under way is of an event that is owed, of its own, and holds
\* copies of the owner as it was after the customer was linked.
HandlerInv ==
    /\ \A h \in Handlers :
          /\ handler[h].pc = "idle" => handler[h].event = NoEvent
          /\ handler[h].pc # "idle" => handler[h].event \in owed
          /\ handler[h].pc \in {"retrieve", "save"} =>
                handler[h].seen.customer \in customers /\ handler[h].want.customer \in customers
    /\ \A g, h \in Handlers :
          g # h /\ handler[g].pc # "idle" => handler[g].event # handler[h].event

TwoCustomers == \E c, d \in customers : c # d

IInv == TypeOK /\ EventInv /\ CustomerInv /\ HandlerInv /\ AccessCopyFollows

-----------------------------------------------------------------------------
(* The records *)

LEMMA RestingType ==
  /\ Resting \in Delivering /\ Resting.pc = "idle" /\ Resting.event = NoEvent
  /\ NewUser \in User
BY DEF Resting, Delivering, NewUser, User, Statuses

LEMMA AwayType == Away \in Buying /\ Away.pc = "idle"
BY DEF Away, Buying

\* What a delivery makes of its copy.
LEMMA SyncedType ==
  ASSUME NEW u, NEW s \in Subscriptions, NEW object \in Bought, object.status \in Sold
  PROVE  /\ Synced(u, s, object) \in User
         /\ Synced(u, s, object).customer = object.customer
BY DEF Synced, User, Bought, Sold, Statuses

LEMMA AppliedType ==
  ASSUME NEW u \in User, NEW e \in Event, e.object.status \in Sold
  PROVE  /\ Applied(u, e) \in User
         /\ Applied(u, e).customer \in {u.customer, e.object.customer}
<1>1. CASE e.kind = "deleted"
  BY <1>1 DEF Applied, Ended, User, Statuses
<1>2. CASE e.kind # "deleted"
  <2>1. e.subscription \in Subscriptions /\ e.object \in Bought
    BY DEF Event
  <2> QED
    BY <1>2, <2>1, SyncedType DEF Applied
<1> QED
  BY <1>1, <1>2

LEMMA SavedType ==
  ASSUME user \in User, NEW seen \in User, NEW want \in User
  PROVE  /\ Saved(seen, want) \in User
         /\ Saved(seen, want).customer \in {user.customer, want.customer}
<1>1. DOMAIN user = {"customer", "subscription", "status", "ends"}
  BY DEF User
<1>2. Saved(seen, want) =
        [customer |-> IF want.customer # seen.customer THEN want.customer ELSE user.customer,
         subscription |-> IF want.subscription # seen.subscription THEN want.subscription
                          ELSE user.subscription,
         status |-> IF want.status # seen.status THEN want.status ELSE user.status,
         ends |-> IF want.ends # seen.ends THEN want.ends ELSE user.ends]
  BY <1>1 DEF Saved
<1> QED
  BY <1>2 DEF User

-----------------------------------------------------------------------------
(* The checkout *)

\* A call of the checkout becomes n; customers may have been added.
LEMMA BuyerBecomes ==
  ASSUME IInv, NEW b \in Buyers, NEW n \in Buying, buyer' = [buyer EXCEPT ![b] = n],
         customers \subseteq customers', customers' \subseteq Customers,
         n.pc \in {"link", "session"} => n.customer \in customers',
         n.pc = "session" => user.customer # NoCustomer,
         troubles' \in 0..MaxTroubles,
         UNCHANGED <<orderly, stripe, owed, user, trial, cached, handler>>
  PROVE  IInv'
<1> USE DEF IInv
<1>1. TypeOK'
  BY DEF TypeOK, stripe, Buying
<1>2. EventInv' /\ HandlerInv' /\ AccessCopyFollows'
  BY DEF EventInv, HandlerInv, AccessCopyFollows, stripe
<1>3. CustomerInv'
  <2>1. ASSUME NEW d \in Buyers
        PROVE  /\ buyer'[d].pc \in {"link", "session"} => buyer'[d].customer \in customers'
               /\ buyer'[d].pc = "session" => user'.customer # NoCustomer
    <3>1. CASE d = b
      BY <3>1 DEF TypeOK
    <3>2. CASE d # b
      BY <3>2 DEF TypeOK, CustomerInv
    <3> QED
      BY <3>1, <3>2
  <2> QED
    BY <2>1 DEF CustomerInv, stripe
<1> QED
  BY <1>1, <1>2, <1>3

LEMMA CheckoutStep ==
  ASSUME IInv, NEW b \in Buyers,
         CheckoutRead(b) \/ CreateCustomer(b) \/ CheckoutFails(b)
  PROVE  IInv'
<1> USE DEF IInv
<1>1. CASE CheckoutRead(b)
  <2> DEFINE n == [pc |-> IF user.customer = NoCustomer THEN "customer" ELSE "session",
                   customer |-> user.customer]
  <2>1. n \in Buying
    BY DEF TypeOK, User, Buying
  <2>2. /\ n.pc \in {"link", "session"} => n.customer \in customers
        /\ n.pc = "session" => user.customer # NoCustomer
    BY DEF CustomerInv
  <2>3. buyer' = [buyer EXCEPT ![b] = n] /\ customers' = customers /\ customers \subseteq Customers
    BY <1>1 DEF CheckoutRead, TypeOK
  <2>4. UNCHANGED <<orderly, stripe, owed, user, trial, cached, handler>>
        /\ troubles' \in 0..MaxTroubles
    BY <1>1 DEF CheckoutRead, TypeOK
  <2> HIDE DEF n
  <2> QED
    BY <2>1, <2>2, <2>3, <2>4, BuyerBecomes
<1>2. CASE CreateCustomer(b)
  <2>1. PICK c \in Customers :
           /\ customers' = customers \cup {c}
           /\ buyer' = [buyer EXCEPT ![b].pc = "link", ![b].customer = c]
    <3>1. (CHOOSE c \in Customers \ customers : TRUE) \in Customers
      BY <1>2 DEF CreateCustomer
    <3> QED
      BY <1>2, <3>1 DEF CreateCustomer
  <2> DEFINE n == [buyer[b] EXCEPT !.pc = "link", !.customer = c]
  <2>2. n \in Buying /\ n.pc = "link" /\ n.customer = c
    BY DEF TypeOK, Buying
  <2>3. buyer' = [buyer EXCEPT ![b] = n]
    BY <2>1 DEF TypeOK
  <2>4. UNCHANGED <<orderly, stripe, owed, user, trial, cached, handler>>
        /\ troubles' \in 0..MaxTroubles /\ customers' \subseteq Customers
    BY <1>2, <2>1 DEF CreateCustomer, TypeOK
  <2> HIDE DEF n
  <2> QED
    BY <2>1, <2>2, <2>3, <2>4, BuyerBecomes
<1>3. CASE CheckoutFails(b)
  <2>1. UNCHANGED <<orderly, stripe, customers, owed, user, trial, cached, handler>>
        /\ buyer' = [buyer EXCEPT ![b] = Away] /\ customers \subseteq Customers
    BY <1>3 DEF CheckoutFails, TypeOK
  <2>2. troubles' \in 0..MaxTroubles
    BY <1>3, BoundsAssumption DEF CheckoutFails, TypeOK
  <2> QED
    BY <2>1, <2>2, AwayType, BuyerBecomes
<1> QED
  BY <1>1, <1>2, <1>3

LEMMA LinkCustomerStep ==
  ASSUME IInv, NEW b \in Buyers, LinkCustomer(b)
  PROVE  IInv'
<1> USE DEF IInv
<1> DEFINE c == buyer[b].customer
<1>1. c \in customers /\ c \in Customers
  BY DEF LinkCustomer, CustomerInv, TypeOK
<1>2. c # NoCustomer
  BY <1>1, NamesAssumption
<1> DEFINE n == [buyer[b] EXCEPT !.pc = "session"]
<1>3. n \in Buying /\ n.customer = c
  BY DEF TypeOK, Buying
<1>4. buyer' = [buyer EXCEPT ![b] = n]
  BY DEF LinkCustomer, TypeOK
<1> HIDE DEF n
<1>5. user' \in User /\ user'.customer = c /\ user'.status = user.status
  BY <1>1 DEF LinkCustomer, TypeOK, User
<1>6. TypeOK'
  BY <1>3, <1>4, <1>5 DEF LinkCustomer, TypeOK, Buying, stripe
<1>7. EventInv' /\ HandlerInv'
  BY DEF EventInv, HandlerInv, LinkCustomer, stripe
<1>8. AccessCopyFollows'
  BY <1>5 DEF AccessCopyFollows, LinkCustomer
<1>9. CustomerInv'
  <2>1. ASSUME NEW d \in Buyers
        PROVE  buyer'[d].pc \in {"link", "session"} => buyer'[d].customer \in customers
    <3>1. CASE d = b
      BY <1>1, <1>3, <1>4, <3>1 DEF TypeOK
    <3>2. CASE d # b
      BY <1>4, <3>2 DEF TypeOK, CustomerInv
    <3> QED
      BY <3>1, <3>2
  <2> QED
    BY <1>1, <1>2, <1>5, <2>1 DEF CustomerInv, LinkCustomer, stripe
<1> QED
  BY <1>6, <1>7, <1>8, <1>9

LEMMA CreateSessionStep ==
  ASSUME IInv, NEW b \in Buyers, CreateSession(b)
  PROVE  IInv'
<1> USE DEF IInv
<1>1. PICK s \in Unsold :
        subscription' = [subscription EXCEPT ![s] =
            [status |-> "offered", ends |-> FALSE, customer |-> buyer[b].customer]]
  BY DEF CreateSession
<1>2. s \in Subscriptions /\ subscription[s].status = "none"
  BY DEF Unsold
<1> DEFINE n == [status |-> "offered", ends |-> FALSE, customer |-> buyer[b].customer]
<1>3. n \in Bought /\ n.customer \in customers /\ user.customer # NoCustomer
  BY DEF CreateSession, TypeOK, CustomerInv, Bought, SubscriptionStatuses
<1>4. subscription' = [subscription EXCEPT ![s] = n]
  BY <1>1
<1> HIDE DEF n
<1>5. TypeOK'
  <2>1. subscription' \in [Subscriptions -> Bought]
    BY <1>2, <1>3, <1>4 DEF TypeOK
  <2>2. buyer' \in [Buyers -> Buying]
    BY AwayType DEF CreateSession, TypeOK, Buying
  <2> QED
    BY <2>1, <2>2 DEF CreateSession, TypeOK, Buying
<1>6. EventInv'
  <2>1. ASSUME NEW e \in events
        PROVE  subscription'[e.subscription] = subscription[e.subscription]
    <3>1. e.subscription # s
      BY <1>2 DEF EventInv, Sold
    <3>2. e.subscription \in Subscriptions
      BY DEF TypeOK, Event
    <3> QED
      BY <1>4, <3>1, <3>2 DEF TypeOK
  <2>2. UNCHANGED <<events, customers>>
    BY DEF CreateSession
  <2> QED
    BY <2>1, <2>2 DEF EventInv
<1>7. HandlerInv' /\ AccessCopyFollows'
  BY DEF HandlerInv, AccessCopyFollows, CreateSession
<1>8. CustomerInv'
  <2>1. \A d \in Buyers : buyer'[d] = buyer[d] \/ buyer'[d].pc = "idle"
    BY AwayType DEF CreateSession, TypeOK
  <2>2. \A t \in Subscriptions : subscription'[t] = subscription[t] \/ subscription'[t] = n
    BY <1>4 DEF TypeOK
  <2>3. \A t \in Subscriptions : subscription'[t].status # "none" =>
           subscription'[t].customer \in customers /\ user.customer # NoCustomer
    BY <1>3, <2>2 DEF CustomerInv
  <2>4. UNCHANGED <<user, customers>>
    BY DEF CreateSession
  <2> QED
    BY <2>1, <2>3, <2>4 DEF CustomerInv
<1> QED
  BY <1>5, <1>6, <1>7, <1>8


-----------------------------------------------------------------------------
(* Stripe *)

\* A subscription changes, having been sold, or being sold now.
LEMMA ChangeStep ==
  ASSUME IInv, NEW s \in Subscriptions, subscription[s].status # "none",
         NEW status \in Sold, NEW ends \in BOOLEAN, NEW kinds, kinds \subseteq Kinds,
         Change(s, status, ends, kinds)
  PROVE  IInv'
<1> USE DEF IInv
<1> DEFINE n == [subscription[s] EXCEPT !.status = status, !.ends = ends]
           at == changes + 1
           made == {[kind |-> k, subscription |-> s, object |-> n, at |-> at] : k \in kinds}
<1>1. /\ subscription' = [subscription EXCEPT ![s] = n]
      /\ events' = events \cup made /\ owed' = owed \cup made /\ changes' = at
      /\ UNCHANGED <<orderly, customers, user, trial, cached, handler, buyer, troubles>>
  BY DEF Change
<1>2. n \in Bought /\ n.status = status /\ n.customer = subscription[s].customer
  <2>1. subscription[s] \in Bought
    BY DEF TypeOK
  <2>2. status \in SubscriptionStatuses
    BY DEF Sold, SubscriptionStatuses, Statuses
  <2> QED
    BY <2>1, <2>2 DEF Bought
<1>3. n.customer \in customers /\ user.customer # NoCustomer /\ at \in Nat
  BY <1>2 DEF CustomerInv, TypeOK
<1> HIDE DEF n, at
<1>4. \A e \in made : e \in Event /\ e.object = n /\ e.subscription = s
  BY <1>2, <1>3 DEF Event
<1> HIDE DEF made
<1>5. TypeOK'
  <2>1. subscription' \in [Subscriptions -> Bought]
    BY <1>1, <1>2 DEF TypeOK
  <2>2. events' \subseteq Event /\ owed' \subseteq events'
    BY <1>1, <1>4 DEF TypeOK
  <2> QED
    BY <1>1, <1>3, <2>1, <2>2 DEF TypeOK
<1>6. \A t \in Subscriptions : subscription'[t] = IF t = s THEN n ELSE subscription[t]
  BY <1>1 DEF TypeOK
<1>7. EventInv'
  <2>1. ASSUME NEW e \in events'
        PROVE  /\ e.object.status \in Sold /\ e.object.customer \in customers
               /\ subscription'[e.subscription].status \in Sold
    <3>1. CASE e \in made
      BY <1>2, <1>3, <1>4, <1>6, <3>1
    <3>2. CASE e \in events
      <4>1. e.subscription \in Subscriptions
        BY <3>2 DEF TypeOK, Event
      <4> QED
        BY <1>2, <1>6, <3>2, <4>1 DEF EventInv
    <3> QED
      BY <1>1, <3>1, <3>2
  <2> QED
    BY <1>1, <2>1 DEF EventInv
<1>8. CustomerInv'
  BY <1>1, <1>2, <1>3, <1>6 DEF CustomerInv
<1>9. HandlerInv'
  BY <1>1 DEF HandlerInv
<1>10. AccessCopyFollows'
  BY <1>1 DEF AccessCopyFollows
<1> QED
  BY <1>5, <1>7, <1>8, <1>9, <1>10

LEMMA AbandonStep ==
  ASSUME IInv, NEW s \in Subscriptions, Abandon(s)
  PROVE  IInv'
<1> USE DEF IInv
<1> DEFINE n == [subscription[s] EXCEPT !.status = "expired"]
<1>1. /\ subscription' = [subscription EXCEPT ![s] = n]
      /\ UNCHANGED <<orderly, customers, events, owed, user, trial, cached, handler, buyer,
                     changes, troubles>>
  BY DEF Abandon, TypeOK
<1>2. n \in Bought /\ n.customer = subscription[s].customer
  BY DEF TypeOK, Bought, SubscriptionStatuses
<1> HIDE DEF n
<1>3. \A t \in Subscriptions : subscription'[t] = IF t = s THEN n ELSE subscription[t]
  BY <1>1 DEF TypeOK
<1>4. TypeOK'
  <2>1. subscription' \in [Subscriptions -> Bought]
    BY <1>1, <1>2 DEF TypeOK
  <2> QED
    BY <1>1, <2>1 DEF TypeOK
<1>5. EventInv'
  <2>1. ASSUME NEW e \in events
        PROVE  subscription'[e.subscription] = subscription[e.subscription]
    <3>1. e.subscription # s
      BY DEF EventInv, Sold, Abandon
    <3>2. e.subscription \in Subscriptions
      BY DEF TypeOK, Event
    <3> QED
      BY <1>3, <3>1, <3>2
  <2> QED
    BY <1>1, <2>1 DEF EventInv
<1>6. CustomerInv'
  BY <1>1, <1>2, <1>3 DEF CustomerInv, Abandon
<1>7. HandlerInv' /\ AccessCopyFollows'
  BY <1>1 DEF HandlerInv, AccessCopyFollows
<1> QED
  BY <1>4, <1>5, <1>6, <1>7

LEMMA AtStripeStep ==
  ASSUME IInv, NEW s \in Subscriptions, AtStripe(s)
  PROVE  IInv'
<1>1. subscription[s] \in Bought /\ subscription[s].ends \in BOOLEAN
  BY DEF IInv, TypeOK, Bought
<1>2. CASE Abandon(s)
  BY <1>2, AbandonStep
<1>3. CASE ~Abandon(s)
  <2>1. PICK status \in Sold, ends \in BOOLEAN, kinds \in SUBSET Kinds :
           Change(s, status, ends, kinds) /\ subscription[s].status # "none"
    <3>1. CASE Subscribe(s)
      BY <3>1 DEF Subscribe, Sold, Kinds
    <3>2. CASE Pay(s)
      BY <3>2 DEF Pay, Sold, Kinds
    <3>3. CASE FailPayment(s)
      BY <1>1, <3>3 DEF FailPayment, Sold, Kinds
    <3>4. CASE Recover(s)
      BY <1>1, <3>4 DEF Recover, Sold, Kinds
    <3>5. CASE SetEnds(s)
      BY <1>1, <3>5 DEF SetEnds, Sold, Kinds
    <3>6. CASE Cancel(s)
      BY <1>1, <3>6 DEF Cancel, Sold, Kinds
    <3> QED
      BY <1>3, <3>1, <3>2, <3>3, <3>4, <3>5, <3>6 DEF AtStripe
  <2> QED
    BY <2>1, ChangeStep
<1> QED
  BY <1>2, <1>3

LEMMA RepeatStep ==
  ASSUME IInv, NEW e \in events, Repeat(e)
  PROVE  IInv'
<1> USE DEF IInv
<1>1. troubles' \in 0..MaxTroubles
  BY BoundsAssumption DEF Repeat, TypeOK
<1>2. TypeOK'
  BY <1>1 DEF Repeat, TypeOK, stripe
<1>3. EventInv' /\ CustomerInv'
  BY DEF Repeat, EventInv, CustomerInv, stripe
<1>4. HandlerInv' /\ AccessCopyFollows'
  BY DEF Repeat, HandlerInv, AccessCopyFollows
<1> QED
  BY <1>2, <1>3, <1>4

-----------------------------------------------------------------------------
(* The webhook *)

\* A delivery becomes n, of the event it had or of one that nobody has; the
\* owner and the events owed are as they were.
LEMMA HandlerBecomes ==
  ASSUME IInv, NEW h \in Handlers, NEW n \in Delivering, handler' = [handler EXCEPT ![h] = n],
         n.pc # "idle" => /\ n.event \in owed
                          /\ \A g \in Handlers \ {h} :
                                handler[g].pc # "idle" => handler[g].event # n.event,
         n.pc \in {"retrieve", "save"} =>
            n.seen.customer \in customers /\ n.want.customer \in customers,
         n.pc = "idle" => n.event = NoEvent,
         troubles' \in 0..MaxTroubles,
         UNCHANGED <<orderly, stripe, customers, owed, user, trial, cached, buyer>>
  PROVE  IInv'
<1> USE DEF IInv
<1>1. TypeOK'
  BY DEF TypeOK, stripe, Delivering
<1>2. EventInv' /\ CustomerInv' /\ AccessCopyFollows'
  BY DEF EventInv, CustomerInv, AccessCopyFollows, stripe
<1>3. HandlerInv'
  <2>1. \A g \in Handlers : handler'[g] = IF g = h THEN n ELSE handler[g]
    BY DEF TypeOK
  <2>2. \A g \in Handlers :
          /\ handler'[g].pc = "idle" => handler'[g].event = NoEvent
          /\ handler'[g].pc # "idle" => handler'[g].event \in owed'
          /\ handler'[g].pc \in {"retrieve", "save"} =>
                handler'[g].seen.customer \in customers' /\ handler'[g].want.customer \in customers'
    BY <2>1 DEF HandlerInv
  <2>3. ASSUME NEW f \in Handlers, NEW g \in Handlers, f # g, handler'[f].pc # "idle"
        PROVE  handler'[f].event # handler'[g].event
    <3>1. CASE f = h
      <4>1. handler'[g] = handler[g] /\ handler'[f] = n
        BY <2>1, <2>3, <3>1
      <4>2. CASE handler[g].pc # "idle"
        BY <2>3, <3>1, <4>1, <4>2
      <4>3. CASE handler[g].pc = "idle"
        <5>1. handler[g].event = NoEvent /\ n.event \in Event
          BY <2>3, <4>1, <4>3 DEF HandlerInv, TypeOK
        <5> QED
          BY <4>1, <5>1, EventAssumption
      <4> QED
        BY <4>2, <4>3
    <3>2. CASE f # h
      <4>1. CASE g = h
        <5>1. handler'[f] = handler[f] /\ handler'[g] = n
          BY <2>1, <3>2, <4>1
        <5>2. handler[f].event \in owed
          BY <2>3, <5>1 DEF HandlerInv
        <5>3. handler[f].event # NoEvent
          BY <5>2, EventAssumption DEF TypeOK
        <5> QED
          BY <2>3, <3>2, <4>1, <5>1, <5>3
      <4>2. CASE g # h
        BY <2>1, <2>3, <3>2, <4>2 DEF HandlerInv
      <4> QED
        BY <4>1, <4>2
    <3> QED
      BY <3>1, <3>2
  <2> QED
    BY <2>2, <2>3 DEF HandlerInv
<1> QED
  BY <1>1, <1>2, <1>3


LEMMA DeliverStep ==
  ASSUME IInv, NEW h \in Handlers, NEW e \in owed, Deliver(h, e)
  PROVE  IInv'
<1> USE DEF IInv
<1>1. /\ handler[h].pc = "idle" /\ \A g \in Handlers : handler[g].event # e
      /\ UNCHANGED <<orderly, stripe, customers, user, trial, cached, buyer, troubles>>
  BY DEF Deliver
<1>2. /\ e \in events /\ e \in Event /\ e.object.status \in Sold
      /\ e.object.customer \in customers
      /\ subscription[e.subscription].status \in Sold /\ e.subscription \in Subscriptions
  BY DEF TypeOK, EventInv, Event
<1>3. user.customer \in customers
  BY <1>2 DEF CustomerInv, Sold
<1>4. CASE FindsUser(e)
  <2> DEFINE pc == IF e.kind \in {"upsert", "deleted"} THEN "save" ELSE "retrieve"
             w == Applied(user, e)
             n == [pc |-> pc, event |-> e, seen |-> user, want |-> w]
  <2>1. handler' = [handler EXCEPT ![h] = n] /\ owed' = owed
    BY <1>4 DEF Deliver
  <2>2. w \in User /\ w.customer \in customers
    BY <1>2, <1>3, AppliedType DEF TypeOK
  <2>3. pc \in {"save", "retrieve"}
    OBVIOUS
  <2> HIDE DEF w, pc
  <2>4. /\ n \in Delivering /\ n.event = e /\ n.pc \in {"save", "retrieve"}
        /\ n.seen = user /\ n.want = w
    BY <1>2, <2>2, <2>3 DEF TypeOK, Delivering
  <2> HIDE DEF n
  <2>5. troubles' \in 0..MaxTroubles
    BY <1>1 DEF TypeOK
  <2> QED
    BY <1>1, <1>3, <2>1, <2>2, <2>4, <2>5, HandlerBecomes
<1>5. CASE ~FindsUser(e)
  <2>1. handler' = handler /\ owed' = owed \ {e}
    BY <1>5 DEF Deliver
  <2>2. TypeOK'
    BY <1>1, <2>1 DEF TypeOK, stripe
  <2>3. EventInv' /\ CustomerInv'
    BY <1>1 DEF EventInv, CustomerInv, stripe
  <2>4. HandlerInv'
    BY <1>1, <2>1 DEF HandlerInv
  <2>5. TwoCustomers
    BY <1>2, <1>3, <1>5 DEF FindsUser, TwoCustomers
  <2>6. AccessCopyFollows'
    BY <1>1, <2>5 DEF AccessCopyFollows, TwoCustomers
  <2> QED
    BY <2>2, <2>3, <2>4, <2>6
<1> QED
  BY <1>4, <1>5

LEMMA RetrieveStep ==
  ASSUME IInv, NEW h \in Handlers, Retrieve(h)
  PROVE  IInv'
<1> USE DEF IInv
<1> DEFINE e == handler[h].event
           w == Synced(handler[h].seen, e.subscription, subscription[e.subscription])
           n == [handler[h] EXCEPT !.pc = "save", !.want = w]
<1>1. /\ handler[h] \in Delivering /\ handler[h].pc = "retrieve" /\ e \in owed /\ e \in events
      /\ handler[h].seen.customer \in customers
  BY DEF Retrieve, HandlerInv, TypeOK, Delivering
<1>2. /\ e.subscription \in Subscriptions
      /\ subscription[e.subscription] \in Bought
      /\ subscription[e.subscription].status \in Sold
      /\ subscription[e.subscription].customer \in customers
  BY <1>1 DEF TypeOK, EventInv, CustomerInv, Event, Sold
<1>3. w \in User /\ w.customer \in customers
  BY <1>2, SyncedType
<1>4. /\ handler' = [handler EXCEPT ![h].pc = "save", ![h].want = w]
      /\ UNCHANGED <<orderly, stripe, customers, owed, user, trial, cached, buyer, troubles>>
  BY DEF Retrieve
<1> HIDE DEF w
<1>5. handler' = [handler EXCEPT ![h] = n]
  BY <1>1, <1>4 DEF TypeOK, Delivering
<1>6. /\ n \in Delivering /\ n.pc = "save" /\ n.event = e
      /\ n.seen = handler[h].seen /\ n.want = w
  BY <1>1, <1>3 DEF Delivering
<1> HIDE DEF n
<1>7. \A g \in Handlers \ {h} : handler[g].pc # "idle" => handler[g].event # n.event
  BY <1>6 DEF HandlerInv
<1>8. troubles' \in 0..MaxTroubles
  BY <1>4 DEF TypeOK
<1> QED
  BY <1>1, <1>3, <1>4, <1>5, <1>6, <1>7, <1>8, HandlerBecomes

LEMMA WebhookFailsStep ==
  ASSUME IInv, NEW h \in Handlers, WebhookFails(h)
  PROVE  IInv'
<1> USE DEF IInv
<1>1. troubles' \in 0..MaxTroubles
  BY BoundsAssumption DEF WebhookFails, TypeOK
<1> QED
  BY <1>1, RestingType, HandlerBecomes DEF WebhookFails

LEMMA SaveStep ==
  ASSUME IInv, NEW h \in Handlers, Save(h)
  PROVE  IInv'
<1> USE DEF IInv
<1> DEFINE n == [Resting EXCEPT !.pc = "invalidate", !.event = handler[h].event]
<1>1. /\ handler[h] \in Delivering /\ handler[h].pc = "save" /\ handler[h].event \in owed
      /\ handler[h].seen \in User /\ handler[h].want \in User
      /\ handler[h].want.customer \in customers
  BY DEF Save, HandlerInv, TypeOK, Delivering
<1>2. handler[h].event \in events /\ handler[h].event \in Event
  BY <1>1 DEF TypeOK
<1>3. user.customer \in customers
  BY <1>2 DEF TypeOK, EventInv, CustomerInv, Event, Sold
<1>4. user' \in User /\ user'.customer \in customers
  BY <1>1, <1>3, SavedType DEF Save, TypeOK
<1>5. user'.customer # NoCustomer
  BY <1>4, NamesAssumption DEF TypeOK
<1>6. n \in Delivering /\ n.pc = "invalidate" /\ n.event = handler[h].event
  BY <1>2, RestingType DEF Delivering
<1>7. /\ handler' = [handler EXCEPT ![h] = n]
      /\ UNCHANGED <<orderly, stripe, customers, owed, trial, cached, buyer, troubles>>
  BY DEF Save
<1> HIDE DEF n
<1>8. TypeOK'
  BY <1>4, <1>6, <1>7 DEF TypeOK, stripe, Delivering
<1>9. EventInv'
  BY <1>7 DEF EventInv, stripe
<1>10. CustomerInv'
  BY <1>4, <1>5, <1>7 DEF CustomerInv, stripe
<1>11. HandlerInv'
  <2>1. \A g \in Handlers : handler'[g] = IF g = h THEN n ELSE handler[g]
    BY <1>7 DEF TypeOK
  <2>2. \A g \in Handlers : handler'[g].event = handler[g].event
    BY <1>6, <2>1
  <2>3. \A g \in Handlers : handler'[g].pc # "idle" <=> handler[g].pc # "idle"
    BY <1>1, <1>6, <2>1
  <2> QED
    BY <1>6, <1>7, <2>1, <2>2, <2>3 DEF HandlerInv
<1>12. AccessCopyFollows'
  BY <1>1, <1>7 DEF AccessCopyFollows
<1> QED
  BY <1>8, <1>9, <1>10, <1>11, <1>12

LEMMA InvalidateStep ==
  ASSUME IInv, NEW h \in Handlers, Invalidate(h)
  PROVE  IInv'
<1> USE DEF IInv
<1>1. /\ handler[h].pc = "invalidate" /\ cached' = NoCopy
      /\ owed' = owed \ {handler[h].event} /\ handler' = [handler EXCEPT ![h] = Resting]
      /\ UNCHANGED <<orderly, stripe, customers, user, trial, buyer, troubles>>
  BY DEF Invalidate
<1>2. TypeOK'
  BY <1>1, RestingType DEF TypeOK, stripe, Delivering
<1>3. EventInv' /\ CustomerInv' /\ AccessCopyFollows'
  BY <1>1 DEF EventInv, CustomerInv, AccessCopyFollows, stripe
<1>4. HandlerInv'
  <2>1. \A g \in Handlers : handler'[g] = IF g = h THEN Resting ELSE handler[g]
    BY <1>1 DEF TypeOK
  <2>2. \A g \in Handlers \ {h} : handler[g].pc # "idle" => handler[g].event \in owed'
    BY <1>1 DEF HandlerInv
  <2>3. handler[h].event # NoEvent
    BY <1>1, EventAssumption DEF HandlerInv, TypeOK
  <2>4. \A f, g \in Handlers :
           f # g /\ handler'[f].pc # "idle" => handler'[f].event # handler'[g].event
    <3> SUFFICES ASSUME NEW f \in Handlers, NEW g \in Handlers, f # g, handler'[f].pc # "idle"
                 PROVE  handler'[f].event # handler'[g].event
      OBVIOUS
    <3>1. f # h /\ handler'[f] = handler[f]
      BY <2>1, RestingType
    <3>2. handler[f].event \in Event
      BY <3>1 DEF HandlerInv, TypeOK
    <3>3. CASE g = h
      BY <2>1, <3>1, <3>2, <3>3, RestingType, EventAssumption
    <3>4. CASE g # h
      BY <2>1, <3>1, <3>4 DEF HandlerInv
    <3> QED
      BY <3>3, <3>4
  <2> QED
    BY <1>1, <2>1, <2>2, <2>4, RestingType DEF HandlerInv
<1> QED
  BY <1>2, <1>3, <1>4

-----------------------------------------------------------------------------
(* The session check, time, and the specification *)

LEMMA TimeStep ==
  ASSUME IInv, Authenticate \/ CopyExpires \/ TrialEnds
  PROVE  IInv'
<1> USE DEF IInv
<1>1. UNCHANGED <<orderly, stripe, customers, owed, user, handler, buyer, troubles>>
      /\ trial' \in BOOLEAN /\ cached' \in {cached, NoCopy, user.status}
  BY DEF Authenticate, CopyExpires, TrialEnds, TypeOK
<1>2. TypeOK'
  BY <1>1 DEF TypeOK, stripe, User
<1>3. EventInv' /\ CustomerInv'
  BY <1>1 DEF EventInv, CustomerInv, stripe
<1>4. HandlerInv' /\ AccessCopyFollows'
  BY <1>1 DEF HandlerInv, AccessCopyFollows
<1> QED
  BY <1>2, <1>3, <1>4

LEMMA StartStep ==
  ASSUME Init
  PROVE  IInv
<1>1. TypeOK
  <2>1. subscription \in [Subscriptions -> Bought]
    BY DEF Init, NoPurchase, Bought, SubscriptionStatuses, Statuses
  <2>2. handler \in [Handlers -> Delivering] /\ buyer \in [Buyers -> Buying] /\ user \in User
    BY RestingType, AwayType DEF Init
  <2>3. changes \in Nat /\ troubles \in 0..MaxTroubles
    BY BoundsAssumption DEF Init
  <2>4. orderly \in BOOLEAN /\ trial \in BOOLEAN
    BY DEF Init
  <2> QED
    BY <2>1, <2>2, <2>3, <2>4 DEF Init, TypeOK, Delivering, Buying
<1>2. EventInv /\ AccessCopyFollows
  BY DEF Init, EventInv, AccessCopyFollows
<1>3. CustomerInv
  BY AwayType DEF Init, CustomerInv, NewUser, NoPurchase
<1>4. HandlerInv
  BY RestingType DEF Init, HandlerInv
<1> QED
  BY <1>1, <1>2, <1>3, <1>4 DEF IInv

LEMMA NextStep ==
  ASSUME IInv, [Next]_vars
  PROVE  IInv'
<1>1. ASSUME NEW b \in Buyers, Checkout(b) PROVE IInv'
  BY <1>1, CheckoutStep, LinkCustomerStep, CreateSessionStep DEF Checkout
<1>2. ASSUME NEW h \in Handlers, Handle(h) PROVE IInv'
  BY <1>2, RetrieveStep, SaveStep, InvalidateStep DEF Handle
<1>3. CASE UNCHANGED vars
  BY <1>3 DEF vars, stripe, IInv, TypeOK, EventInv, CustomerInv, HandlerInv, AccessCopyFollows
<1> QED
  BY <1>1, <1>2, <1>3, AtStripeStep, RepeatStep, DeliverStep, WebhookFailsStep, TimeStep DEF Next

\* The invariant: events, customers and the handler's copies.
THEOREM StripeCorrect == Spec => []IInv
<1>1. Init => IInv
  BY StartStep
<1>2. IInv /\ [Next]_vars => IInv'
  BY NextStep
<1>3. QED
  BY <1>1, <1>2, PTL DEF Spec

\* The variables keep their types.
THEOREM TypesKept == Spec => []TypeOK
<1>1. IInv => TypeOK
  BY DEF IInv
<1>2. QED
  BY <1>1, StripeCorrect, PTL

\* The cached status follows the record once no webhook is owed an answer.
THEOREM CopyFollows == Spec => []AccessCopyFollows
<1>1. IInv => AccessCopyFollows
  BY DEF IInv
<1>2. QED
  BY <1>1, StripeCorrect, PTL

-----------------------------------------------------------------------------
(* An orderly life *)

Answered == events \ owed
Newest(e) == e.at = changes

\* The events are a history of the subscriptions: those of one change agree,
\* and the last tells what the subscription is.
Chronicle ==
    /\ events # {} => \E e \in events : Newest(e)
    /\ \A e \in events : e.at <= changes
    /\ \A e, f \in events : e.at = f.at => e.subscription = f.subscription /\ e.object = f.object
    /\ \A e \in events : Newest(e) => e.object.status = subscription[e.subscription].status
    /\ \A e \in events : e.kind = "deleted" => e.object.status = "canceled"

AtMostOne ==
    /\ \A g, h \in Handlers : handler[g].pc # "idle" /\ handler[h].pc # "idle" => g = h
    /\ \A b, d \in Buyers : buyer[b].pc # "idle" /\ buyer[d].pc # "idle" => b = d

\* What is owed is newer than what was answered, and the oldest is handled.
OldestFirst ==
    /\ \A e \in Answered, f \in owed : e.at <= f.at
    /\ \A h \in Handlers, f \in owed : handler[h].pc # "idle" => handler[h].event.at <= f.at

\* Whatever is sold is sold to the customer the owner is linked to.
OneCustomer ==
    /\ \A s \in Subscriptions :
          subscription[s].status # "none" => subscription[s].customer = user.customer
    /\ \A e \in events : e.object.customer = user.customer
    /\ \A b \in Buyers :
          /\ buyer[b].pc \in {"customer", "link"} => user.customer = NoCustomer
          /\ buyer[b].pc = "session" => buyer[b].customer = user.customer
    /\ \A h \in Handlers :
          /\ handler[h].pc \in {"retrieve", "save"} => handler[h].seen.customer = user.customer
          /\ handler[h].pc = "save" => handler[h].want.customer = user.customer

\* An event of the last change, once it is handled, has left the record as
\* the subscription is.
UpToDate ==
    /\ \A h \in Handlers :
          /\ handler[h].pc \in {"retrieve", "save"} => handler[h].seen.status = user.status
          /\ handler[h].pc = "save" /\ Newest(handler[h].event) =>
                handler[h].want.status = handler[h].event.object.status
          /\ handler[h].pc = "invalidate" /\ Newest(handler[h].event) =>
                user.status = handler[h].event.object.status
    /\ \A e \in Answered : Newest(e) => user.status = e.object.status

OrderInv == AtMostOne /\ OldestFirst /\ OneCustomer /\ UpToDate
LifeInv == Chronicle /\ (orderly => OrderInv)

\* Once Stripe owes no event, the record says of the subscription that changed
\* last what Stripe says.
RecordCaughtUp ==
    orderly /\ owed = {} /\ events # {} =>
        user.status = subscription[Latest.subscription].status

-----------------------------------------------------------------------------
(* The chronicle *)

LEMMA ChronicleKept ==
  ASSUME Chronicle, UNCHANGED <<events, changes>>,
         \A e \in events : subscription'[e.subscription] = subscription[e.subscription]
  PROVE  Chronicle'
BY DEF Chronicle, Newest

\* What a change makes.
LEMMA ChangeMakes ==
  ASSUME IInv, NEW s \in Subscriptions, subscription[s].status # "none",
         NEW status \in Sold, NEW ends \in BOOLEAN, NEW kinds, kinds \subseteq Kinds, kinds # {},
         "deleted" \in kinds => status = "canceled",
         Change(s, status, ends, kinds)
  PROVE  \E n \in Bought, made \in SUBSET Event :
           /\ n.status = status /\ n.customer = subscription[s].customer
           /\ subscription' = [subscription EXCEPT ![s] = n]
           /\ events' = events \cup made /\ owed' = owed \cup made /\ made # {}
           /\ \A e \in made : /\ e.subscription = s /\ e.object = n /\ e.at = changes + 1
                              /\ e.kind = "deleted" => status = "canceled"
           /\ changes' = changes + 1
           /\ UNCHANGED <<orderly, customers, user, trial, cached, handler, buyer, troubles>>
<1> DEFINE n == [subscription[s] EXCEPT !.status = status, !.ends = ends]
           at == changes + 1
           made == {[kind |-> k, subscription |-> s, object |-> n, at |-> at] : k \in kinds}
<1>1. /\ subscription' = [subscription EXCEPT ![s] = n]
      /\ events' = events \cup made /\ owed' = owed \cup made /\ changes' = at
      /\ UNCHANGED <<orderly, customers, user, trial, cached, handler, buyer, troubles>>
  BY DEF Change
<1>2. n \in Bought /\ n.status = status /\ n.customer = subscription[s].customer
  <2>1. subscription[s] \in Bought
    BY DEF IInv, TypeOK
  <2>2. status \in SubscriptionStatuses
    BY DEF Sold, SubscriptionStatuses, Statuses
  <2> QED
    BY <2>1, <2>2 DEF Bought
<1>3. at \in Nat /\ at = changes + 1
  BY DEF IInv, TypeOK
<1> HIDE DEF n, at
<1>4. \A e \in made : /\ e \in Event /\ e.subscription = s /\ e.object = n /\ e.at = at
                      /\ e.kind = "deleted" => status = "canceled"
  BY <1>2, <1>3 DEF Event
<1>5. made # {}
  OBVIOUS
<1> HIDE DEF made
<1>6. made \in SUBSET Event
  BY <1>4
<1> QED
  BY <1>1, <1>2, <1>3, <1>4, <1>5, <1>6

LEMMA ChangeOrder ==
  ASSUME IInv, LifeInv, NEW s \in Subscriptions, subscription[s].status # "none",
         NEW status \in Sold, NEW ends \in BOOLEAN, NEW kinds, kinds \subseteq Kinds, kinds # {},
         "deleted" \in kinds => status = "canceled",
         Change(s, status, ends, kinds)
  PROVE  LifeInv'
<1>1. PICK n \in Bought, made \in SUBSET Event :
           /\ n.status = status /\ n.customer = subscription[s].customer
           /\ subscription' = [subscription EXCEPT ![s] = n]
           /\ events' = events \cup made /\ owed' = owed \cup made /\ made # {}
           /\ \A e \in made : /\ e.subscription = s /\ e.object = n /\ e.at = changes + 1
                              /\ e.kind = "deleted" => status = "canceled"
           /\ changes' = changes + 1
           /\ UNCHANGED <<orderly, customers, user, trial, cached, handler, buyer, troubles>>
  BY ChangeMakes
<1>2. changes \in Nat /\ events \subseteq Event /\ owed \subseteq events
      /\ \A e \in events : e.at \in Nat /\ e.at <= changes /\ e.subscription \in Subscriptions
  BY DEF IInv, TypeOK, LifeInv, Chronicle, Event
<1>3. \A e \in events : e.at # changes' /\ e.at < changes'
  BY <1>1, <1>2
<1>4. \A t \in Subscriptions : subscription'[t] = IF t = s THEN n ELSE subscription[t]
  BY <1>1 DEF IInv, TypeOK
<1>5. Chronicle'
  <2>1. events' # {} /\ \E e \in events' : e.at = changes'
    BY <1>1
  <2>2. \A e \in events' : e.at <= changes'
    BY <1>1, <1>2, <1>3
  <2>3. ASSUME NEW e \in events', NEW f \in events', e.at = f.at
        PROVE  e.subscription = f.subscription /\ e.object = f.object
    <3>1. CASE e \in made
      BY <1>1, <1>3, <2>3, <3>1
    <3>2. CASE e \in events
      BY <1>1, <1>3, <2>3, <3>2 DEF LifeInv, Chronicle
    <3> QED
      BY <1>1, <3>1, <3>2
  <2>4. ASSUME NEW e \in events', e.at = changes'
        PROVE  e.object.status = subscription'[e.subscription].status
    BY <1>1, <1>3, <1>4, <2>4
  <2>5. \A e \in events' : e.kind = "deleted" => e.object.status = "canceled"
    BY <1>1 DEF LifeInv, Chronicle
  <2> QED
    BY <2>1, <2>2, <2>3, <2>4, <2>5 DEF Chronicle, Newest
<1>6. ASSUME OrderInv PROVE OrderInv'
  <2> USE <1>6 DEF OrderInv
  <2>1. AtMostOne'
    BY <1>1 DEF AtMostOne
  <2>2. \A e \in Answered' : e \in Answered
    BY <1>1 DEF Answered
  <2>3. \A h \in Handlers : handler[h].pc # "idle" => handler[h].event \in events
    BY DEF IInv, HandlerInv, TypeOK
  <2>4. OldestFirst'
    <3>1. ASSUME NEW e \in Answered', NEW f \in owed' PROVE e.at <= f.at
      BY <1>1, <1>2, <2>2 DEF OldestFirst, Answered
    <3>2. ASSUME NEW h \in Handlers, NEW f \in owed', handler[h].pc # "idle"
          PROVE  handler[h].event.at <= f.at
      BY <1>1, <1>2, <2>3, <3>2 DEF OldestFirst
    <3> QED
      BY <1>1, <3>1, <3>2 DEF OldestFirst
  <2>5. OneCustomer'
    <3>1. n.customer = user.customer
      BY <1>1 DEF OneCustomer
    <3>2. \A t \in Subscriptions :
             subscription'[t].status # "none" => subscription'[t].customer = user.customer
      BY <1>4, <3>1 DEF OneCustomer
    <3>3. \A e \in events' : e.object.customer = user.customer
      BY <1>1, <3>1 DEF OneCustomer
    <3> QED
      BY <1>1, <3>2, <3>3 DEF OneCustomer
  <2>6. UpToDate'
    <3>1. \A e \in Answered' : e.at # changes'
      BY <1>3, <2>2 DEF Answered
    <3>2. \A h \in Handlers : handler[h].pc # "idle" => handler[h].event.at # changes'
      BY <1>3, <2>3
    <3> QED
      BY <1>1, <3>1, <3>2 DEF UpToDate, Newest
  <2> QED
    BY <2>1, <2>4, <2>5, <2>6
<1> QED
  BY <1>1, <1>5, <1>6 DEF LifeInv

LEMMA AbandonOrder ==
  ASSUME IInv, LifeInv, NEW s \in Subscriptions, Abandon(s)
  PROVE  LifeInv'
<1>1. /\ subscription' = [subscription EXCEPT ![s].status = "expired"]
      /\ UNCHANGED <<orderly, customers, events, owed, user, handler, buyer, changes>>
  BY DEF Abandon
<1>2. \A t \in Subscriptions : t # s => subscription'[t] = subscription[t]
  BY <1>1 DEF IInv, TypeOK
<1>3. subscription'[s].customer = subscription[s].customer
  BY <1>1 DEF IInv, TypeOK, Bought
<1>4. \A e \in events : subscription'[e.subscription] = subscription[e.subscription]
  <2>1. \A e \in events : e.subscription \in Subscriptions /\ e.subscription # s
    BY DEF IInv, TypeOK, EventInv, Event, Sold, Abandon
  <2> QED
    BY <1>2, <2>1
<1>5. Chronicle'
  BY <1>1, <1>4, ChronicleKept DEF LifeInv
<1>6. ASSUME OrderInv PROVE OrderInv'
  <2>1. AtMostOne' /\ OldestFirst' /\ UpToDate'
    BY <1>1, <1>6 DEF OrderInv, AtMostOne, OldestFirst, UpToDate, Answered, Newest
  <2>2. \A t \in Subscriptions :
           subscription'[t].status # "none" => subscription'[t].customer = user.customer
    BY <1>2, <1>3, <1>6 DEF OrderInv, OneCustomer, Abandon
  <2>3. OneCustomer'
    BY <1>1, <1>6, <2>2 DEF OrderInv, OneCustomer
  <2> QED
    BY <2>1, <2>3 DEF OrderInv
<1> QED
  BY <1>1, <1>5, <1>6 DEF LifeInv

LEMMA StripeOrder ==
  ASSUME IInv, LifeInv, NEW s \in Subscriptions, AtStripe(s)
  PROVE  LifeInv'
<1>1. subscription[s] \in Bought /\ subscription[s].ends \in BOOLEAN
  BY DEF IInv, TypeOK, Bought
<1>2. CASE Abandon(s)
  BY <1>2, AbandonOrder
<1>3. CASE ~Abandon(s)
  <2>1. PICK status \in Sold, ends \in BOOLEAN, kinds \in SUBSET Kinds :
           /\ Change(s, status, ends, kinds) /\ subscription[s].status # "none"
           /\ kinds # {} /\ ("deleted" \in kinds => status = "canceled")
    <3>0. /\ {"upsert"} \in SUBSET Kinds /\ "deleted" \notin {"upsert"}
          /\ "upsert" \in {"upsert"} /\ FALSE \in BOOLEAN
          /\ Sold = {"incomplete", "active", "past_due", "canceled"}
      BY DEF Kinds, Sold
    <3>1. CASE Subscribe(s)
      BY <3>0, <3>1 DEF Subscribe
    <3>2. CASE Pay(s)
      <4>1. {"checkout", "upsert", "paid"} \in SUBSET Kinds /\ "paid" \in {"checkout", "upsert", "paid"}
            /\ "deleted" \notin {"checkout", "upsert", "paid"}
        BY DEF Kinds
      <4> QED
        BY <3>0, <3>2, <4>1 DEF Pay
    <3>3. CASE FailPayment(s)
      BY <1>1, <3>3 DEF FailPayment, Sold, Kinds
    <3>4. CASE Recover(s)
      BY <1>1, <3>4 DEF Recover, Sold, Kinds
    <3>5. CASE SetEnds(s)
      BY <1>1, <3>0, <3>5 DEF SetEnds
    <3>6. CASE Cancel(s)
      BY <1>1, <3>6 DEF Cancel, Sold, Kinds
    <3> QED
      BY <1>3, <3>1, <3>2, <3>3, <3>4, <3>5, <3>6 DEF AtStripe
  <2> QED
    BY <2>1, ChangeOrder
<1> QED
  BY <1>2, <1>3

-----------------------------------------------------------------------------
(* The checkout of an orderly life *)

\* What a call of the checkout cannot disturb.
LEMMA NothingHandled ==
  ASSUME UNCHANGED <<events, owed, handler, changes>>, user'.status = user.status,
         OldestFirst, UpToDate
  PROVE  OldestFirst' /\ UpToDate'
BY DEF OldestFirst, UpToDate, Answered, Newest

\* A call becomes n; nothing is sold, and the owner is as before.
LEMMA BuyerOrder ==
  ASSUME IInv, LifeInv, NEW b \in Buyers, NEW n \in Buying, buyer' = [buyer EXCEPT ![b] = n],
         orderly /\ n.pc # "idle" /\ buyer[b].pc = "idle" => BuyersIdle,
         orderly /\ n.pc \in {"customer", "link"} => user.customer = NoCustomer,
         orderly /\ n.pc = "session" => n.customer = user.customer,
         UNCHANGED <<orderly, subscription, events, changes, owed, user, handler>>
  PROVE  LifeInv'
<1>1. \A d \in Buyers : buyer'[d] = IF d = b THEN n ELSE buyer[d]
  BY DEF IInv, TypeOK
<1>2. Chronicle'
  BY ChronicleKept DEF LifeInv
<1>3. ASSUME orderly PROVE OrderInv'
  <2>1. OrderInv
    BY <1>3 DEF LifeInv
  <2>2. OldestFirst' /\ UpToDate'
    BY <2>1, NothingHandled DEF OrderInv
  <2>3. AtMostOne'
    <3>1. ASSUME NEW c \in Buyers, NEW d \in Buyers, buyer'[c].pc # "idle", buyer'[d].pc # "idle"
          PROVE  c = d
      <4>1. CASE buyer[b].pc = "idle" /\ n.pc # "idle"
        BY <1>1, <1>3, <3>1, <4>1 DEF BuyersIdle
      <4>2. CASE buyer[b].pc # "idle" \/ n.pc = "idle"
        BY <1>1, <2>1, <3>1, <4>2 DEF OrderInv, AtMostOne
      <4> QED
        BY <4>1, <4>2
    <3> QED
      BY <2>1, <3>1 DEF OrderInv, AtMostOne
  <2>4. OneCustomer'
    <3>1. \A d \in Buyers :
             /\ buyer'[d].pc \in {"customer", "link"} => user.customer = NoCustomer
             /\ buyer'[d].pc = "session" => buyer'[d].customer = user.customer
      BY <1>1, <1>3, <2>1 DEF OrderInv, OneCustomer
    <3> QED
      BY <2>1, <3>1 DEF OrderInv, OneCustomer
  <2> QED
    BY <2>2, <2>3, <2>4 DEF OrderInv
<1> QED
  BY <1>2, <1>3 DEF LifeInv

LEMMA CheckoutOrder ==
  ASSUME IInv, LifeInv, NEW b \in Buyers,
         CheckoutRead(b) \/ CreateCustomer(b) \/ CheckoutFails(b)
  PROVE  LifeInv'
<1>1. CASE CheckoutRead(b)
  <2> DEFINE n == [pc |-> IF user.customer = NoCustomer THEN "customer" ELSE "session",
                   customer |-> user.customer]
  <2>1. n \in Buying
    BY DEF IInv, TypeOK, User, Buying
  <2>2. /\ n.pc = "customer" => user.customer = NoCustomer
        /\ n.pc # "link" /\ n.customer = user.customer
    OBVIOUS
  <2>3. /\ buyer' = [buyer EXCEPT ![b] = n] /\ (orderly => BuyersIdle)
        /\ UNCHANGED <<orderly, subscription, events, changes, owed, user, handler>>
    BY <1>1 DEF CheckoutRead, stripe
  <2> HIDE DEF n
  <2> QED
    BY <2>1, <2>2, <2>3, BuyerOrder
<1>2. CASE CreateCustomer(b)
  <2>1. PICK c \in Customers : buyer' = [buyer EXCEPT ![b].pc = "link", ![b].customer = c]
    <3>1. (CHOOSE c \in Customers \ customers : TRUE) \in Customers
      BY <1>2 DEF CreateCustomer
    <3> QED
      BY <1>2, <3>1 DEF CreateCustomer
  <2> DEFINE n == [buyer[b] EXCEPT !.pc = "link", !.customer = c]
  <2>2. n \in Buying /\ n.pc = "link"
    BY DEF IInv, TypeOK, Buying
  <2>3. buyer' = [buyer EXCEPT ![b] = n]
    BY <2>1 DEF IInv, TypeOK
  <2>4. /\ buyer[b].pc = "customer"
        /\ UNCHANGED <<orderly, subscription, events, changes, owed, user, handler>>
    BY <1>2 DEF CreateCustomer, stripe
  <2>5. orderly => user.customer = NoCustomer
    BY <2>4 DEF LifeInv, OrderInv, OneCustomer
  <2> HIDE DEF n
  <2> QED
    BY <2>2, <2>3, <2>4, <2>5, BuyerOrder
<1>3. CASE CheckoutFails(b)
  <2>1. /\ buyer' = [buyer EXCEPT ![b] = Away]
        /\ UNCHANGED <<orderly, subscription, events, changes, owed, user, handler>>
    BY <1>3 DEF CheckoutFails, stripe
  <2> QED
    BY <2>1, AwayType, BuyerOrder
<1> QED
  BY <1>1, <1>2, <1>3

\* Before the owner is linked to a customer nothing was sold.
LEMMA LinkCustomerOrder ==
  ASSUME IInv, LifeInv, NEW b \in Buyers, LinkCustomer(b)
  PROVE  LifeInv'
<1> DEFINE n == [buyer[b] EXCEPT !.pc = "session"]
<1>1. /\ buyer[b].pc = "link" /\ buyer' = [buyer EXCEPT ![b] = n]
      /\ UNCHANGED <<orderly, subscription, events, changes, owed, handler>>
  BY DEF LinkCustomer, stripe, IInv, TypeOK
<1>2. user'.status = user.status /\ user'.customer = buyer[b].customer
  BY DEF LinkCustomer, IInv, TypeOK, User
<1>3. n.pc = "session" /\ n.customer = buyer[b].customer
  BY DEF IInv, TypeOK, Buying
<1> HIDE DEF n
<1>4. Chronicle'
  BY <1>1, ChronicleKept DEF LifeInv
<1>5. ASSUME orderly PROVE OrderInv'
  <2>1. OrderInv
    BY <1>5 DEF LifeInv
  <2>2. OldestFirst' /\ UpToDate'
    BY <1>1, <1>2, <2>1, NothingHandled DEF OrderInv
  <2>3. \A d \in Buyers : buyer'[d] = IF d = b THEN n ELSE buyer[d]
    BY <1>1 DEF IInv, TypeOK
  <2>4. AtMostOne'
    <3>1. \A d \in Buyers : buyer'[d].pc # "idle" => buyer[d].pc # "idle"
      BY <1>1, <2>3
    <3> QED
      BY <1>1, <2>1, <3>1 DEF OrderInv, AtMostOne
  <2>5. user.customer = NoCustomer
    BY <1>1, <2>1 DEF OrderInv, OneCustomer
  <2>6. \A s \in Subscriptions : subscription[s].status = "none"
    BY <2>5 DEF IInv, CustomerInv
  <2>7. events = {}
    <3>1. \A e \in events : e.subscription \in Subscriptions /\ subscription[e.subscription].status \in Sold
      BY DEF IInv, EventInv, TypeOK, Event
    <3> QED
      BY <2>6, <3>1 DEF Sold
  <2>8. \A h \in Handlers : handler[h].pc = "idle"
    BY <2>7 DEF IInv, HandlerInv, TypeOK
  <2>9. \A d \in Buyers : d # b => buyer[d].pc = "idle"
    BY <1>1, <2>1 DEF OrderInv, AtMostOne
  <2>10. OneCustomer'
    BY <1>1, <1>2, <1>3, <2>3, <2>6, <2>7, <2>8, <2>9 DEF OneCustomer
  <2> QED
    BY <2>2, <2>4, <2>10 DEF OrderInv
<1> QED
  BY <1>1, <1>4, <1>5 DEF LifeInv

LEMMA CreateSessionOrder ==
  ASSUME IInv, LifeInv, NEW b \in Buyers, CreateSession(b)
  PROVE  LifeInv'
<1>1. PICK s \in Unsold :
        subscription' = [subscription EXCEPT ![s] =
            [status |-> "offered", ends |-> FALSE, customer |-> buyer[b].customer]]
  BY DEF CreateSession
<1>2. /\ buyer[b].pc = "session" /\ buyer' = [buyer EXCEPT ![b] = Away]
      /\ UNCHANGED <<orderly, events, changes, owed, user, handler>>
  BY DEF CreateSession
<1>3. s \in Subscriptions /\ subscription[s].status = "none"
  BY DEF Unsold
<1>4. \A t \in Subscriptions : subscription'[t] = IF t = s
        THEN [status |-> "offered", ends |-> FALSE, customer |-> buyer[b].customer]
        ELSE subscription[t]
  BY <1>1 DEF IInv, TypeOK
<1>5. \A e \in events : subscription'[e.subscription] = subscription[e.subscription]
  <2>1. \A e \in events : e.subscription \in Subscriptions /\ e.subscription # s
    BY <1>3 DEF IInv, TypeOK, EventInv, Event, Sold
  <2> QED
    BY <1>4, <2>1
<1>6. Chronicle'
  BY <1>2, <1>5, ChronicleKept DEF LifeInv
<1>7. ASSUME orderly PROVE OrderInv'
  <2>1. OrderInv
    BY <1>7 DEF LifeInv
  <2>2. OldestFirst' /\ UpToDate'
    BY <1>2, <2>1, NothingHandled DEF OrderInv
  <2>3. \A d \in Buyers : buyer'[d] = buyer[d] \/ buyer'[d].pc = "idle"
    BY <1>2, AwayType DEF IInv, TypeOK
  <2>4. AtMostOne'
    BY <1>2, <2>1, <2>3 DEF OrderInv, AtMostOne
  <2>5. buyer[b].customer = user.customer
    BY <1>2, <2>1 DEF OrderInv, OneCustomer
  <2>6. \A t \in Subscriptions :
           subscription'[t].status # "none" => subscription'[t].customer = user.customer
    BY <1>4, <2>1, <2>5 DEF OrderInv, OneCustomer
  <2>7. OneCustomer'
    BY <1>2, <2>1, <2>3, <2>6 DEF OrderInv, OneCustomer
  <2> QED
    BY <2>2, <2>4, <2>7 DEF OrderInv
<1> QED
  BY <1>2, <1>6, <1>7 DEF LifeInv

-----------------------------------------------------------------------------
(* The webhook of an orderly life *)

\* What a step of a handler leaves alone, when it answers nothing.
LEMMA HandlerOrder ==
  ASSUME IInv, LifeInv, NEW h \in Handlers, NEW n \in Delivering, handler' = [handler EXCEPT ![h] = n],
         user' \in User, orderly => user'.customer = user.customer,
         orderly /\ user' # user => /\ handler[h].pc # "idle" /\ n.pc = "invalidate"
                                    /\ \A e \in Answered : Newest(e) => user'.status = e.object.status,
         orderly /\ n.pc # "idle" =>
            /\ handler[h].pc = "idle" => HandlersIdle
            /\ \A f \in owed : n.event.at <= f.at,
         orderly /\ n.pc \in {"retrieve", "save"} =>
            n.seen.status = user.status /\ n.seen.customer = user.customer,
         orderly /\ n.pc = "save" =>
            /\ n.want.customer = user.customer
            /\ Newest(n.event) => n.want.status = n.event.object.status,
         orderly /\ n.pc = "invalidate" /\ Newest(n.event) => user'.status = n.event.object.status,
         UNCHANGED <<orderly, subscription, events, changes, owed, buyer>>
  PROVE  LifeInv'
<1>1. \A g \in Handlers : handler'[g] = IF g = h THEN n ELSE handler[g]
  BY DEF IInv, TypeOK
<1>2. Chronicle'
  BY ChronicleKept DEF LifeInv
<1>3. ASSUME orderly PROVE OrderInv'
  <2>1. OrderInv
    BY <1>3 DEF LifeInv
  <2>2. \A g \in Handlers : g # h /\ n.pc # "idle" => handler[g].pc = "idle"
    BY <1>3, <2>1 DEF OrderInv, AtMostOne, HandlersIdle
  <2>3. \A g \in Handlers : g # h /\ user' # user => handler[g].pc = "idle"
    BY <1>3, <2>1 DEF OrderInv, AtMostOne
  <2>4. AtMostOne'
    <3>1. \A f, g \in Handlers : handler'[f].pc # "idle" /\ handler'[g].pc # "idle" => f = g
      <4> SUFFICES ASSUME NEW f \in Handlers, NEW g \in Handlers,
                          handler'[f].pc # "idle", handler'[g].pc # "idle"
                   PROVE  f = g
        OBVIOUS
      <4>1. CASE n.pc = "idle"
        BY <1>1, <2>1, <4>1 DEF OrderInv, AtMostOne
      <4>2. CASE n.pc # "idle"
        BY <1>1, <2>2, <4>2
      <4> QED
        BY <4>1, <4>2
    <3> QED
      BY <2>1, <3>1 DEF OrderInv, AtMostOne
  <2>5. OldestFirst'
    <3>1. \A g \in Handlers, f \in owed : handler'[g].pc # "idle" => handler'[g].event.at <= f.at
      BY <1>1, <1>3, <2>1 DEF OrderInv, OldestFirst
    <3> QED
      BY <2>1, <3>1 DEF OrderInv, OldestFirst, Answered
  <2>6. OneCustomer'
    <3>1. \A g \in Handlers :
             /\ handler'[g].pc \in {"retrieve", "save"} => handler'[g].seen.customer = user.customer
             /\ handler'[g].pc = "save" => handler'[g].want.customer = user.customer
      <4> SUFFICES ASSUME NEW g \in Handlers
                   PROVE  /\ handler'[g].pc \in {"retrieve", "save"} =>
                                handler'[g].seen.customer = user.customer
                          /\ handler'[g].pc = "save" => handler'[g].want.customer = user.customer
        OBVIOUS
      <4>1. CASE g = h
        BY <1>1, <1>3, <4>1
      <4>2. CASE g # h
        BY <1>1, <2>1, <4>2 DEF OrderInv, OneCustomer
      <4> QED
        BY <4>1, <4>2
    <3> QED
      BY <1>3, <2>1, <3>1 DEF OrderInv, OneCustomer
  <2>7. UpToDate'
    <3>1. ASSUME NEW g \in Handlers
          PROVE  /\ handler'[g].pc \in {"retrieve", "save"} => handler'[g].seen.status = user'.status
                 /\ handler'[g].pc = "save" /\ Newest(handler'[g].event) =>
                       handler'[g].want.status = handler'[g].event.object.status
                 /\ handler'[g].pc = "invalidate" /\ Newest(handler'[g].event) =>
                       user'.status = handler'[g].event.object.status
      <4>1. CASE g = h
        BY <1>1, <1>3, <4>1
      <4>2. CASE g # h
        BY <1>1, <2>1, <2>3, <4>2 DEF OrderInv, UpToDate
      <4> QED
        BY <4>1, <4>2
    <3>2. \A e \in Answered : Newest(e) => user'.status = e.object.status
      BY <1>3, <2>1 DEF OrderInv, UpToDate
    <3> QED
      BY <3>1, <3>2 DEF UpToDate, Answered, Newest
  <2> QED
    BY <2>4, <2>5, <2>6, <2>7 DEF OrderInv
<1> QED
  BY <1>2, <1>3 DEF LifeInv

LEMMA DeliverOrder ==
  ASSUME IInv, LifeInv, NEW h \in Handlers, NEW e \in owed, Deliver(h, e)
  PROVE  LifeInv'
<1>1. /\ handler[h].pc = "idle"
      /\ orderly => HandlersIdle /\ \A f \in owed : e.at <= f.at
      /\ UNCHANGED <<orderly, subscription, events, changes, user, buyer>>
  BY DEF Deliver, stripe
<1>2. e \in events /\ e \in Event /\ user \in User /\ e.object.status \in Sold
      /\ e.object \in Bought /\ e.subscription \in Subscriptions
  BY DEF IInv, TypeOK, EventInv, Event
<1>3. CASE FindsUser(e)
  <2> DEFINE pc == IF e.kind \in {"upsert", "deleted"} THEN "save" ELSE "retrieve"
             w == Applied(user, e)
             n == [pc |-> pc, event |-> e, seen |-> user, want |-> w]
  <2>1. handler' = [handler EXCEPT ![h] = n] /\ owed' = owed
    BY <1>3 DEF Deliver
  <2>2. w \in User /\ w.customer \in {user.customer, e.object.customer}
    BY <1>2, AppliedType
  <2>3. w.status = e.object.status
    <3>1. CASE e.kind = "deleted"
      BY <1>2, <3>1 DEF Applied, Ended, User, LifeInv, Chronicle
    <3>2. CASE e.kind # "deleted"
      BY <3>2 DEF Applied, Synced
    <3> QED
      BY <3>1, <3>2
  <2>4. orderly => w.customer = user.customer
    BY <1>2, <2>2 DEF LifeInv, OrderInv, OneCustomer
  <2>5. pc \in {"save", "retrieve"}
    OBVIOUS
  <2> HIDE DEF w, pc
  <2>6. /\ n \in Delivering /\ n.event = e /\ n.pc \in {"save", "retrieve"}
        /\ n.seen = user /\ n.want = w
    BY <1>2, <2>2, <2>5 DEF Delivering
  <2> HIDE DEF n
  <2> QED
    BY <1>1, <1>2, <2>1, <2>3, <2>4, <2>6, HandlerOrder
<1>4. CASE ~FindsUser(e)
  <2>1. ~orderly
    BY <1>2, <1>4 DEF FindsUser, LifeInv, OrderInv, OneCustomer
  <2>2. Chronicle'
    BY <1>1, ChronicleKept DEF LifeInv
  <2> QED
    BY <1>1, <2>1, <2>2 DEF LifeInv
<1> QED
  BY <1>3, <1>4

\* The subscription as it is now has the status the newest event has.
LEMMA RetrieveOrder ==
  ASSUME IInv, LifeInv, NEW h \in Handlers, Retrieve(h)
  PROVE  LifeInv'
<1> DEFINE e == handler[h].event
           w == Synced(handler[h].seen, e.subscription, subscription[e.subscription])
           n == [handler[h] EXCEPT !.pc = "save", !.want = w]
<1>1. /\ handler[h] \in Delivering /\ handler[h].pc = "retrieve" /\ e \in owed /\ e \in events
  BY DEF Retrieve, IInv, HandlerInv, TypeOK, Delivering
<1>2. /\ e.subscription \in Subscriptions
      /\ subscription[e.subscription] \in Bought
      /\ subscription[e.subscription].status \in Sold
  BY <1>1 DEF IInv, TypeOK, EventInv, Event, Sold
<1>3. /\ w \in User /\ w.customer = subscription[e.subscription].customer
      /\ w.status = subscription[e.subscription].status
  BY <1>2, SyncedType DEF Synced
<1>4. /\ handler' = [handler EXCEPT ![h].pc = "save", ![h].want = w]
      /\ UNCHANGED <<orderly, subscription, events, changes, owed, user, buyer>>
  BY DEF Retrieve, stripe
<1>5. orderly => w.customer = user.customer
  BY <1>2, <1>3 DEF LifeInv, OrderInv, OneCustomer, Sold
<1>6. Newest(e) => w.status = e.object.status
  BY <1>1, <1>3 DEF LifeInv, Chronicle
<1> HIDE DEF w
<1>7. handler' = [handler EXCEPT ![h] = n]
  BY <1>1, <1>4 DEF IInv, TypeOK, Delivering
<1>8. /\ n \in Delivering /\ n.pc = "save" /\ n.event = e
      /\ n.seen = handler[h].seen /\ n.want = w
  BY <1>1, <1>3 DEF Delivering
<1> HIDE DEF n
<1>9. orderly => handler[h].seen.status = user.status /\ handler[h].seen.customer = user.customer
                 /\ \A f \in owed : e.at <= f.at
  BY <1>1 DEF LifeInv, OrderInv, OneCustomer, UpToDate, OldestFirst
<1>10. user \in User
  BY DEF IInv, TypeOK
<1> HIDE DEF e
<1>11. orderly => \A f \in owed : n.event.at <= f.at
  BY <1>8, <1>9
<1>12. Newest(n.event) => n.want.status = n.event.object.status
  BY <1>6, <1>8
<1>13. orderly => /\ n.seen.status = user.status /\ n.seen.customer = user.customer
                  /\ n.want.customer = user.customer
  BY <1>5, <1>8, <1>9
<1>14. n \in Delivering /\ n.pc = "save" /\ handler[h].pc # "idle"
  BY <1>1, <1>8
<1> QED
  BY <1>4, <1>7, <1>10, <1>11, <1>12, <1>13, <1>14, HandlerOrder

LEMMA WebhookFailsOrder ==
  ASSUME IInv, LifeInv, NEW h \in Handlers, WebhookFails(h)
  PROVE  LifeInv'
<1>1. /\ handler' = [handler EXCEPT ![h] = Resting]
      /\ UNCHANGED <<orderly, subscription, events, changes, owed, user, buyer>>
  BY DEF WebhookFails, stripe
<1>2. user \in User
  BY DEF IInv, TypeOK
<1> QED
  BY <1>1, <1>2, RestingType, HandlerOrder

\* A save writes the status its event tells, for the record is as it was seen.
LEMMA SavedStatus ==
  ASSUME user \in User, NEW seen \in User, NEW want \in User, seen.status = user.status
  PROVE  Saved(seen, want).status = want.status
<1>1. DOMAIN user = {"customer", "subscription", "status", "ends"}
  BY DEF User
<1> QED
  BY <1>1 DEF Saved

LEMMA SaveOrder ==
  ASSUME IInv, LifeInv, NEW h \in Handlers, Save(h)
  PROVE  LifeInv'
<1> DEFINE e == handler[h].event
           n == [Resting EXCEPT !.pc = "invalidate", !.event = e]
           u == Saved(handler[h].seen, handler[h].want)
<1>1. /\ handler[h] \in Delivering /\ handler[h].pc = "save" /\ e \in owed /\ e \in events
      /\ handler[h].seen \in User /\ handler[h].want \in User /\ e \in Event /\ user \in User
  BY DEF Save, IInv, HandlerInv, TypeOK, Delivering
<1>2. u \in User /\ u.customer \in {user.customer, handler[h].want.customer}
  BY <1>1, SavedType
<1>3. n \in Delivering /\ n.pc = "invalidate" /\ n.event = e
  BY <1>1, RestingType DEF Delivering
<1>4. /\ handler' = [handler EXCEPT ![h] = n] /\ user' = u
      /\ UNCHANGED <<orderly, subscription, events, changes, owed, buyer>>
  BY DEF Save, stripe
<1> HIDE DEF n
<1>5. ASSUME orderly
      PROVE  /\ u.customer = user.customer
             /\ \A f \in owed : e.at <= f.at
             /\ Newest(e) => u.status = e.object.status
             /\ \A d \in Answered : Newest(d) => u.status = d.object.status
  <2>1. OrderInv
    BY <1>5 DEF LifeInv
  <2>2. u.customer = user.customer
    BY <1>1, <1>2, <2>1 DEF OrderInv, OneCustomer
  <2>3. \A f \in owed : e.at <= f.at
    BY <1>1, <2>1 DEF OrderInv, OldestFirst
  <2>4. u.status = handler[h].want.status
    <3>1. handler[h].seen.status = user.status
      BY <1>1, <2>1 DEF OrderInv, UpToDate
    <3> QED
      BY <1>1, <3>1, SavedStatus
  <2>5. Newest(e) => u.status = e.object.status
    BY <1>1, <2>1, <2>4 DEF OrderInv, UpToDate
  <2>6. ASSUME NEW d \in Answered, Newest(d)
        PROVE  u.status = d.object.status
    <3>1. d \in events /\ d \in Event /\ d.at <= e.at /\ e.at <= changes
      BY <1>1, <2>1 DEF OrderInv, OldestFirst, Answered, LifeInv, Chronicle, IInv, TypeOK
    <3>2. e.at = changes /\ d.at = e.at
      <4>1. e.at \in Nat /\ d.at \in Nat /\ changes \in Nat
        BY <1>1, <3>1 DEF Event, IInv, TypeOK
      <4> QED
        BY <2>6, <3>1, <4>1 DEF Newest
    <3>3. d.object = e.object
      BY <1>1, <3>1, <3>2 DEF LifeInv, Chronicle
    <3> QED
      BY <2>5, <3>2, <3>3 DEF Newest
  <2> QED
    BY <2>2, <2>3, <2>5, <2>6
<1> HIDE DEF u, e
<1> QED
  BY <1>1, <1>2, <1>3, <1>4, <1>5, HandlerOrder

\* The oldest event is answered, having been recorded.
LEMMA InvalidateOrder ==
  ASSUME IInv, LifeInv, NEW h \in Handlers, Invalidate(h)
  PROVE  LifeInv'
<1> DEFINE e == handler[h].event
<1>1. /\ handler[h].pc = "invalidate" /\ handler' = [handler EXCEPT ![h] = Resting]
      /\ owed' = owed \ {e}
      /\ UNCHANGED <<orderly, subscription, events, changes, user, buyer>>
  BY DEF Invalidate, stripe
<1>2. Chronicle'
  BY <1>1, ChronicleKept DEF LifeInv
<1>3. ASSUME orderly PROVE OrderInv'
  <2>1. OrderInv
    BY <1>3 DEF LifeInv
  <2>2. \A g \in Handlers : handler'[g] = handler[g] \/ handler'[g] = Resting
    BY <1>1 DEF IInv, TypeOK
  <2>3. Resting.pc = "idle"
    BY RestingType
  <2>4. AtMostOne' /\ OneCustomer'
    BY <1>1, <2>1, <2>2, <2>3 DEF OrderInv, AtMostOne, OneCustomer
  <2>5. \A d \in Answered' : d \in Answered \/ d = e
    BY <1>1 DEF Answered
  <2>6. \A f \in owed : e.at <= f.at
    BY <1>1, <2>1 DEF OrderInv, OldestFirst
  <2>7. OldestFirst'
    <3>1. \A d \in Answered', f \in owed' : d.at <= f.at
      BY <1>1, <2>1, <2>5, <2>6 DEF OrderInv, OldestFirst
    <3>2. \A g \in Handlers, f \in owed' : handler'[g].pc # "idle" => handler'[g].event.at <= f.at
      BY <1>1, <2>1, <2>2, <2>3 DEF OrderInv, OldestFirst
    <3> QED
      BY <3>1, <3>2 DEF OldestFirst
  <2>8. UpToDate'
    <3>1. \A d \in Answered' : Newest(d) => user.status = d.object.status
      BY <1>1, <2>1, <2>5 DEF OrderInv, UpToDate
    <3>2. \A g \in Handlers :
             /\ handler'[g].pc \in {"retrieve", "save"} => handler'[g].seen.status = user.status
             /\ handler'[g].pc = "save" /\ Newest(handler'[g].event) =>
                   handler'[g].want.status = handler'[g].event.object.status
             /\ handler'[g].pc = "invalidate" /\ Newest(handler'[g].event) =>
                   user.status = handler'[g].event.object.status
      BY <2>1, <2>2, <2>3 DEF OrderInv, UpToDate
    <3> QED
      BY <1>1, <3>1, <3>2 DEF UpToDate, Newest
  <2> QED
    BY <2>4, <2>7, <2>8 DEF OrderInv
<1> QED
  BY <1>1, <1>2, <1>3 DEF LifeInv

-----------------------------------------------------------------------------
(* The record catches up *)

LEMMA LifeStart ==
  ASSUME Init
  PROVE  LifeInv
<1>1. Chronicle
  BY DEF Init, Chronicle
<1>2. AtMostOne /\ OldestFirst
  BY RestingType, AwayType DEF Init, AtMostOne, OldestFirst, Answered
<1>3. OneCustomer /\ UpToDate
  BY RestingType, AwayType DEF Init, OneCustomer, UpToDate, Answered, NoPurchase
<1> QED
  BY <1>1, <1>2, <1>3 DEF LifeInv, OrderInv

LEMMA QuietOrder ==
  ASSUME LifeInv, UNCHANGED <<orderly, subscription, events, owed, user, handler, buyer, changes>>
  PROVE  LifeInv'
BY DEF LifeInv, OrderInv, Chronicle, AtMostOne, OldestFirst, OneCustomer, UpToDate, Answered, Newest

LEMMA LifeNext ==
  ASSUME IInv, LifeInv, [Next]_vars
  PROVE  LifeInv'
<1>1. ASSUME NEW b \in Buyers, Checkout(b) PROVE LifeInv'
  BY <1>1, CheckoutOrder, LinkCustomerOrder, CreateSessionOrder DEF Checkout
<1>2. ASSUME NEW h \in Handlers, Handle(h) PROVE LifeInv'
  BY <1>2, RetrieveOrder, SaveOrder, InvalidateOrder DEF Handle
<1>3. ASSUME NEW e \in events, Repeat(e) PROVE LifeInv'
  <2>1. ~orderly /\ UNCHANGED <<orderly, subscription, events, changes>>
    BY <1>3 DEF Repeat, stripe
  <2>2. Chronicle'
    BY <2>1, ChronicleKept DEF LifeInv
  <2> QED
    BY <2>1, <2>2 DEF LifeInv
<1>4. CASE Authenticate \/ CopyExpires \/ TrialEnds \/ UNCHANGED vars
  <2>1. UNCHANGED <<orderly, subscription, events, owed, user, handler, buyer, changes>>
    BY <1>4 DEF Authenticate, CopyExpires, TrialEnds, vars, stripe
  <2> QED
    BY <2>1, QuietOrder
<1> QED
  BY <1>1, <1>2, <1>3, <1>4, StripeOrder, DeliverOrder, WebhookFailsOrder DEF Next

LEMMA LifeTells ==
  ASSUME IInv, LifeInv
  PROVE  RecordCaughtUp
<1> SUFFICES ASSUME orderly, owed = {}, events # {}
             PROVE  user.status = subscription[Latest.subscription].status
  BY DEF RecordCaughtUp
<1>1. \A e \in events : e.at \in Nat /\ e.at <= changes
  BY DEF IInv, TypeOK, Event, LifeInv, Chronicle
<1>2. changes \in Nat
  BY DEF IInv, TypeOK
<1>3. PICK e \in events : e.at = changes
  BY DEF LifeInv, Chronicle, Newest
<1>4. \A f \in events : f.at <= e.at
  BY <1>1, <1>3
<1>5. Latest \in events /\ \A f \in events : f.at <= Latest.at
  BY <1>3, <1>4 DEF Latest
<1> HIDE DEF Latest
<1>6. Newest(Latest)
  <2>1. Latest.at <= changes /\ changes <= Latest.at /\ Latest.at \in Nat
    BY <1>1, <1>3, <1>5
  <2> QED
    BY <1>2, <2>1 DEF Newest
<1>7. Latest \in Answered
  BY <1>5 DEF Answered
<1> QED
  BY <1>5, <1>6, <1>7 DEF LifeInv, OrderInv, UpToDate, Chronicle

\* The core of RecordCatchesUp: in an orderly life, whatever fails on the way,
\* the record is as Stripe has it by the time every event was answered.
THEOREM CaughtUp == Spec => []RecordCaughtUp
<1>1. Init => LifeInv
  BY LifeStart
<1>2. IInv /\ LifeInv /\ [Next]_vars => LifeInv'
  BY LifeNext
<1>3. IInv /\ LifeInv => RecordCaughtUp
  BY LifeTells
<1>4. QED
  BY <1>1, <1>2, <1>3, StripeCorrect, PTL DEF Spec
=============================================================================
