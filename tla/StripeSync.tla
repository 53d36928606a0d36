------------------------------ MODULE StripeSync ------------------------------
(***************************************************************************)
(* One owner's subscription: the checkout handler, Stripe with its events, *)
(* the webhook, and the copy of the status in the session check's cache.   *)
(*                                                                         *)
(* Stripe sends an event until it is answered 200, in any order, and may   *)
(* send it again. Some events carry the subscription as it was when they   *)
(* were made, others make the webhook retrieve it as it is. A handler is   *)
(* cut at its awaits; seen is the user document as it was loaded, and a    *)
(* save writes only the paths that differ from it.                         *)
(***************************************************************************)
EXTENDS Naturals

CONSTANTS
    Subscriptions,  \* Checkout sessions, and the subscriptions they become
    Customers,      \* customers Stripe may create
    Handlers,       \* deliveries of events that may run at once
    Buyers,         \* calls of the checkout that may run at once
    NoSubscription, NoCustomer, NoEvent, NoCopy,
    MaxChanges,     \* changes of the subscriptions at Stripe, in an orderly behaviour
    MaxDisorder,    \* and in another
    MaxTroubles     \* failures, crashes and repeated events

ASSUME NamesAssumption ==
    /\ NoSubscription \notin Subscriptions
    /\ NoCustomer \notin Customers
ASSUME BoundsAssumption == MaxChanges \in Nat /\ MaxDisorder \in Nat /\ MaxTroubles \in Nat

VARIABLES
    orderly,        \* whether, in this behaviour, one thing happens at a time
    subscription,   \* the subscriptions at Stripe
    customers,      \* the customers Stripe has created
    events,         \* the events Stripe has made
    owed,           \* those it will send
    user,           \* the billing fields of the owner's document
    trial,          \* whether the free trial still runs
    cached,         \* the status in the cache of the session check
    handler,        \* what each delivery is doing
    buyer,          \* what each call of the checkout is doing
    changes,        \* how many changes there were at Stripe
    troubles        \* how much has gone wrong

vars == <<orderly, subscription, customers, events, owed, user, trial, cached,
          handler, buyer, changes, troubles>>
stripe == <<subscription, events, changes>>

Statuses == {"none", "incomplete", "active", "past_due", "canceled"}
SubscriptionStatuses == Statuses \cup {"offered", "expired"}
Kinds == {"checkout", "upsert", "deleted", "paid", "failed"}

Bought == [status: SubscriptionStatuses, ends: BOOLEAN, customer: Customers \cup {NoCustomer}]
User == [customer: Customers \cup {NoCustomer}, subscription: Subscriptions \cup {NoSubscription},
         status: Statuses, ends: BOOLEAN]
Event == [kind: Kinds, subscription: Subscriptions, object: Bought, at: Nat]
ASSUME EventAssumption == NoEvent \notin Event /\ NoCopy \notin Statuses

NewUser == [customer |-> NoCustomer, subscription |-> NoSubscription,
            status |-> "none", ends |-> FALSE]
NoPurchase == [status |-> "none", ends |-> FALSE, customer |-> NoCustomer]
Resting == [pc |-> "idle", event |-> NoEvent, seen |-> NewUser, want |-> NewUser]
Away == [pc |-> "idle", customer |-> NoCustomer]

Init ==
    /\ orderly \in BOOLEAN
    /\ subscription = [s \in Subscriptions |-> NoPurchase]
    /\ customers = {}
    /\ events = {}
    /\ owed = {}
    /\ user = NewUser
    /\ trial \in {orderly, FALSE}
    /\ cached = NoCopy
    /\ handler = [h \in Handlers |-> Resting]
    /\ buyer = [b \in Buyers |-> Away]
    /\ changes = 0
    /\ troubles = 0

HandlersIdle == \A h \in Handlers : handler[h].pc = "idle"
BuyersIdle == \A b \in Buyers : buyer[b].pc = "idle"

\* user.save() after changing the copy seen to want.
Saved(seen, want) == [f \in DOMAIN user |-> IF want[f] # seen[f] THEN want[f] ELSE user[f]]

-----------------------------------------------------------------------------
(* The checkout *)

\* User.hasActiveAccess, for an owner without lifetime access.
HasActiveAccess(u) == u.status = "active" \/ trial

\* createCheckout up to its first await; one plan is sold, so to have had a
\* subscription is to have its plan.
CheckoutRead(b) ==
    /\ buyer[b].pc = "idle"
    /\ orderly => /\ owed = {} /\ HandlersIdle /\ BuyersIdle
                  /\ \A s \in Subscriptions : subscription[s].status # "offered"
    /\ ~(HasActiveAccess(user) /\ user.subscription # NoSubscription)
    /\ buyer' = [buyer EXCEPT ![b] =
         [pc |-> IF user.customer = NoCustomer THEN "customer" ELSE "session",
          customer |-> user.customer]]
    /\ UNCHANGED <<orderly, stripe, customers, owed, user, trial, cached, handler, troubles>>

\* ensureStripeCustomer: the customer exists at Stripe before the user knows.
CreateCustomer(b) ==
    /\ buyer[b].pc = "customer"
    /\ Customers \ customers # {}
    /\ LET c == CHOOSE c \in Customers \ customers : TRUE
       IN /\ customers' = customers \cup {c}
          /\ buyer' = [buyer EXCEPT ![b].pc = "link", ![b].customer = c]
    /\ UNCHANGED <<orderly, stripe, owed, user, trial, cached, handler, troubles>>

LinkCustomer(b) ==
    /\ buyer[b].pc = "link"
    /\ user' = [user EXCEPT !.customer = buyer[b].customer]
    /\ buyer' = [buyer EXCEPT ![b].pc = "session"]
    /\ UNCHANGED <<orderly, stripe, customers, owed, trial, cached, handler, troubles>>

Unsold == {s \in Subscriptions : subscription[s].status = "none"}

CreateSession(b) ==
    /\ buyer[b].pc = "session"
    /\ Unsold # {}
    /\ subscription' = [subscription EXCEPT ![CHOOSE s \in Unsold : TRUE] =
         [status |-> "offered", ends |-> FALSE, customer |-> buyer[b].customer]]
    /\ buyer' = [buyer EXCEPT ![b] = Away]
    /\ UNCHANGED <<orderly, customers, events, owed, user, trial, cached, handler, changes, troubles>>

CheckoutFails(b) ==
    /\ buyer[b].pc # "idle" /\ troubles < MaxTroubles
    /\ buyer' = [buyer EXCEPT ![b] = Away]
    /\ troubles' = troubles + 1
    /\ UNCHANGED <<orderly, stripe, customers, owed, user, trial, cached, handler>>

-----------------------------------------------------------------------------
(* Stripe *)

\* A subscription changes, and Stripe owes an event of each of these kinds.
Change(s, status, ends, kinds) ==
    LET new == [subscription[s] EXCEPT !.status = status, !.ends = ends]
        made == {[kind |-> k, subscription |-> s, object |-> new, at |-> changes + 1] : k \in kinds}
    IN /\ changes < IF orderly THEN MaxChanges ELSE MaxDisorder
       /\ changes' = changes + 1
       /\ subscription' = [subscription EXCEPT ![s] = new]
       /\ events' = events \cup made
       /\ owed' = owed \cup made
       /\ UNCHANGED <<orderly, customers, user, trial, cached, handler, buyer, troubles>>

Subscribe(s) == /\ subscription[s].status = "offered"
                /\ Change(s, "incomplete", FALSE, {"upsert"})
Pay(s) == /\ subscription[s].status = "incomplete"
          /\ Change(s, "active", FALSE, {"checkout", "upsert", "paid"})
FailPayment(s) == /\ subscription[s].status = "active"
                  /\ Change(s, "past_due", subscription[s].ends, {"upsert", "failed"})
Recover(s) == /\ subscription[s].status = "past_due"
              /\ Change(s, "active", subscription[s].ends, {"upsert", "paid"})
\* The owner has the subscription end with its period, or not, in the portal.
SetEnds(s) == /\ subscription[s].status = "active"
              /\ Change(s, "active", ~subscription[s].ends, {"upsert"})
Cancel(s) == /\ subscription[s].status \in {"incomplete", "active", "past_due"}
             /\ Change(s, "canceled", subscription[s].ends, {"deleted"})

Abandon(s) ==
    /\ subscription[s].status = "offered"
    /\ subscription' = [subscription EXCEPT ![s].status = "expired"]
    /\ UNCHANGED <<orderly, customers, events, owed, user, trial, cached, handler, buyer, changes, troubles>>

\* Stripe sends an event again that was answered.
Repeat(e) ==
    /\ ~orderly /\ e \notin owed /\ troubles < MaxTroubles
    /\ owed' = owed \cup {e}
    /\ troubles' = troubles + 1
    /\ UNCHANGED <<orderly, stripe, customers, user, trial, cached, handler, buyer>>

-----------------------------------------------------------------------------
(* The webhook *)

\* findUserForStripeObject: sessions and subscriptions carry the user's id,
\* invoices only the customer.
FindsUser(e) ==
    e.kind \in {"paid", "failed"} => e.object.customer = user.customer

\* What the cases of handleWebhook do to their copy, given the subscription
\* they go by: syncSubscriptionToUser, or markSubscriptionEnded.
Synced(u, s, object) ==
    [customer |-> object.customer, subscription |-> s, status |-> object.status, ends |-> object.ends]

\* What would be if the end were recorded under a name the schema lacks.
EndedUnlisted(u) == [u EXCEPT !.status = "ended", !.ends = FALSE]

Ended(u) == [u EXCEPT !.status = "canceled", !.ends = FALSE]
Applied(u, e) == IF e.kind = "deleted" THEN Ended(u) ELSE Synced(u, e.subscription, e.object)

\* An event arrives and its user is looked up. In order means: the oldest
\* first, one at a time.
Deliver(h, e) ==
    /\ handler[h].pc = "idle"
    /\ \A g \in Handlers : handler[g].event # e
    /\ orderly => HandlersIdle /\ \A f \in owed : e.at <= f.at
    /\ IF FindsUser(e)
       THEN /\ handler' = [handler EXCEPT ![h] =
                 [pc |-> IF e.kind \in {"upsert", "deleted"} THEN "save" ELSE "retrieve",
                  event |-> e, seen |-> user, want |-> Applied(user, e)]]
            /\ owed' = owed
       ELSE handler' = handler /\ owed' = owed \ {e}
    /\ UNCHANGED <<orderly, stripe, customers, user, trial, cached, buyer, troubles>>

\* stripe.subscriptions.retrieve: the subscription as it is now.
Retrieve(h) ==
    LET s == handler[h].event.subscription IN
    /\ handler[h].pc = "retrieve"
    /\ handler' = [handler EXCEPT ![h].pc = "save",
                                  ![h].want = Synced(handler[h].seen, s, subscription[s])]
    /\ UNCHANGED <<orderly, stripe, customers, owed, user, trial, cached, buyer, troubles>>

Save(h) ==
    /\ handler[h].pc = "save"
    /\ user' = Saved(handler[h].seen, handler[h].want)
    /\ handler' = [handler EXCEPT ![h] = [Resting EXCEPT !.pc = "invalidate", !.event = handler[h].event]]
    /\ UNCHANGED <<orderly, stripe, customers, owed, trial, cached, buyer, troubles>>

\* What would be if the cache were only cleared for a purchase.
InvalidatePurchases(h) ==
    /\ handler[h].pc = "invalidate"
    /\ cached' = IF handler[h].event.kind = "checkout" THEN NoCopy ELSE cached
    /\ owed' = owed \ {handler[h].event}
    /\ handler' = [handler EXCEPT ![h] = Resting]
    /\ UNCHANGED <<orderly, stripe, customers, user, trial, buyer, troubles>>

\* invalidateAuthCache, then the 200 that ends the event.
Invalidate(h) ==
    /\ handler[h].pc = "invalidate"
    /\ cached' = NoCopy
    /\ owed' = owed \ {handler[h].event}
    /\ handler' = [handler EXCEPT ![h] = Resting]
    /\ UNCHANGED <<orderly, stripe, customers, user, trial, buyer, troubles>>

\* What would be if an error were answered like a success.
WebhookFailsQuietly(h) ==
    /\ handler[h].pc # "idle" /\ troubles < MaxTroubles
    /\ handler' = [handler EXCEPT ![h] = Resting]
    /\ owed' = owed \ {handler[h].event}
    /\ troubles' = troubles + 1
    /\ UNCHANGED <<orderly, stripe, customers, user, trial, cached, buyer>>

\* An await throws, or the process dies: no 200, and Stripe will retry.
WebhookFails(h) ==
    /\ handler[h].pc # "idle" /\ troubles < MaxTroubles
    /\ handler' = [handler EXCEPT ![h] = Resting]
    /\ troubles' = troubles + 1
    /\ UNCHANGED <<orderly, stripe, customers, owed, user, trial, cached, buyer>>

-----------------------------------------------------------------------------
(* The session check's copy, and time *)

Authenticate ==
    /\ cached = NoCopy
    /\ cached' = user.status
    /\ UNCHANGED <<orderly, stripe, customers, owed, user, trial, handler, buyer, troubles>>

CopyExpires ==
    /\ cached # NoCopy
    /\ cached' = NoCopy
    /\ UNCHANGED <<orderly, stripe, customers, owed, user, trial, handler, buyer, troubles>>

TrialEnds ==
    /\ trial
    /\ trial' = FALSE
    /\ UNCHANGED <<orderly, stripe, customers, owed, user, cached, handler, buyer, troubles>>

Checkout(b) == CheckoutRead(b) \/ CreateCustomer(b) \/ LinkCustomer(b) \/ CreateSession(b) \/ CheckoutFails(b)
AtStripe(s) == Subscribe(s) \/ Pay(s) \/ FailPayment(s) \/ Recover(s) \/ SetEnds(s) \/ Cancel(s) \/ Abandon(s)
Handle(h) == Retrieve(h) \/ Save(h) \/ Invalidate(h)

Next ==
    \/ \E b \in Buyers : Checkout(b)
    \/ \E s \in Subscriptions : AtStripe(s)
    \/ \E e \in events : Repeat(e)
    \/ \E h \in Handlers : (\E e \in owed : Deliver(h, e)) \/ Handle(h) \/ WebhookFails(h)
    \/ Authenticate
    \/ CopyExpires
    \/ TrialEnds

Spec == Init /\ [][Next]_vars

\* Stripe sends what it owes, and an await ends.
Delivery == \A h \in Handlers : WF_vars((\E e \in owed : Deliver(h, e)) \/ Handle(h))
LiveSpec == Spec /\ Delivery

-----------------------------------------------------------------------------
(* Properties *)

TypeOK ==
    /\ orderly \in BOOLEAN /\ trial \in BOOLEAN
    /\ subscription \in [Subscriptions -> Bought]
    /\ customers \subseteq Customers
    /\ events \subseteq Event /\ owed \subseteq events
    /\ user \in User
    /\ cached \in Statuses \cup {NoCopy}
    /\ handler \in [Handlers -> [pc: {"idle", "retrieve", "save", "invalidate"},
                                 event: Event \cup {NoEvent}, seen: User, want: User]]
    /\ buyer \in [Buyers -> [pc: {"idle", "customer", "link", "session"},
                             customer: Customers \cup {NoCustomer}]]
    /\ changes \in Nat /\ troubles \in 0..MaxTroubles

\* The cached status differs from the record's only while the webhook that
\* changed it has not been answered 200: after that, who is let in is who the
\* record says, whatever failed or overlapped. An owner for whom two checkouts
\* at once created two customers is the exception: an event of the first is
\* answered 200 without finding its user when it is sent again
\* (invalidateAuthCache in handleWebhook, stripe's retries).
AccessCopyFollows ==
    cached \notin {NoCopy, user.status} => owed # {} \/ \E c, d \in customers : c # d

Latest == CHOOSE e \in events : \A f \in events : f.at <= e.at

\* In an orderly life the record catches up with the last change at Stripe,
\* although the process fails in the middle of events.
RecordCatchesUp ==
    orderly => []<>(events # {} => user.status = subscription[Latest.subscription].status)

=============================================================================
