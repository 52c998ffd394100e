-------------------------- MODULE Subscribers_proofs --------------------------
(***************************************************************************)
(* Theorems about an address and its consent, for any set of editions, any *)
(* number of sign-ups and mails, and any lifetimes and retention times in  *)
(* the order that SubscribersAssumption states.                            *)
(***************************************************************************)
EXTENDS Subscribers, TLAPS

-----------------------------------------------------------------------------
(* Days and rows.                                                          *)

\* The days of the constants are numbers, and what is cut off lies beyond them.
LEMMA Days ==
    /\ MaxRequests \in Nat /\ MaxMails \in Nat
    /\ ConfirmationLifetime \in Nat /\ TokenRetention \in Nat
    /\ AddressRetention \in Nat /\ LinkLifetime \in Nat
    /\ LinkRetention \in Nat /\ MailRetention \in Nat /\ LinkPromise \in Nat
    /\ TokenRetention > 0 /\ AddressRetention > 0 /\ LinkPromise > 0
    /\ LinkPromise <= AddressRetention /\ LinkPromise < LinkLifetime
    /\ LinkLifetime <= MailRetention
    /\ LastUpdate = TokenRetention + 1 /\ LastUpdate \in Nat
    /\ LastLeft = AddressRetention + 1 /\ LastLeft \in Nat
    /\ LastConfirmation \in Nat
    /\ LastLink = LinkLifetime + LinkRetention + 1 /\ LastLink \in Nat
    /\ LastDelivery = MailRetention + 1 /\ LastDelivery \in Nat
BY SubscribersAssumption
   DEF LastUpdate, LastLeft, LastConfirmation, LastLink, LastDelivery

\* A day goes by, until days are no longer told apart; what never was does not
\* begin.
LEMMA NextDayMoves ==
    ASSUME NEW last \in Nat, NEW days \in Never .. last
    PROVE  /\ NextDay(days, last) \in Never .. last
           /\ NextDay(days, last) = Never <=> days = Never
           /\ days >= 0 => /\ NextDay(days, last) \in 0 .. last
                           /\ NextDay(days, last) >= days
           /\ NextDay(days, last) <= days + 1
           /\ (days >= 0 /\ days < last) => NextDay(days, last) = days + 1
BY DEF NextDay, Never

\* The first day is one of all that are counted, as is none where that may be.
LEMMA FirstDay ==
    /\ 0 \in 0 .. LastUpdate /\ 0 \in 0 .. LastConfirmation
    /\ 0 \in 0 .. LastDelivery
    /\ 0 \in Never .. LastLeft /\ Never \in Never .. LastLeft
    /\ Never # 0
BY Days DEF Never

\* Rows are there.
LEMMA RowsExist ==
    /\ \A row \in SubscriberRow : Exists(row)
    /\ \A row \in ConsentRow : Exists(row)
    /\ \A row \in ConfirmationRow : Exists(row)
    /\ \A row \in LinkRow : Exists(row)
    /\ \A row \in DeliveryRow : Exists(row)
    /\ ~Exists(None)
<1>1. \A row \in SubscriberRow : row.status # "none"
  BY DEF SubscriberRow, Statuses
<1>2. \A row \in ConfirmationRow : row.status # "none"
  BY DEF ConfirmationRow
<1>3. \A row \in LinkRow : row.status # "none"
  BY DEF LinkRow
<1>4. \A row \in DeliveryRow : row.status # "none"
  BY DEF DeliveryRow
<1>5. None.status = "none"
  BY DEF None
<1>6. \A row \in ConsentRow : row # None
  <2> SUFFICES ASSUME NEW row \in ConsentRow, row = None PROVE FALSE
    OBVIOUS
  <2>1. "kind" \in DOMAIN row
    BY DEF ConsentRow
  <2>2. "kind" \notin DOMAIN None
    BY DEF None
  <2> QED
    BY <2>1, <2>2
<1> QED
  BY <1>1, <1>2, <1>3, <1>4, <1>5, <1>6 DEF Exists

\* What there is, is a row.
LEMMA RowsAre ==
    ASSUME TypeOK
    PROVE  /\ Exists(subscriber) => subscriber \in SubscriberRow /\ Admitted(subscriber)
           /\ Exists(consent) => consent \in ConsentRow
           /\ \A n \in Requests :
                 Exists(confirmation[n]) => confirmation[n] \in ConfirmationRow
           /\ \A d \in Mails : Exists(link[d]) => link[d] \in LinkRow
           /\ \A d \in Mails : Exists(delivery[d]) => delivery[d] \in DeliveryRow
BY DEF TypeOK, Exists

-----------------------------------------------------------------------------
(* The inductive invariant.  What an attempt at a mail has read is of      *)
(* today: days do not go by while it is under way.                         *)

\* the days a delivery may wait
LongestWait == LinkLifetime - LinkPromise

\* Who is unsubscribed has left some day, and nobody else has.
LeftIsUnsubscribed ==
    Exists(subscriber) =>
        (subscriber.status = "unsubscribed" <=> subscriber.left # Never)

\* Deliveries, attempts and links are of deliveries that were queued, and a
\* delivery is its subscriber's.
RowsOfMails ==
    \A d \in Mails :
        /\ Exists(delivery[d]) => d <= queued /\ Exists(subscriber)
        /\ calls[d] # Never => d <= queued
        /\ Exists(link[d]) => d <= queued

\* While an attempt is under way its subscriber is there, with an address if it
\* was not deleted, and has not left, nor signed up, before today.
CallsAreToday ==
    \A d \in Mails : calls[d] # Never =>
        /\ Exists(subscriber)
        /\ d \notin late => subscriber.address
        /\ subscriber.status = "unsubscribed" => subscriber.left = 0
        /\ subscriber.status = "unconfirmed" => subscriber.updated = 0
        /\ calls[d] \in 0 .. LongestWait
        /\ IsQueued(d) => calls[d] <= delivery[d].age
        /\ Exists(link[d]) => link[d].age <= LongestWait

\* A delivery does not wait for long, and its link is not older than it is.
QueuedIsFresh ==
    \A d \in Mails : IsQueued(d) =>
        /\ delivery[d].age <= LongestWait
        /\ Exists(link[d]) => link[d].age <= delivery[d].age

\* Who has unsubscribed has got the last mail before, or on the same day.
LeftAfterMails ==
    \A d \in Mails :
        (/\ Exists(subscriber) /\ subscriber.status = "unsubscribed"
         /\ mail[d] # Never)
            => mail[d] >= LinkPromise \/ mail[d] >= subscriber.left

\* The link of a mail is older than the mail by the delivery's wait at most.
LinksLast ==
    \A d \in Mails :
        (mail[d] # Never /\ mail[d] < LinkPromise)
            => Exists(link[d]) /\ link[d].age <= mail[d] + LongestWait

WorkInv == RowsOfMails /\ CallsAreToday /\ QueuedIsFresh

SubscribersInv ==
    /\ TypeOK /\ LeftIsUnsubscribed
    /\ WorkInv
    /\ LeftAfterMails /\ LinksLast
    /\ ConsentOnRecord /\ OnlyLatestConfirms
    /\ ForgottenLeavesNothing

-----------------------------------------------------------------------------
(* The rows.                                                               *)

\* An event added to those on record is one.
LEMMA RecordedIsEvent ==
    ASSUME NEW kind \in ConsentKinds, NEW editions \in SUBSET Editions
    PROVE  Recorded(kind, editions) \in ConsentRow
BY DEF Recorded, ConsentRow, Exists

\* The last outcome of a delivery is stored in its row, if that is there.
LEMMA EndedIsRow ==
    ASSUME TypeOK, NEW d \in Mails, NEW status \in {"sent", "failed"}
    PROVE  /\ Ended(d, status) \in [Mails -> {None} \cup DeliveryRow]
           /\ \A m \in Mails : Exists(Ended(d, status)[m]) <=> Exists(delivery[m])
           /\ \A m \in Mails : m # d => Ended(d, status)[m] = delivery[m]
           /\ Exists(delivery[d]) => Ended(d, status)[d].status = status
<1>1. CASE Exists(delivery[d])
  <2>1. delivery[d] \in DeliveryRow
    BY <1>1, RowsAre
  <2>2. [delivery[d] EXCEPT !.status = status, !.age = 0] \in DeliveryRow
    BY <2>1, FirstDay DEF DeliveryRow
  <2>3. Ended(d, status) = [delivery EXCEPT ![d] =
                              [delivery[d] EXCEPT !.status = status, !.age = 0]]
    BY <1>1 DEF Ended
  <2>4. Exists([delivery[d] EXCEPT !.status = status, !.age = 0])
    BY <2>2, RowsExist
  <2>5. [delivery[d] EXCEPT !.status = status, !.age = 0].status = status
    BY <2>1 DEF DeliveryRow
  <2> QED
    BY <1>1, <2>2, <2>3, <2>4, <2>5 DEF TypeOK
<1>2. CASE ~Exists(delivery[d])
  <2>1. Ended(d, status) = delivery
    BY <1>2 DEF Ended, TypeOK
  <2> QED
    BY <1>2, <2>1 DEF TypeOK
<1> QED
  BY <1>1, <1>2

\* A sign-up makes a row.
LEMMA SignUpRows ==
    ASSUME TypeOK, NEW editions \in SUBSET Editions, SignUp(editions)
    PROVE  TypeOK' /\ LeftIsUnsubscribed'
<1> USE DEF TypeOK
<1>1. /\ Requested(editions) \in SubscriberRow /\ Admitted(Requested(editions))
      /\ Requested(editions).status = "unconfirmed" /\ Requested(editions).left = Never
  BY Days DEF Requested, SubscriberRow, Statuses, Admitted, SignUp, Never
<1>2. consent' \in ConsentRow
  BY RecordedIsEvent DEF SignUp, ConsentKinds
<1>3. Exists(subscriber') /\ Exists(consent')
  BY <1>1, <1>2, RowsExist DEF SignUp
<1>4. requests' \in 0 .. MaxRequests
  BY Days DEF SignUp
<1>5. confirmation' \in [Requests -> {None} \cup ConfirmationRow]
  <2> SUFFICES ASSUME NEW r \in Requests
               PROVE  Rotated(requests + 1)[r] \in {None} \cup ConfirmationRow
    BY DEF SignUp, Rotated
  <2>1. [status |-> "live", age |-> 0, ended |-> 0] \in ConfirmationRow
    BY Days DEF ConfirmationRow
  <2>2. IsLive(confirmation[r]) =>
           [confirmation[r] EXCEPT !.status = "invalidated", !.ended = 0]
              \in ConfirmationRow
    <3> SUFFICES ASSUME IsLive(confirmation[r])
                 PROVE  [confirmation[r] EXCEPT !.status = "invalidated", !.ended = 0]
                           \in ConfirmationRow
      OBVIOUS
    <3>1. confirmation[r] \in ConfirmationRow
      BY RowsAre DEF IsLive
    <3> QED
      BY <3>1, FirstDay DEF ConfirmationRow
  <2>3. confirmation[r] \in {None} \cup ConfirmationRow
    OBVIOUS
  <2> QED
    BY <2>1, <2>2, <2>3 DEF Rotated
<1> QED
  BY <1>1, <1>2, <1>3, <1>4, <1>5 DEF SignUp, LeftIsUnsubscribed

\* What a change of the subscriber's row alone, with its event, has to be.
LEMMA RowChanged ==
    ASSUME TypeOK,
           subscriber' \in SubscriberRow, Admitted(subscriber'),
           subscriber'.status = "unsubscribed" <=> subscriber'.left # Never,
           consent' \in ConsentRow,
           UNCHANGED <<requests, queued, delivery, calls, mail, late>>,
           link' \in [Mails -> {None} \cup LinkRow],
           confirmation' \in [Requests -> {None} \cup ConfirmationRow]
    PROVE  TypeOK' /\ LeftIsUnsubscribed'
<1>1. Exists(subscriber') /\ Exists(consent')
  BY RowsExist
<1> QED
  BY <1>1 DEF TypeOK, LeftIsUnsubscribed

\* A confirmation makes the row a confirmed one.
LEMMA ConfirmRows ==
    ASSUME TypeOK, NEW n \in Requests, Confirm(n)
    PROVE  TypeOK' /\ LeftIsUnsubscribed'
<1> DEFINE row == [subscriber EXCEPT !.status = "confirmed", !.confirmed = TRUE,
                                     !.left = Never, !.updated = 0]
<1>1. subscriber \in SubscriberRow /\ confirmation[n] \in ConfirmationRow
  BY RowsAre DEF Confirm, IsLive
<1>2. row \in SubscriberRow /\ row.status = "confirmed" /\ row.left = Never
  BY <1>1, FirstDay DEF SubscriberRow, Statuses
<1>3. subscriber' = row /\ Admitted(row)
      /\ consent' = Recorded("subscription_confirmed", row.editions)
  BY DEF Confirm
<1>4. row.editions \in SUBSET Editions
  BY <1>2 DEF SubscriberRow
<1> HIDE DEF row
<1>5. consent' \in ConsentRow
  BY <1>3, <1>4, RecordedIsEvent DEF ConsentKinds
<1>6. [confirmation[n] EXCEPT !.status = "consumed", !.ended = 0] \in ConfirmationRow
  BY <1>1, FirstDay DEF ConfirmationRow
<1>7. confirmation' \in [Requests -> {None} \cup ConfirmationRow]
  BY <1>6 DEF Confirm, TypeOK
<1> QED
  BY <1>2, <1>3, <1>5, <1>7, RowChanged DEF Confirm, TypeOK

\* A change of preferences makes the row a confirmed or an unsubscribed one.
LEMMA ChangeRows ==
    ASSUME TypeOK, NEW d \in Mails, NEW editions \in SUBSET Editions,
           ChangePreferences(d, editions)
    PROVE  TypeOK' /\ LeftIsUnsubscribed'
<1>1. subscriber \in SubscriberRow /\ link[d] \in LinkRow
  BY RowsAre DEF ChangePreferences, IsLive
<1>2. /\ AfterChange(editions) \in SubscriberRow
      /\ AfterChange(editions).status = "unsubscribed"
            <=> AfterChange(editions).left # Never
  BY <1>1, FirstDay DEF AfterChange, SubscriberRow, Statuses
<1>3. consent' \in ConsentRow
  BY RecordedIsEvent DEF ChangePreferences, ConsentKinds
<1>4. [link[d] EXCEPT !.status = "consumed"] \in LinkRow
  BY <1>1 DEF LinkRow
<1>5. link' \in [Mails -> {None} \cup LinkRow]
  BY <1>4 DEF ChangePreferences, TypeOK
<1> QED
  BY <1>2, <1>3, <1>5, RowChanged DEF ChangePreferences, TypeOK

\* A suppression marks the row, and may end its subscription.
LEMMA SuppressRows ==
    ASSUME TypeOK, LeftIsUnsubscribed, RowsOfMails,
           NEW d \in Mails, NEW unsubscribes \in BOOLEAN, Suppress(d, unsubscribes)
    PROVE  TypeOK' /\ LeftIsUnsubscribed'
<1> DEFINE row == [subscriber EXCEPT !.suppressed = TRUE, !.updated = 0]
           gone == [row EXCEPT !.status = "unsubscribed", !.editions = {}, !.left = 0]
<1>1. Exists(subscriber) /\ subscriber \in SubscriberRow /\ Admitted(subscriber)
  BY RowsAre DEF Suppress, RowsOfMails
<1>2. /\ row \in SubscriberRow /\ Admitted(row)
      /\ row.status = "unsubscribed" <=> row.left # Never
  BY <1>1, FirstDay DEF SubscriberRow, Admitted, LeftIsUnsubscribed
<1>3. /\ gone \in SubscriberRow /\ Admitted(gone)
      /\ gone.status = "unsubscribed" <=> gone.left # Never
  BY <1>1, FirstDay DEF SubscriberRow, Statuses, Admitted
<1>4. subscriber' = gone \/ subscriber' = row
  BY DEF Suppress
<1> HIDE DEF row, gone
<1>5. subscriber'.editions \in SUBSET Editions
  BY <1>2, <1>3, <1>4 DEF SubscriberRow
<1>6. consent' \in ConsentRow
  BY <1>5, RecordedIsEvent DEF Suppress, ConsentKinds
<1> QED
  BY <1>2, <1>3, <1>4, <1>6, RowChanged DEF Suppress, TypeOK

\* An attempt at a mail changes its delivery, its link and when it arrived.
LEMMA AttemptRows ==
    ASSUME TypeOK, LeftIsUnsubscribed, WorkInv, NEW d \in Mails,
           \/ Read(d) \/ PassOver(d)
           \/ \E outcome \in Outcomes, arrives \in BOOLEAN : Send(d, outcome, arrives)
    PROVE  TypeOK' /\ LeftIsUnsubscribed'
<1> USE DEF TypeOK
<1>1. UNCHANGED <<subscriber, consent, requests, confirmation, queued, late>>
  BY DEF Read, PassOver, Send
<1>2. delivery' \in [Mails -> {None} \cup DeliveryRow]
  <2>1. CASE delivery' = delivery
    BY <2>1
  <2>2. CASE \E status \in {"sent", "failed"} : delivery' = Ended(d, status)
    BY <2>2, EndedIsRow
  <2> QED
    BY <2>1, <2>2 DEF Read, PassOver, Send, Outcomes
<1>3. link' \in [Mails -> {None} \cup LinkRow]
  <2>1. CASE link' = link
    BY <2>1
  <2>2. CASE calls[d] # Never /\ link' = LinkStored(d)
    <3>1. calls[d] \in 0 .. LongestWait
      BY <2>2 DEF WorkInv, CallsAreToday
    <3>2. calls[d] \in 0 .. LastLink
      BY <3>1, Days DEF LongestWait
    <3>3. [status |-> "live", age |-> calls[d]] \in LinkRow
      BY <3>2 DEF LinkRow
    <3> QED
      BY <2>2, <3>3 DEF LinkStored
  <2> QED
    BY <2>1, <2>2 DEF Read, PassOver, Send
<1>4. calls' \in [Mails -> Never .. LastDelivery]
  <2>1. Never \in Never .. LastDelivery
    BY Days DEF Never
  <2>2. IsQueued(d) => delivery[d].age \in Never .. LastDelivery
    <3> SUFFICES ASSUME IsQueued(d) PROVE delivery[d].age \in Never .. LastDelivery
      OBVIOUS
    <3>1. delivery[d] \in DeliveryRow
      BY RowsAre DEF IsQueued
    <3>2. delivery[d].age \in 0 .. LastDelivery
      BY <3>1 DEF DeliveryRow
    <3> QED
      BY <3>2, Days DEF Never
  <2> QED
    BY <2>1, <2>2 DEF Read, PassOver, Send
<1>5. mail' \in [Mails -> Never .. LinkPromise]
  <2>1. 0 \in Never .. LinkPromise
    BY Days DEF Never
  <2> QED
    BY <2>1 DEF Read, PassOver, Send
<1> QED
  BY <1>1, <1>2, <1>3, <1>4, <1>5 DEF LeftIsUnsubscribed

\* A run is queued.
LEMMA QueueRows ==
    ASSUME TypeOK, LeftIsUnsubscribed, NEW edition \in Editions, Queue(edition)
    PROVE  TypeOK' /\ LeftIsUnsubscribed'
<1>1. [status |-> "queued", edition |-> edition, age |-> 0] \in DeliveryRow
  BY FirstDay DEF DeliveryRow
<1>2. queued' \in 0 .. MaxMails
  BY Days DEF Queue, TypeOK
<1> QED
  BY <1>1, <1>2 DEF Queue, TypeOK, LeftIsUnsubscribed

\* What cleanup keeps of tokens and deliveries are rows that were there.
LEMMA KeptAre ==
    ASSUME TypeOK
    PROVE  /\ KeptConfirmations \in [Requests -> {None} \cup ConfirmationRow]
           /\ KeptLinks \in [Mails -> {None} \cup LinkRow]
           /\ KeptDeliveries \in [Mails -> {None} \cup DeliveryRow]
           /\ NoRows(Requests) \in [Requests -> {None} \cup ConfirmationRow]
           /\ NoRows(Mails) \in [Mails -> {None} \cup LinkRow]
           /\ NoRows(Mails) \in [Mails -> {None} \cup DeliveryRow]
<1>1. KeptConfirmations \in [Requests -> {None} \cup ConfirmationRow]
  BY DEF TypeOK, KeptConfirmations
<1>2. KeptLinks \in [Mails -> {None} \cup LinkRow]
  BY DEF TypeOK, KeptLinks
<1>3. KeptDeliveries \in [Mails -> {None} \cup DeliveryRow]
  BY DEF TypeOK, KeptDeliveries
<1> QED
  BY <1>1, <1>2, <1>3 DEF NoRows

\* The events of who is forgotten are but the last.
LEMMA LastEventIs ==
    ASSUME NEW event \in ConsentRow
    PROVE  [event EXCEPT !.older = FALSE] \in ConsentRow
BY DEF ConsentRow

\* Cleanup deletes an abandoned sign-up, or the address of who left long ago.
LEMMA CleanupRows ==
    ASSUME TypeOK, LeftIsUnsubscribed, Cleanup
    PROVE  TypeOK' /\ LeftIsUnsubscribed'
<1>1. /\ confirmation' \in [Requests -> {None} \cup ConfirmationRow]
      /\ link' \in [Mails -> {None} \cup LinkRow]
      /\ delivery' \in [Mails -> {None} \cup DeliveryRow]
      /\ UNCHANGED <<requests, queued, calls, mail, late>>
  BY KeptAre DEF Cleanup
<1>2. CASE IsAbandonedSignUp
  <2>0. ~IsForgettable
    BY <1>2 DEF IsAbandonedSignUp, IsForgettable
  <2>1. subscriber' = None /\ consent' = None
    BY <1>2, <2>0 DEF Cleanup
  <2>2. ~Exists(subscriber') /\ ~Exists(consent')
    BY <2>1, RowsExist
  <2> QED
    BY <1>1, <2>1, <2>2 DEF TypeOK, LeftIsUnsubscribed
<1>3. CASE ~IsAbandonedSignUp /\ IsForgettable
  <2>1. /\ subscriber' = [subscriber EXCEPT !.address = FALSE, !.updated = 0]
        /\ consent' = [consent EXCEPT !.older = FALSE]
    BY <1>3 DEF Cleanup
  <2>2. /\ Exists(subscriber) /\ subscriber \in SubscriberRow /\ Admitted(subscriber)
        /\ subscriber.status = "unsubscribed"
        /\ consent \in ConsentRow
    BY <1>3, RowsAre DEF IsForgettable, TypeOK
  <2>3. /\ subscriber' \in SubscriberRow /\ Admitted(subscriber')
        /\ subscriber'.status = "unsubscribed" <=> subscriber'.left # Never
    BY <2>1, <2>2, FirstDay DEF SubscriberRow, Admitted, LeftIsUnsubscribed
  <2>4. consent' \in ConsentRow
    BY <2>1, <2>2, LastEventIs
  <2>5. Exists(subscriber') /\ Exists(consent')
    BY <2>3, <2>4, RowsExist
  <2> QED
    BY <1>1, <2>3, <2>4, <2>5 DEF TypeOK, LeftIsUnsubscribed
<1>4. CASE ~IsAbandonedSignUp /\ ~IsForgettable
  <2>1. UNCHANGED <<subscriber, consent>>
    BY <1>4 DEF Cleanup
  <2> QED
    BY <1>1, <2>1 DEF TypeOK, LeftIsUnsubscribed
<1> QED
  BY <1>2, <1>3, <1>4

\* The operator's deletion keeps a row without an address.
LEMMA DeleteRows ==
    ASSUME TypeOK, LeftIsUnsubscribed, Delete
    PROVE  TypeOK' /\ LeftIsUnsubscribed'
<1>1. subscriber \in SubscriberRow /\ consent \in ConsentRow
  BY RowsAre DEF Delete, TypeOK
<1>2. DeletedSubscriber \in SubscriberRow
  BY <1>1, FirstDay DEF DeletedSubscriber, SubscriberRow, Statuses
<1>3. /\ DeletedSubscriber.status = "unsubscribed" /\ DeletedSubscriber.editions = {}
      /\ DeletedSubscriber.left # Never
  BY <1>1, FirstDay DEF DeletedSubscriber, SubscriberRow
<1>4. consent' \in ConsentRow
  BY <1>1, LastEventIs DEF Delete
<1>5. Exists(DeletedSubscriber) /\ Exists(consent')
  BY <1>2, <1>4, RowsExist
<1>6. /\ confirmation' \in [Requests -> {None} \cup ConfirmationRow]
      /\ link' \in [Mails -> {None} \cup LinkRow]
      /\ delivery' \in [Mails -> {None} \cup DeliveryRow]
  BY KeptAre DEF Delete
<1>7. mail' \in [Mails -> Never .. LinkPromise]
  BY Days DEF Delete, Never
<1>8. late' \subseteq Mails
  BY DEF Delete, TypeOK
<1>9. subscriber' = DeletedSubscriber /\ UNCHANGED <<requests, queued, calls>>
  BY DEF Delete
<1>10. Admitted(subscriber')
  BY <1>3, <1>9 DEF Admitted
<1> QED
  BY <1>2, <1>3, <1>4, <1>5, <1>6, <1>7, <1>8, <1>9, <1>10
     DEF TypeOK, LeftIsUnsubscribed

\* What a day makes of tokens, deliveries and mails.
LEMMA DayTokens ==
    ASSUME TypeOK, Day
    PROVE  /\ confirmation' \in [Requests -> {None} \cup ConfirmationRow]
           /\ link' \in [Mails -> {None} \cup LinkRow]
           /\ delivery' \in [Mails -> {None} \cup DeliveryRow]
           /\ mail' \in [Mails -> Never .. LinkPromise]
<1>1. ASSUME NEW last \in Nat, NEW days \in 0 .. last
      PROVE  NextDay(days, last) \in 0 .. last
  BY DEF NextDay
<1>2. confirmation' \in [Requests -> {None} \cup ConfirmationRow]
  <2>1. ASSUME NEW row \in ConfirmationRow
        PROVE  [row EXCEPT !.age = NextDay(@, LastConfirmation),
                           !.ended = IF row.status = "live" THEN @
                                     ELSE NextDay(@, LastUpdate)] \in ConfirmationRow
    <3>1. row.age \in 0 .. LastConfirmation /\ row.ended \in 0 .. LastUpdate
      BY DEF ConfirmationRow
    <3>2. /\ NextDay(row.age, LastConfirmation) \in 0 .. LastConfirmation
          /\ NextDay(row.ended, LastUpdate) \in 0 .. LastUpdate
      BY <1>1, <3>1, Days
    <3> QED
      BY <3>2 DEF ConfirmationRow
  <2>2. \A n \in Requests : Exists(confirmation[n]) => confirmation[n] \in ConfirmationRow
    BY RowsAre
  <2> QED
    BY <2>1, <2>2 DEF Day
<1>3. link' \in [Mails -> {None} \cup LinkRow]
  <2>1. ASSUME NEW row \in LinkRow
        PROVE  [row EXCEPT !.age = NextDay(@, LastLink)] \in LinkRow
    <3>1. NextDay(row.age, LastLink) \in 0 .. LastLink
      BY <1>1, Days DEF LinkRow
    <3> QED
      BY <3>1 DEF LinkRow
  <2>2. \A d \in Mails : Exists(link[d]) => link[d] \in LinkRow
    BY RowsAre
  <2> QED
    BY <2>1, <2>2 DEF Day
<1>4. delivery' \in [Mails -> {None} \cup DeliveryRow]
  <2>1. ASSUME NEW row \in DeliveryRow
        PROVE  [row EXCEPT !.age = NextDay(@, LastDelivery)] \in DeliveryRow
    <3>1. NextDay(row.age, LastDelivery) \in 0 .. LastDelivery
      BY <1>1, Days DEF DeliveryRow
    <3> QED
      BY <3>1 DEF DeliveryRow
  <2>2. \A d \in Mails : Exists(delivery[d]) => delivery[d] \in DeliveryRow
    BY RowsAre
  <2> QED
    BY <2>1, <2>2 DEF Day
<1>5. mail' \in [Mails -> Never .. LinkPromise]
  <2>1. \A d \in Mails : mail[d] \in Never .. LinkPromise
    BY DEF TypeOK
  <2>2. \A d \in Mails : NextDay(mail[d], LinkPromise) \in Never .. LinkPromise
    BY <2>1, Days, NextDayMoves
  <2> QED
    BY <2>2 DEF Day
<1> QED
  BY <1>2, <1>3, <1>4, <1>5

\* A day goes by.
LEMMA DayRows ==
    ASSUME TypeOK, LeftIsUnsubscribed, Day
    PROVE  TypeOK' /\ LeftIsUnsubscribed'
<1>1. UNCHANGED <<consent, requests, queued, calls, late>>
  BY DEF Day
<1>2. CASE Exists(subscriber)
  <2>1. subscriber' = [subscriber EXCEPT !.left = NextDay(@, LastLeft),
                                         !.updated = NextDay(@, LastUpdate)]
    BY <1>2 DEF Day
  <2>2. subscriber \in SubscriberRow /\ Admitted(subscriber)
    BY <1>2, RowsAre
  <2>3. subscriber.left \in Never .. LastLeft /\ subscriber.updated \in 0 .. LastUpdate
    BY <2>2 DEF SubscriberRow
  <2>4. /\ NextDay(subscriber.left, LastLeft) \in Never .. LastLeft
        /\ NextDay(subscriber.left, LastLeft) = Never <=> subscriber.left = Never
    BY <2>3, Days, NextDayMoves
  <2>5. NextDay(subscriber.updated, LastUpdate) \in 0 .. LastUpdate
    <3>1. subscriber.updated \in Never .. LastUpdate /\ subscriber.updated >= 0
      BY <2>3 DEF Never
    <3> QED
      BY <3>1, Days, NextDayMoves
  <2>6. /\ subscriber' \in SubscriberRow
        /\ subscriber'.left = NextDay(subscriber.left, LastLeft)
        /\ subscriber'.status = subscriber.status
        /\ subscriber'.editions = subscriber.editions
        /\ subscriber'.address = subscriber.address
        /\ subscriber'.confirmed = subscriber.confirmed
    BY <2>1, <2>2, <2>4, <2>5 DEF SubscriberRow
  <2>7. Admitted(subscriber')
    BY <2>2, <2>4, <2>6 DEF Admitted
  <2>8. Exists(subscriber')
    BY <2>6, RowsExist
  <2> QED
    BY <1>1, <1>2, <2>4, <2>6, <2>7, <2>8, DayTokens DEF TypeOK, LeftIsUnsubscribed
<1>3. CASE ~Exists(subscriber)
  <2>1. subscriber' = subscriber
    BY <1>3 DEF Day
  <2> QED
    BY <1>1, <1>3, <2>1, DayTokens DEF TypeOK, LeftIsUnsubscribed
<1> QED
  BY <1>2, <1>3

\* Each step keeps the rows as their tables have them.
LEMMA RowsStep ==
    ASSUME TypeOK, LeftIsUnsubscribed, WorkInv, [Next]_vars
    PROVE  TypeOK' /\ LeftIsUnsubscribed'
<1>1. CASE UNCHANGED vars
  BY <1>1 DEF vars, TypeOK, LeftIsUnsubscribed
<1> QED
  BY <1>1, SignUpRows, ConfirmRows, ChangeRows, QueueRows, AttemptRows,
     SuppressRows, CleanupRows, DeleteRows, DayRows DEF Next, WorkInv

-----------------------------------------------------------------------------
(* Deliveries and attempts.                                                *)

\* A change of the subscriber's row leaves deliveries and attempts right, as
\* long as whoever leaves or signs up by it does so today.
LEMMA WorkKept ==
    ASSUME WorkInv, UNCHANGED <<queued, delivery, calls, late>>,
           Exists(subscriber'),
           \A d \in Mails : (calls[d] # Never /\ d \notin late) => subscriber'.address,
           (\E d \in Mails : calls[d] # Never) =>
               /\ subscriber'.status = "unsubscribed" => subscriber'.left = 0
               /\ subscriber'.status = "unconfirmed" => subscriber'.updated = 0,
           \A d \in Mails : Exists(link'[d]) =>
               Exists(link[d]) /\ link'[d].age = link[d].age
    PROVE  WorkInv'
<1>1. RowsOfMails'
  BY DEF WorkInv, RowsOfMails
<1>2. CallsAreToday'
  <2> SUFFICES ASSUME NEW d \in Mails, calls[d] # Never
               PROVE  /\ Exists(subscriber')
                      /\ d \notin late => subscriber'.address
                      /\ subscriber'.status = "unsubscribed" => subscriber'.left = 0
                      /\ subscriber'.status = "unconfirmed" => subscriber'.updated = 0
                      /\ calls[d] \in 0 .. LongestWait
                      /\ IsQueued(d) => calls[d] <= delivery[d].age
                      /\ Exists(link'[d]) => link'[d].age <= LongestWait
    BY DEF CallsAreToday, IsQueued
  <2> QED
    BY DEF WorkInv, CallsAreToday
<1>3. QueuedIsFresh'
  BY DEF WorkInv, QueuedIsFresh, IsQueued
<1> QED
  BY <1>1, <1>2, <1>3 DEF WorkInv

\* Whoever signs up, or confirms, today has an address.
LEMMA SignUpWork ==
    ASSUME TypeOK, WorkInv, NEW editions \in SUBSET Editions, SignUp(editions)
    PROVE  WorkInv'
<1>1. /\ subscriber' = Requested(editions)
      /\ UNCHANGED <<queued, delivery, calls, late, link>>
  BY DEF SignUp
<1>2. /\ subscriber'.status = "unconfirmed" /\ subscriber'.updated = 0
      /\ subscriber'.address /\ Exists(subscriber')
  BY <1>1 DEF Requested, Exists, None
<1> QED
  BY <1>1, <1>2, WorkKept

LEMMA ConfirmWork ==
    ASSUME TypeOK, WorkInv, NEW n \in Requests, Confirm(n)
    PROVE  WorkInv'
<1>1. UNCHANGED <<queued, delivery, calls, late, link>>
  BY DEF Confirm
<1>2. subscriber \in SubscriberRow
  BY RowsAre DEF Confirm
<1>3. subscriber'.status = "confirmed" /\ Admitted(subscriber')
  BY <1>2 DEF Confirm, SubscriberRow
<1>4. subscriber'.address /\ Exists(subscriber')
  BY <1>3 DEF Admitted, Exists, None
<1> QED
  BY <1>1, <1>3, <1>4, WorkKept

\* Who changes preferences has an address, or leaves today.
LEMMA ChangeWork ==
    ASSUME TypeOK, WorkInv, NEW d \in Mails, NEW editions \in SUBSET Editions,
           ChangePreferences(d, editions)
    PROVE  WorkInv'
<1>1. /\ UNCHANGED <<queued, delivery, calls, late>>
      /\ link' = [link EXCEPT ![d].status = "consumed"]
  BY DEF ChangePreferences
<1>2. subscriber \in SubscriberRow /\ link[d] \in LinkRow
  BY RowsAre DEF ChangePreferences, IsLive
<1>3. /\ subscriber'.status \in {"confirmed", "unsubscribed"}
      /\ subscriber'.status = "unsubscribed" => subscriber'.left = 0
      /\ subscriber'.address = subscriber.address
  BY <1>2 DEF ChangePreferences, AfterChange, SubscriberRow
<1>4. Exists(subscriber')
  BY <1>3 DEF Exists, None
<1>5. \A m \in Mails : Exists(link'[m]) =>
          Exists(link[m]) /\ link'[m].age = link[m].age
  BY <1>1, <1>2, RowsExist DEF TypeOK, LinkRow
<1>6. \A m \in Mails : (calls[m] # Never /\ m \notin late) => subscriber'.address
  BY <1>3 DEF WorkInv, CallsAreToday
<1> QED
  BY <1>1, <1>3, <1>4, <1>5, <1>6, WorkKept

\* Who is suppressed stays, or leaves today.
LEMMA SuppressWork ==
    ASSUME TypeOK, WorkInv, NEW d \in Mails, NEW unsubscribes \in BOOLEAN,
           Suppress(d, unsubscribes)
    PROVE  WorkInv'
<1>1. UNCHANGED <<queued, delivery, calls, late, link>>
  BY DEF Suppress
<1>2. Exists(subscriber)
  BY DEF Suppress, WorkInv, RowsOfMails
<1>3. subscriber \in SubscriberRow
  BY <1>2, RowsAre
<1>4. /\ subscriber'.address = subscriber.address
      /\ subscriber'.updated = 0
      /\ \/ subscriber'.status = subscriber.status /\ subscriber'.left = subscriber.left
         \/ subscriber'.status = "unsubscribed" /\ subscriber'.left = 0
  BY <1>3 DEF Suppress, SubscriberRow
<1>5. Exists(subscriber')
  <2>1. subscriber'.status # "none"
    BY <1>3, <1>4 DEF SubscriberRow, Statuses
  <2> QED
    BY <2>1 DEF Exists, None
<1>6. \A m \in Mails : (calls[m] # Never /\ m \notin late) => subscriber'.address
  BY <1>4 DEF WorkInv, CallsAreToday
<1>7. (\E m \in Mails : calls[m] # Never) =>
          (subscriber'.status = "unsubscribed" => subscriber'.left = 0)
  BY <1>4 DEF WorkInv, CallsAreToday
<1> QED
  BY <1>1, <1>4, <1>5, <1>6, <1>7, WorkKept

\* A delivery that is queued is the latest, and has no link yet.
LEMMA QueueWork ==
    ASSUME TypeOK, WorkInv, NEW edition \in Editions, Queue(edition)
    PROVE  WorkInv'
<1> DEFINE n == queued + 1
           row == [status |-> "queued", edition |-> edition, age |-> 0]
<1>1. /\ queued' = n /\ delivery' = [delivery EXCEPT ![n] = row]
      /\ UNCHANGED <<subscriber, link, calls, late>> /\ Exists(subscriber)
  BY DEF Queue, IsEligible
<1>2. queued \in Nat /\ n \in Mails
  BY Days DEF Queue, TypeOK, Mails
<1>3. \A m \in Mails : Exists(delivery[m]) => m # n
  BY <1>2 DEF WorkInv, RowsOfMails, Mails
<1>4. calls[n] = Never /\ ~Exists(link[n])
  BY <1>2 DEF WorkInv, RowsOfMails, Mails
<1>5. /\ \A m \in Mails : m # n => delivery'[m] = delivery[m]
      /\ delivery'[n] = row
  BY <1>1, <1>2 DEF TypeOK
<1> HIDE DEF n, row
<1>6. RowsOfMails'
  <2>1. \A m \in Mails : m <= queued => m <= queued'
    BY <1>1, <1>2 DEF Mails, n
  <2>2. n <= queued'
    BY <1>1, <1>2 DEF n
  <2> QED
    BY <1>1, <1>5, <2>1, <2>2 DEF WorkInv, RowsOfMails
<1>7. CallsAreToday'
  BY <1>1, <1>4, <1>5 DEF WorkInv, CallsAreToday, IsQueued
<1>8. row.age <= LongestWait
  BY Days DEF row, LongestWait
<1>9. QueuedIsFresh'
  BY <1>1, <1>4, <1>5, <1>8 DEF WorkInv, QueuedIsFresh, IsQueued
<1> QED
  BY <1>6, <1>7, <1>9 DEF WorkInv

\* An attempt reads the age of its delivery and finds a confirmed subscriber.
LEMMA ReadWork ==
    ASSUME TypeOK, WorkInv, NEW d \in Mails, Read(d)
    PROVE  WorkInv'
<1>1. /\ UNCHANGED <<subscriber, queued, link, delivery, late>>
      /\ calls' = [calls EXCEPT ![d] = delivery[d].age]
      /\ IsQueued(d)
  BY DEF Read
<1>2. /\ Exists(subscriber) /\ subscriber.status = "confirmed" /\ subscriber.address
  BY RowsAre DEF Read, IsEligible, Admitted
<1>3. delivery[d].age \in 0 .. LongestWait
  <2>1. delivery[d] \in DeliveryRow
    BY <1>1, RowsAre DEF IsQueued
  <2>2. delivery[d].age \in 0 .. LastDelivery
    BY <2>1 DEF DeliveryRow
  <2> QED
    BY <1>1, <2>2, Days DEF WorkInv, QueuedIsFresh, LongestWait
<1>4. /\ calls'[d] = delivery[d].age
      /\ \A m \in Mails : m # d => calls'[m] = calls[m]
  BY <1>1 DEF TypeOK
<1>5. RowsOfMails'
  BY <1>1, <1>4 DEF WorkInv, RowsOfMails, IsQueued
<1>6. Exists(link[d]) => link[d].age <= LongestWait
  <2> SUFFICES ASSUME Exists(link[d]) PROVE link[d].age <= LongestWait
    OBVIOUS
  <2>1. link[d].age <= delivery[d].age
    BY <1>1 DEF WorkInv, QueuedIsFresh
  <2>2. link[d].age \in Int
    BY RowsAre DEF LinkRow
  <2> QED
    BY <1>3, <2>1, <2>2, Days DEF LongestWait
<1>7. CallsAreToday'
  <2> SUFFICES ASSUME NEW m \in Mails, calls'[m] # Never
               PROVE  /\ Exists(subscriber)
                      /\ m \notin late => subscriber.address
                      /\ subscriber.status = "unsubscribed" => subscriber.left = 0
                      /\ subscriber.status = "unconfirmed" => subscriber.updated = 0
                      /\ calls'[m] \in 0 .. LongestWait
                      /\ IsQueued(m) => calls'[m] <= delivery[m].age
                      /\ Exists(link[m]) => link[m].age <= LongestWait
    BY <1>1 DEF CallsAreToday, IsQueued
  <2>1. CASE m = d
    BY <1>2, <1>3, <1>4, <1>6, <2>1
  <2>2. CASE m # d
    BY <1>4, <2>2 DEF WorkInv, CallsAreToday
  <2> QED
    BY <2>1, <2>2
<1>8. QueuedIsFresh'
  BY <1>1 DEF WorkInv, QueuedIsFresh, IsQueued
<1> QED
  BY <1>5, <1>7, <1>8 DEF WorkInv

\* A delivery that is passed over is not queued any more.
LEMMA PassOverWork ==
    ASSUME TypeOK, WorkInv, NEW d \in Mails, PassOver(d)
    PROVE  WorkInv'
<1>1. /\ UNCHANGED <<subscriber, queued, link, calls, late>>
      /\ delivery' = Ended(d, "failed")
      /\ Exists(delivery[d])
  BY DEF PassOver, IsQueued
<1>2. /\ \A m \in Mails : Exists(delivery'[m]) <=> Exists(delivery[m])
      /\ \A m \in Mails : m # d => delivery'[m] = delivery[m]
      /\ delivery'[d].status = "failed"
  BY <1>1, EndedIsRow
<1>3. RowsOfMails'
  BY <1>1, <1>2 DEF WorkInv, RowsOfMails
<1>4. CallsAreToday'
  BY <1>1, <1>2 DEF WorkInv, CallsAreToday, IsQueued
<1>5. QueuedIsFresh'
  BY <1>1, <1>2 DEF WorkInv, QueuedIsFresh, IsQueued
<1> QED
  BY <1>3, <1>4, <1>5 DEF WorkInv

\* The link that an attempt stores is as old as the delivery was.
LEMMA LinkIsStored ==
    ASSUME TypeOK, WorkInv, NEW d \in Mails, calls[d] # Never
    PROVE  /\ \A m \in Mails : m # d => LinkStored(d)[m] = link[m]
           /\ Exists(LinkStored(d)[d])
           /\ LinkStored(d)[d].age <= LongestWait
           /\ IsQueued(d) => LinkStored(d)[d].age <= delivery[d].age
<1>1. /\ \A m \in Mails : m # d => LinkStored(d)[m] = link[m]
      /\ Exists(link[d]) => LinkStored(d)[d] = link[d]
      /\ ~Exists(link[d]) => LinkStored(d)[d] = [status |-> "live", age |-> calls[d]]
  BY DEF TypeOK, LinkStored
<1>2. CASE Exists(link[d])
  BY <1>1, <1>2 DEF WorkInv, CallsAreToday, QueuedIsFresh
<1>3. CASE ~Exists(link[d])
  <2>1. LinkStored(d)[d].status = "live" /\ LinkStored(d)[d].age = calls[d]
    BY <1>1, <1>3
  <2>2. Exists(LinkStored(d)[d])
    BY <2>1 DEF Exists, None
  <2>3. calls[d] \in 0 .. LongestWait /\ (IsQueued(d) => calls[d] <= delivery[d].age)
    BY DEF WorkInv, CallsAreToday
  <2> QED
    BY <1>1, <2>1, <2>2, <2>3, Days DEF LongestWait
<1> QED
  BY <1>2, <1>3

LEMMA SendWork ==
    ASSUME TypeOK, WorkInv, NEW d \in Mails, NEW outcome \in Outcomes,
           NEW arrives \in BOOLEAN, Send(d, outcome, arrives)
    PROVE  WorkInv'
<1>1. /\ UNCHANGED <<subscriber, queued, late>>
      /\ calls[d] # Never /\ Exists(subscriber)
      /\ link' = LinkStored(d)
      /\ calls' = [calls EXCEPT ![d] = Never]
  BY DEF Send
<1>2. /\ \A m \in Mails : m # d => link'[m] = link[m]
      /\ Exists(link'[d])
      /\ link'[d].age <= LongestWait
      /\ IsQueued(d) => link'[d].age <= delivery[d].age
  BY <1>1, LinkIsStored
<1>3. /\ \A m \in Mails : m # d => calls'[m] = calls[m]
      /\ calls'[d] = Never
  BY <1>1 DEF TypeOK
<1>4. /\ \A m \in Mails : Exists(delivery'[m]) <=> Exists(delivery[m])
      /\ \A m \in Mails : m # d => delivery'[m] = delivery[m]
      /\ IsQueued(d)' => delivery' = delivery
  <2>1. CASE outcome = "retry"
    BY <2>1 DEF Send
  <2>2. CASE outcome \in {"sent", "failed"}
    <3>1. delivery' = Ended(d, outcome)
      BY <2>2 DEF Send
    <3> QED
      BY <2>2, <3>1, EndedIsRow DEF IsQueued
  <2> QED
    BY <2>1, <2>2 DEF Outcomes
<1>5. d <= queued
  BY <1>1 DEF WorkInv, RowsOfMails
<1>6. RowsOfMails'
  BY <1>1, <1>2, <1>3, <1>4, <1>5 DEF WorkInv, RowsOfMails
<1>7. CallsAreToday'
  BY <1>1, <1>2, <1>3, <1>4 DEF WorkInv, CallsAreToday, IsQueued
<1>8. QueuedIsFresh'
  BY <1>1, <1>2, <1>4 DEF WorkInv, QueuedIsFresh, IsQueued
<1> QED
  BY <1>6, <1>7, <1>8 DEF WorkInv

\* Nothing that is under way is of a subscriber whom cleanup deletes or
\* forgets: that one came, or left, longer ago than a day.
LEMMA CleanupSparesCalls ==
    ASSUME TypeOK, WorkInv, NEW d \in Mails, calls[d] # Never
    PROVE  ~IsAbandonedSignUp /\ ~IsForgettable
BY Days DEF WorkInv, CallsAreToday, IsAbandonedSignUp, IsForgettable

\* What cleanup does to the subscriber and to what belongs to it.
LEMMA CleanupCases ==
    ASSUME Cleanup
    PROVE  \/ /\ IsAbandonedSignUp /\ subscriber' = None /\ consent' = None
              /\ confirmation' = NoRows(Requests)
              /\ link' = NoRows(Mails) /\ delivery' = NoRows(Mails)
           \/ /\ IsForgettable
              /\ subscriber' = [subscriber EXCEPT !.address = FALSE, !.updated = 0]
              /\ consent' = [consent EXCEPT !.older = FALSE]
              /\ confirmation' = NoRows(Requests)
              /\ link' = NoRows(Mails) /\ delivery' = NoRows(Mails)
           \/ /\ ~IsAbandonedSignUp /\ ~IsForgettable
              /\ UNCHANGED <<subscriber, consent>>
              /\ confirmation' = KeptConfirmations
              /\ link' = KeptLinks /\ delivery' = KeptDeliveries
<1>1. CASE IsAbandonedSignUp
  <2>1. ~IsForgettable
    BY <1>1 DEF IsAbandonedSignUp, IsForgettable
  <2> QED
    BY <1>1, <2>1 DEF Cleanup
<1>2. CASE ~IsAbandonedSignUp /\ IsForgettable
  BY <1>2 DEF Cleanup
<1>3. CASE ~IsAbandonedSignUp /\ ~IsForgettable
  BY <1>3 DEF Cleanup
<1> QED
  BY <1>1, <1>2, <1>3

\* Rows that cleanup or the operator deleted are none; those kept are as they
\* were.
LEMMA NoneOrKept ==
    /\ \A n \in Requests : ~Exists(NoRows(Requests)[n])
    /\ \A d \in Mails : ~Exists(NoRows(Mails)[d])
    /\ \A n \in Requests : Exists(KeptConfirmations[n]) =>
          Exists(confirmation[n]) /\ KeptConfirmations[n] = confirmation[n]
    /\ \A d \in Mails : Exists(KeptLinks[d]) =>
          Exists(link[d]) /\ KeptLinks[d] = link[d]
    /\ \A d \in Mails : (Exists(link[d]) /\ ~IsDeadLink(link[d])) =>
          Exists(KeptLinks[d])
    /\ \A d \in Mails : Exists(KeptDeliveries[d]) =>
          Exists(delivery[d]) /\ KeptDeliveries[d] = delivery[d]
BY RowsExist DEF NoRows, KeptConfirmations, KeptLinks, KeptDeliveries

LEMMA CleanupWork ==
    ASSUME TypeOK, WorkInv, Cleanup
    PROVE  WorkInv'
<1>1. UNCHANGED <<queued, calls, mail, late>>
  BY DEF Cleanup
<1>2. /\ \A d \in Mails : Exists(link'[d]) => Exists(link[d]) /\ link'[d] = link[d]
      /\ \A d \in Mails : Exists(delivery'[d]) =>
            /\ Exists(delivery[d]) /\ delivery'[d] = delivery[d]
            /\ subscriber' = subscriber
      /\ (\E d \in Mails : calls[d] # Never) => subscriber' = subscriber
  BY CleanupCases, NoneOrKept, CleanupSparesCalls
<1>3. RowsOfMails'
  BY <1>1, <1>2 DEF WorkInv, RowsOfMails
<1>4. CallsAreToday'
  BY <1>1, <1>2 DEF WorkInv, CallsAreToday, IsQueued
<1>5. QueuedIsFresh'
  BY <1>1, <1>2 DEF WorkInv, QueuedIsFresh, IsQueued
<1> QED
  BY <1>3, <1>4, <1>5 DEF WorkInv

\* Who is deleted leaves today, or earlier: then nothing is under way.
LEMMA DeletedLeaves ==
    ASSUME TypeOK, LeftIsUnsubscribed, Delete
    PROVE  /\ Exists(subscriber') /\ subscriber'.status = "unsubscribed"
           /\ subscriber'.editions = {} /\ subscriber'.address = FALSE
           /\ subscriber'.suppressed = subscriber.suppressed
           /\ subscriber.status # "unsubscribed" => subscriber'.left = 0
           /\ subscriber.status = "unsubscribed" => subscriber'.left = subscriber.left
<1>1. subscriber \in SubscriberRow /\ subscriber' = DeletedSubscriber
  BY RowsAre DEF Delete
<1>2. (subscriber.status = "unsubscribed") <=> (subscriber.left # Never)
  BY DEF LeftIsUnsubscribed, Delete
<1>3. /\ subscriber'.status = "unsubscribed"
      /\ subscriber'.editions = {} /\ subscriber'.address = FALSE
      /\ subscriber'.suppressed = subscriber.suppressed
      /\ subscriber'.left = IF subscriber.left = Never THEN 0 ELSE subscriber.left
  BY <1>1 DEF DeletedSubscriber, SubscriberRow
<1>4. Exists(subscriber')
  BY <1>3 DEF Exists, None
<1> QED
  BY <1>2, <1>3, <1>4

LEMMA DeleteWork ==
    ASSUME TypeOK, LeftIsUnsubscribed, WorkInv, Delete
    PROVE  WorkInv'
<1>1. /\ UNCHANGED <<queued, calls>>
      /\ \A d \in Mails : ~Exists(link'[d]) /\ ~Exists(delivery'[d])
      /\ late' = late \cup {d \in Mails : calls[d] # Never}
  BY NoneOrKept DEF Delete
<1>2. /\ Exists(subscriber') /\ subscriber'.status = "unsubscribed"
      /\ subscriber.status # "unsubscribed" => subscriber'.left = 0
      /\ subscriber.status = "unsubscribed" => subscriber'.left = subscriber.left
  BY DeletedLeaves
<1>3. RowsOfMails'
  BY <1>1 DEF WorkInv, RowsOfMails
<1>4. CallsAreToday'
  <2> SUFFICES ASSUME NEW d \in Mails, calls[d] # Never
               PROVE  /\ d \in late' /\ calls[d] \in 0 .. LongestWait
                      /\ subscriber'.left = 0
    BY <1>1, <1>2 DEF CallsAreToday, IsQueued
  <2> QED
    BY <1>1, <1>2 DEF WorkInv, CallsAreToday
<1>5. QueuedIsFresh'
  BY <1>1 DEF QueuedIsFresh, IsQueued
<1> QED
  BY <1>3, <1>4, <1>5 DEF WorkInv

\* What a day does to each row.
LEMMA DayMoves ==
    ASSUME TypeOK, Day
    PROVE  /\ Exists(subscriber') <=> Exists(subscriber)
           /\ Exists(subscriber) =>
                 /\ subscriber'.status = subscriber.status
                 /\ subscriber'.editions = subscriber.editions
                 /\ subscriber'.address = subscriber.address
                 /\ subscriber'.suppressed = subscriber.suppressed
                 /\ subscriber'.left = NextDay(subscriber.left, LastLeft)
           /\ \A n \in Requests :
                 /\ Exists(confirmation'[n]) <=> Exists(confirmation[n])
                 /\ Exists(confirmation[n]) =>
                       confirmation'[n].status = confirmation[n].status
           /\ \A d \in Mails :
                 /\ Exists(link'[d]) <=> Exists(link[d])
                 /\ Exists(link[d]) =>
                       /\ link'[d].status = link[d].status
                       /\ link'[d].age = NextDay(link[d].age, LastLink)
           /\ \A d \in Mails :
                 /\ Exists(delivery'[d]) <=> Exists(delivery[d])
                 /\ Exists(delivery[d]) =>
                       /\ delivery'[d].status = delivery[d].status
                       /\ delivery'[d].age = NextDay(delivery[d].age, LastDelivery)
<1>1. ASSUME Exists(subscriber)
      PROVE  /\ Exists(subscriber')
             /\ subscriber'.status = subscriber.status
             /\ subscriber'.editions = subscriber.editions
             /\ subscriber'.address = subscriber.address
             /\ subscriber'.suppressed = subscriber.suppressed
             /\ subscriber'.left = NextDay(subscriber.left, LastLeft)
  <2>1. subscriber \in SubscriberRow
    BY <1>1, RowsAre
  <2>2. /\ subscriber'.status = subscriber.status
        /\ subscriber'.editions = subscriber.editions
        /\ subscriber'.address = subscriber.address
        /\ subscriber'.suppressed = subscriber.suppressed
        /\ subscriber'.left = NextDay(subscriber.left, LastLeft)
    BY <1>1, <2>1 DEF Day, SubscriberRow
  <2>3. subscriber'.status # "none"
    BY <2>1, <2>2 DEF SubscriberRow, Statuses
  <2> QED
    BY <2>2, <2>3 DEF Exists, None
<1>2. ~Exists(subscriber) => subscriber' = subscriber
  BY DEF Day
<1>3. ASSUME NEW n \in Requests
      PROVE  /\ Exists(confirmation'[n]) <=> Exists(confirmation[n])
             /\ Exists(confirmation[n]) =>
                   confirmation'[n].status = confirmation[n].status
  <2>1. CASE Exists(confirmation[n])
    <3>1. confirmation[n] \in ConfirmationRow
      BY <2>1, RowsAre
    <3>2. confirmation'[n].status = confirmation[n].status
      BY <2>1, <3>1 DEF Day, ConfirmationRow
    <3>3. confirmation'[n].status # "none"
      BY <3>1, <3>2 DEF ConfirmationRow
    <3> QED
      BY <2>1, <3>2, <3>3 DEF Exists, None
  <2>2. CASE ~Exists(confirmation[n])
    BY <2>2, RowsExist DEF Day
  <2> QED
    BY <2>1, <2>2
<1>4. ASSUME NEW d \in Mails
      PROVE  /\ Exists(link'[d]) <=> Exists(link[d])
             /\ Exists(link[d]) =>
                   /\ link'[d].status = link[d].status
                   /\ link'[d].age = NextDay(link[d].age, LastLink)
  <2>1. CASE Exists(link[d])
    <3>1. link[d] \in LinkRow
      BY <2>1, RowsAre
    <3>2. link'[d].status = link[d].status /\ link'[d].age = NextDay(link[d].age, LastLink)
      BY <2>1, <3>1 DEF Day, LinkRow
    <3>3. link'[d].status # "none"
      BY <3>1, <3>2 DEF LinkRow
    <3> QED
      BY <2>1, <3>2, <3>3 DEF Exists, None
  <2>2. CASE ~Exists(link[d])
    BY <2>2, RowsExist DEF Day
  <2> QED
    BY <2>1, <2>2
<1>5. ASSUME NEW d \in Mails
      PROVE  /\ Exists(delivery'[d]) <=> Exists(delivery[d])
             /\ Exists(delivery[d]) =>
                   /\ delivery'[d].status = delivery[d].status
                   /\ delivery'[d].age = NextDay(delivery[d].age, LastDelivery)
  <2>1. CASE Exists(delivery[d])
    <3>1. delivery[d] \in DeliveryRow
      BY <2>1, RowsAre
    <3>2. /\ delivery'[d].status = delivery[d].status
          /\ delivery'[d].age = NextDay(delivery[d].age, LastDelivery)
      BY <2>1, <3>1 DEF Day, DeliveryRow
    <3>3. delivery'[d].status # "none"
      BY <3>1, <3>2 DEF DeliveryRow
    <3> QED
      BY <2>1, <3>2, <3>3 DEF Exists, None
  <2>2. CASE ~Exists(delivery[d])
    BY <2>2, RowsExist DEF Day
  <2> QED
    BY <2>1, <2>2
<1> QED
  BY <1>1, <1>2, <1>3, <1>4, <1>5

\* A day goes by only where no delivery has waited for as long as it may.
LEMMA DayWork ==
    ASSUME TypeOK, WorkInv, Day
    PROVE  WorkInv'
<1>1. UNCHANGED <<queued, calls, late>> /\ \A d \in Mails : calls[d] = Never
  BY DEF Day
<1>2. RowsOfMails'
  BY <1>1, DayMoves DEF WorkInv, RowsOfMails
<1>3. CallsAreToday'
  BY <1>1 DEF CallsAreToday
<1>4. ASSUME NEW d \in Mails, IsQueued(d)'
      PROVE  /\ delivery'[d].age <= LongestWait
             /\ Exists(link'[d]) => link'[d].age <= delivery'[d].age
  <2>1. IsQueued(d) /\ delivery'[d].age = NextDay(delivery[d].age, LastDelivery)
    BY <1>4, DayMoves DEF IsQueued
  <2>2. delivery[d].age < LongestWait
    BY <2>1 DEF Day, LongestWait
  <2>3. delivery[d].age \in 0 .. LastDelivery
    BY <2>1, RowsAre DEF IsQueued, DeliveryRow
  <2>4. delivery'[d].age = delivery[d].age + 1
    BY <2>1, <2>2, <2>3, Days DEF LongestWait, NextDay
  <2>5. ASSUME Exists(link'[d]) PROVE link'[d].age <= delivery'[d].age
    <3>1. Exists(link[d]) /\ link'[d].age = NextDay(link[d].age, LastLink)
      BY <2>5, DayMoves
    <3>2. link[d].age \in 0 .. LastLink /\ link[d].age <= delivery[d].age
      BY <2>1, <3>1, RowsAre DEF LinkRow, WorkInv, QueuedIsFresh
    <3>3. link'[d].age <= link[d].age + 1
      BY <3>1, <3>2, Days DEF NextDay
    <3>4. link'[d].age \in Int
      BY <3>1, <3>2, Days DEF NextDay
    <3> QED
      BY <2>3, <2>4, <3>2, <3>3, <3>4, Days
  <2> QED
    BY <2>2, <2>3, <2>4, <2>5, Days DEF LongestWait
<1>5. QueuedIsFresh'
  BY <1>4 DEF QueuedIsFresh
<1> QED
  BY <1>2, <1>3, <1>5 DEF WorkInv

LEMMA WorkStep ==
    ASSUME TypeOK, LeftIsUnsubscribed, WorkInv, [Next]_vars
    PROVE  WorkInv'
<1>1. CASE UNCHANGED vars
  BY <1>1 DEF vars, WorkInv, RowsOfMails, CallsAreToday, QueuedIsFresh, IsQueued
<1> QED
  BY <1>1, SignUpWork, ConfirmWork, ChangeWork, QueueWork, ReadWork,
     PassOverWork, SendWork, SuppressWork, CleanupWork, DeleteWork, DayWork
     DEF Next

-----------------------------------------------------------------------------
(* Mails and their links.                                                  *)

\* The days since a mail, once it is sent.
LEMMA MailDays ==
    ASSUME TypeOK, NEW d \in Mails
    PROVE  /\ mail[d] \in Int /\ mail[d] <= LinkPromise
           /\ mail[d] # Never => mail[d] >= 0
BY Days DEF TypeOK, Never

\* A step that leaves mails alone keeps who has left apart from them, unless
\* somebody leaves earlier than before.
LEMMA LeftKept ==
    ASSUME TypeOK, LeftAfterMails, UNCHANGED mail,
           (Exists(subscriber') /\ subscriber'.status = "unsubscribed") =>
               \/ subscriber'.left = 0
               \/ /\ Exists(subscriber) /\ subscriber.status = "unsubscribed"
                  /\ subscriber'.left = subscriber.left
    PROVE  LeftAfterMails'
<1> SUFFICES ASSUME NEW d \in Mails, Exists(subscriber'),
                    subscriber'.status = "unsubscribed", mail[d] # Never
             PROVE  mail[d] >= LinkPromise \/ mail[d] >= subscriber'.left
  BY DEF LeftAfterMails
<1>1. CASE subscriber'.left = 0
  BY <1>1, MailDays
<1>2. CASE /\ Exists(subscriber) /\ subscriber.status = "unsubscribed"
           /\ subscriber'.left = subscriber.left
  BY <1>2 DEF LeftAfterMails
<1> QED
  BY <1>1, <1>2

LEMMA LeftStep ==
    ASSUME TypeOK, LeftIsUnsubscribed, WorkInv, LeftAfterMails, [Next]_vars
    PROVE  LeftAfterMails'
<1>1. CASE UNCHANGED vars
  BY <1>1 DEF vars, LeftAfterMails
<1>2. ASSUME NEW editions \in SUBSET Editions, SignUp(editions) PROVE LeftAfterMails'
  <2>1. UNCHANGED mail /\ subscriber'.status = "unconfirmed"
    BY <1>2 DEF SignUp, Requested
  <2> QED
    BY <2>1, LeftKept
<1>3. ASSUME NEW n \in Requests, Confirm(n) PROVE LeftAfterMails'
  <2>1. subscriber \in SubscriberRow
    BY <1>3, RowsAre DEF Confirm
  <2>2. UNCHANGED mail /\ subscriber'.status = "confirmed"
    BY <1>3, <2>1 DEF Confirm, SubscriberRow
  <2> QED
    BY <2>2, LeftKept
<1>4. ASSUME NEW d \in Mails, NEW editions \in SUBSET Editions,
             ChangePreferences(d, editions)
      PROVE  LeftAfterMails'
  <2>1. subscriber \in SubscriberRow
    BY <1>4, RowsAre DEF ChangePreferences
  <2>2. /\ UNCHANGED mail
        /\ subscriber'.status = "unsubscribed" => subscriber'.left = 0
    BY <1>4, <2>1 DEF ChangePreferences, AfterChange, SubscriberRow
  <2> QED
    BY <2>2, LeftKept
<1>5. ASSUME NEW edition \in Editions, Queue(edition) PROVE LeftAfterMails'
  BY <1>5 DEF Queue, LeftAfterMails
<1>6. ASSUME NEW d \in Mails, Read(d) PROVE LeftAfterMails'
  BY <1>6 DEF Read, LeftAfterMails
<1>7. ASSUME NEW d \in Mails, PassOver(d) PROVE LeftAfterMails'
  BY <1>7 DEF PassOver, LeftAfterMails
<1>8. ASSUME NEW d \in Mails, NEW outcome \in Outcomes, NEW arrives \in BOOLEAN,
             Send(d, outcome, arrives)
      PROVE  LeftAfterMails'
  <2>1. UNCHANGED subscriber /\ \A m \in Mails : m # d => mail'[m] = mail[m]
    BY <1>8 DEF Send, TypeOK
  <2>2. mail'[d] = 0 \/ mail'[d] = mail[d]
    BY <1>8 DEF Send, TypeOK
  <2>3. subscriber.status = "unsubscribed" => subscriber.left = 0
    BY <1>8 DEF Send, WorkInv, CallsAreToday
  <2> QED
    BY <2>1, <2>2, <2>3 DEF LeftAfterMails
<1>9. ASSUME NEW d \in Mails, NEW unsubscribes \in BOOLEAN, Suppress(d, unsubscribes)
      PROVE  LeftAfterMails'
  <2>1. Exists(subscriber)
    BY <1>9 DEF Suppress, WorkInv, RowsOfMails
  <2>2. subscriber \in SubscriberRow
    BY <2>1, RowsAre
  <2>3. /\ UNCHANGED mail
        /\ \/ subscriber'.status = subscriber.status /\ subscriber'.left = subscriber.left
           \/ subscriber'.left = 0
    BY <1>9, <2>2 DEF Suppress, SubscriberRow
  <2> QED
    BY <2>1, <2>3, LeftKept
<1>10. ASSUME Cleanup PROVE LeftAfterMails'
  <2>1. UNCHANGED mail
    BY <1>10 DEF Cleanup
  <2>2. CASE subscriber' = None
    BY <2>1, <2>2, RowsExist, LeftKept
  <2>3. CASE /\ IsForgettable
             /\ subscriber' = [subscriber EXCEPT !.address = FALSE, !.updated = 0]
    <3>1. Exists(subscriber) /\ subscriber \in SubscriberRow
      BY <2>3, RowsAre DEF IsForgettable
    <3>2. subscriber'.status = subscriber.status /\ subscriber'.left = subscriber.left
      BY <2>3, <3>1 DEF SubscriberRow
    <3> QED
      BY <2>1, <3>1, <3>2, LeftKept
  <2>4. CASE UNCHANGED subscriber
    BY <2>1, <2>4 DEF LeftAfterMails
  <2> QED
    BY <1>10, <2>2, <2>3, <2>4, CleanupCases
<1>11. ASSUME Delete PROVE LeftAfterMails'
  BY <1>11 DEF Delete, LeftAfterMails
<1>12. ASSUME Day PROVE LeftAfterMails'
  <2> SUFFICES ASSUME NEW d \in Mails, Exists(subscriber'),
                      subscriber'.status = "unsubscribed", mail'[d] # Never
               PROVE  mail'[d] >= LinkPromise \/ mail'[d] >= subscriber'.left
    BY DEF LeftAfterMails
  <2>1. /\ Exists(subscriber) /\ subscriber.status = "unsubscribed"
        /\ subscriber'.left = NextDay(subscriber.left, LastLeft)
    BY <1>12, DayMoves
  <2>2. mail'[d] = NextDay(mail[d], LinkPromise)
    BY <1>12 DEF Day
  <2>3. mail[d] \in Int /\ mail[d] <= LinkPromise /\ mail[d] # Never /\ mail[d] >= 0
    BY <2>2, MailDays, Days DEF NextDay, Never
  <2>4. subscriber.left \in Int
    BY <2>1, RowsAre, Days DEF SubscriberRow, Never
  <2>5. /\ subscriber'.left \in Int /\ subscriber'.left <= subscriber.left + 1
    BY <2>1, <2>4, Days DEF NextDay
  <2>6. mail[d] >= LinkPromise \/ mail[d] >= subscriber.left
    BY <2>1, <2>3 DEF LeftAfterMails
  <2>7. mail'[d] = LinkPromise \/ mail'[d] = mail[d] + 1
    BY <2>2, <2>3, Days DEF NextDay
  <2> QED
    BY <2>3, <2>4, <2>5, <2>6, <2>7, Days
<1> QED
  BY <1>1, <1>2, <1>3, <1>4, <1>5, <1>6, <1>7, <1>8, <1>9, <1>10, <1>11, <1>12
     DEF Next

\* No cleanup takes the link of a mail that is not old: such a link is not
\* dead, keeps a sign-up, and who is forgotten left after the mail was sent.
LEMMA CleanupSparesLinks ==
    ASSUME TypeOK, LeftAfterMails, LinksLast, Cleanup,
           NEW d \in Mails, mail[d] # Never, mail[d] < LinkPromise
    PROVE  Exists(link'[d]) /\ link'[d] = link[d]
<1>1. Exists(link[d]) /\ link[d].age <= mail[d] + LongestWait
  BY DEF LinksLast
<1>2. link[d].age \in 0 .. LastLink
  BY <1>1, RowsAre DEF LinkRow
<1>3. link[d].age < LinkLifetime
  BY <1>1, <1>2, MailDays, Days DEF LongestWait
<1>4. ~IsDeadLink(link[d])
  BY <1>2, <1>3, Days DEF IsDeadLink
<1>5. Exists(KeptLinks[d]) /\ KeptLinks[d] = link[d]
  BY <1>1, <1>4, NoneOrKept
<1>6. ~IsAbandonedSignUp
  <2>1. link[d].age <= LinkLifetime + TokenRetention
    BY <1>2, <1>3, Days
  <2> QED
    BY <1>5, <2>1 DEF IsAbandonedSignUp, KeepsSignUp
<1>7. ~IsForgettable
  <2> SUFFICES ASSUME IsForgettable PROVE FALSE
    OBVIOUS
  <2>1. /\ Exists(subscriber) /\ subscriber.status = "unsubscribed"
        /\ subscriber.left > AddressRetention
    BY DEF IsForgettable
  <2>2. mail[d] >= subscriber.left
    BY <2>1, MailDays, Days DEF LeftAfterMails
  <2>3. subscriber.left \in Int
    BY <2>1, RowsAre, Days DEF SubscriberRow, Never
  <2> QED
    BY <2>1, <2>2, <2>3, MailDays, Days
<1> QED
  BY <1>5, <1>6, <1>7, CleanupCases

LEMMA LinksStep ==
    ASSUME TypeOK, WorkInv, LeftAfterMails, LinksLast, [Next]_vars
    PROVE  LinksLast'
<1>1. CASE UNCHANGED <<link, mail>>
  BY <1>1 DEF LinksLast
<1>2. ASSUME NEW d \in Mails, NEW editions \in SUBSET Editions,
             ChangePreferences(d, editions)
      PROVE  LinksLast'
  <2>1. UNCHANGED mail /\ link' = [link EXCEPT ![d].status = "consumed"]
    BY <1>2 DEF ChangePreferences
  <2>2. link[d] \in LinkRow
    BY <1>2, RowsAre DEF ChangePreferences, IsLive
  <2>3. /\ \A m \in Mails : m # d => link'[m] = link[m]
        /\ link'[d] \in LinkRow /\ link'[d].age = link[d].age
    BY <2>1, <2>2 DEF TypeOK, LinkRow
  <2> QED
    BY <2>1, <2>3, RowsExist DEF LinksLast
<1>3. ASSUME NEW d \in Mails, NEW outcome \in Outcomes, NEW arrives \in BOOLEAN,
             Send(d, outcome, arrives)
      PROVE  LinksLast'
  <2>1. calls[d] # Never /\ link' = LinkStored(d)
    BY <1>3 DEF Send
  <2>2. /\ \A m \in Mails : m # d => link'[m] = link[m]
        /\ Exists(link'[d]) /\ link'[d].age <= LongestWait
    BY <2>1, LinkIsStored
  <2>3. /\ \A m \in Mails : m # d => mail'[m] = mail[m]
        /\ mail'[d] = 0 \/ mail'[d] = mail[d]
    BY <1>3 DEF Send, TypeOK
  <2>4. link'[d].age \in Int
    <3>1. link[d] \in {None} \cup LinkRow /\ calls[d] \in Int
      BY Days DEF TypeOK, Never
    <3>2. Exists(link[d]) => link[d].age \in Int
      BY <3>1, RowsAre DEF LinkRow
    <3> QED
      BY <2>1, <3>1, <3>2 DEF LinkStored, TypeOK
  <2>5. mail'[d] # Never => mail'[d] \in Nat
    BY <2>3, MailDays
  <2>6. mail'[d] # Never => link'[d].age <= mail'[d] + LongestWait
    BY <2>2, <2>4, <2>5, Days DEF LongestWait
  <2> QED
    BY <2>2, <2>3, <2>6 DEF LinksLast
<1>4. ASSUME Cleanup PROVE LinksLast'
  <2>1. UNCHANGED mail
    BY <1>4 DEF Cleanup
  <2>2. \A d \in Mails : (mail[d] # Never /\ mail[d] < LinkPromise) =>
            Exists(link'[d]) /\ link'[d] = link[d]
    BY <1>4, CleanupSparesLinks
  <2> QED
    BY <2>1, <2>2 DEF LinksLast
<1>5. ASSUME Delete PROVE LinksLast'
  BY <1>5 DEF Delete, LinksLast
<1>6. ASSUME Day PROVE LinksLast'
  <2> SUFFICES ASSUME NEW d \in Mails, mail'[d] # Never, mail'[d] < LinkPromise
               PROVE  Exists(link'[d]) /\ link'[d].age <= mail'[d] + LongestWait
    BY DEF LinksLast
  <2>1. mail'[d] = NextDay(mail[d], LinkPromise)
    BY <1>6 DEF Day
  <2>2. /\ mail[d] # Never /\ mail[d] < LinkPromise /\ mail[d] \in Nat
        /\ mail'[d] = mail[d] + 1
    BY <2>1, MailDays, Days DEF NextDay, Never
  <2>3. Exists(link[d]) /\ link[d].age <= mail[d] + LongestWait
    BY <2>2 DEF LinksLast
  <2>4. Exists(link'[d]) /\ link'[d].age = NextDay(link[d].age, LastLink)
    BY <1>6, <2>3, DayMoves
  <2>5. link[d].age \in Int
    BY <2>3, RowsAre DEF LinkRow
  <2>6. link'[d].age \in Int /\ link'[d].age <= link[d].age + 1
    BY <2>4, <2>5, Days DEF NextDay
  <2> QED
    BY <2>2, <2>3, <2>4, <2>5, <2>6, Days DEF LongestWait
<1>7. ASSUME \/ UNCHANGED vars
             \/ \E editions \in SUBSET Editions : SignUp(editions)
             \/ \E n \in Requests : Confirm(n)
             \/ \E edition \in Editions : Queue(edition)
             \/ \E d \in Mails : Read(d) \/ PassOver(d)
             \/ \E d \in Mails, unsubscribes \in BOOLEAN : Suppress(d, unsubscribes)
      PROVE  UNCHANGED <<link, mail>>
  BY <1>7 DEF vars, SignUp, Confirm, Queue, Read, PassOver, Suppress
<1> QED
  BY <1>1, <1>2, <1>3, <1>4, <1>5, <1>6, <1>7 DEF Next

\* The promise to whoever has a mail follows.
LEMMA PromiseIsKept ==
    ASSUME TypeOK, LinksLast
    PROVE  MailsHaveLinks
<1> SUFFICES ASSUME NEW d \in Mails, mail[d] \in 0 .. LinkPromise - 1
             PROVE  Exists(link[d]) /\ link[d].age < LinkLifetime
  BY DEF MailsHaveLinks
<1>1. mail[d] # Never /\ mail[d] < LinkPromise /\ mail[d] \in Int
  BY Days DEF Never
<1>2. Exists(link[d]) /\ link[d].age <= mail[d] + LongestWait
  BY <1>1 DEF LinksLast
<1>3. link[d].age \in Int
  BY <1>2, RowsAre DEF LinkRow
<1> QED
  BY <1>1, <1>2, <1>3, Days DEF LongestWait

-----------------------------------------------------------------------------
(* Evidence, tokens, and what is forgotten.                                *)

\* A row with an address and the event that was added with it agree.
LEMMA EvidenceAdded ==
    ASSUME NEW kind, NEW editions, consent' = Recorded(kind, editions),
           subscriber'.editions = editions,
           kind = "suppressed" <=> subscriber'.suppressed,
           ~subscriber'.suppressed => kind \in EvidenceOf(subscriber'.status)
    PROVE  ConsentOnRecord'
<1>1. consent'.kind = kind /\ consent'.editions = editions
  BY DEF Recorded
<1> QED
  BY <1>1 DEF ConsentOnRecord

LEMMA ConsentStep ==
    ASSUME TypeOK, LeftIsUnsubscribed, WorkInv, ConsentOnRecord, [Next]_vars
    PROVE  ConsentOnRecord'
<1>1. CASE UNCHANGED <<subscriber, consent>>
  BY <1>1 DEF ConsentOnRecord
<1>2. ASSUME NEW editions \in SUBSET Editions, SignUp(editions) PROVE ConsentOnRecord'
  <2>1. /\ subscriber'.editions = editions /\ ~subscriber'.suppressed
        /\ subscriber'.status = "unconfirmed"
    BY <1>2 DEF SignUp, Requested
  <2>2. PICK kind \in {"resubscribe_requested", "signup_requested"} :
            consent' = Recorded(kind, editions)
    BY <1>2 DEF SignUp
  <2>3. kind \in EvidenceOf(subscriber'.status) /\ kind # "suppressed"
    BY <2>1, <2>2 DEF EvidenceOf
  <2> QED
    BY <2>1, <2>2, <2>3, EvidenceAdded
<1>3. ASSUME NEW n \in Requests, Confirm(n) PROVE ConsentOnRecord'
  <2>1. subscriber \in SubscriberRow /\ ~subscriber.suppressed
    BY <1>3, RowsAre DEF Confirm
  <2>2. /\ subscriber'.status = "confirmed" /\ ~subscriber'.suppressed
        /\ consent' = Recorded("subscription_confirmed", subscriber'.editions)
    BY <1>3, <2>1 DEF Confirm, SubscriberRow
  <2>3. "subscription_confirmed" \in EvidenceOf(subscriber'.status)
    BY <2>2 DEF EvidenceOf
  <2> QED
    BY <2>2, <2>3, EvidenceAdded
<1>4. ASSUME NEW d \in Mails, NEW editions \in SUBSET Editions,
             ChangePreferences(d, editions)
      PROVE  ConsentOnRecord'
  <2> DEFINE kind == IF editions = {} THEN "unsubscribed" ELSE "preferences_changed"
  <2>1. subscriber \in SubscriberRow /\ ~subscriber.suppressed
    BY <1>4, RowsAre DEF ChangePreferences
  <2>2. /\ subscriber'.status = IF editions = {} THEN "unsubscribed" ELSE "confirmed"
        /\ subscriber'.editions = editions /\ ~subscriber'.suppressed
    BY <1>4, <2>1 DEF ChangePreferences, AfterChange, SubscriberRow
  <2>3. consent' = Recorded(kind, editions)
    BY <1>4 DEF ChangePreferences
  <2>4. kind \in EvidenceOf(subscriber'.status) /\ kind # "suppressed"
    BY <2>2 DEF EvidenceOf
  <2> HIDE DEF kind
  <2> QED
    BY <2>2, <2>3, <2>4, EvidenceAdded
<1>5. ASSUME NEW d \in Mails, NEW unsubscribes \in BOOLEAN, Suppress(d, unsubscribes)
      PROVE  ConsentOnRecord'
  <2>1. Exists(subscriber)
    BY <1>5 DEF Suppress, WorkInv, RowsOfMails
  <2>2. subscriber \in SubscriberRow
    BY <2>1, RowsAre
  <2>3. subscriber'.suppressed
    BY <1>5, <2>2 DEF Suppress, SubscriberRow
  <2>4. consent' = Recorded("suppressed", subscriber'.editions)
    BY <1>5 DEF Suppress
  <2> QED
    BY <2>3, <2>4, EvidenceAdded
<1>6. ASSUME Cleanup PROVE ConsentOnRecord'
  <2>1. CASE subscriber' = None
    BY <2>1, RowsExist DEF ConsentOnRecord
  <2>2. CASE /\ IsForgettable
             /\ subscriber' = [subscriber EXCEPT !.address = FALSE, !.updated = 0]
    <3>1. subscriber \in SubscriberRow
      BY <2>2, RowsAre DEF IsForgettable
    <3>2. subscriber'.address = FALSE
      BY <2>2, <3>1 DEF SubscriberRow
    <3> QED
      BY <3>2 DEF ConsentOnRecord
  <2> QED
    BY <1>1, <1>6, <2>1, <2>2, CleanupCases
<1>7. ASSUME Delete PROVE ConsentOnRecord'
  BY <1>7, DeletedLeaves DEF ConsentOnRecord
<1>8. ASSUME Day PROVE ConsentOnRecord'
  <2>1. UNCHANGED consent
    BY <1>8 DEF Day
  <2> QED
    BY <1>8, <2>1, DayMoves DEF ConsentOnRecord
<1>9. ASSUME \/ UNCHANGED vars
             \/ \E edition \in Editions : Queue(edition)
             \/ \E d \in Mails : Read(d) \/ PassOver(d)
             \/ \E d \in Mails, outcome \in Outcomes, arrives \in BOOLEAN :
                   Send(d, outcome, arrives)
      PROVE  UNCHANGED <<subscriber, consent>>
  BY <1>9 DEF vars, Queue, Read, PassOver, Send
<1> QED
  BY <1>1, <1>2, <1>3, <1>4, <1>5, <1>6, <1>7, <1>8, <1>9 DEF Next

\* A sign-up leaves the live token of no earlier one.
LEMMA RotatedIsLast ==
    ASSUME TypeOK, NEW n \in Requests, NEW r \in Requests, IsLive(Rotated(n)[r])
    PROVE  r = n
<1> SUFFICES ASSUME r # n PROVE FALSE
  OBVIOUS
<1>1. CASE IsLive(confirmation[r])
  <2>1. confirmation[r] \in ConfirmationRow
    BY <1>1, RowsAre DEF IsLive
  <2>2. Rotated(n)[r] = [confirmation[r] EXCEPT !.status = "invalidated", !.ended = 0]
    BY <1>1 DEF Rotated
  <2>3. Rotated(n)[r].status = "invalidated"
    BY <2>1, <2>2 DEF ConfirmationRow
  <2> QED
    BY <2>3 DEF IsLive
<1>2. CASE ~IsLive(confirmation[r])
  <2>1. Rotated(n)[r] = confirmation[r]
    BY <1>2 DEF Rotated
  <2> QED
    BY <1>2, <2>1
<1> QED
  BY <1>1, <1>2

LEMMA LatestStep ==
    ASSUME TypeOK, OnlyLatestConfirms, [Next]_vars
    PROVE  OnlyLatestConfirms'
<1>1. CASE UNCHANGED <<requests, confirmation>>
  BY <1>1 DEF OnlyLatestConfirms
<1>2. ASSUME NEW editions \in SUBSET Editions, SignUp(editions) PROVE OnlyLatestConfirms'
  <2>1. /\ requests' = requests + 1 /\ confirmation' = Rotated(requests + 1)
        /\ requests + 1 \in Requests
    BY <1>2, Days DEF SignUp, TypeOK, Requests
  <2> QED
    BY <2>1, RotatedIsLast DEF OnlyLatestConfirms
<1>3. ASSUME NEW n \in Requests, Confirm(n) PROVE OnlyLatestConfirms'
  <2>1. /\ UNCHANGED requests
        /\ confirmation' = [confirmation EXCEPT ![n] =
                               [@ EXCEPT !.status = "consumed", !.ended = 0]]
    BY <1>3 DEF Confirm
  <2>2. confirmation[n] \in ConfirmationRow
    BY <1>3, RowsAre DEF Confirm, IsLive
  <2>3. /\ \A r \in Requests : r # n => confirmation'[r] = confirmation[r]
        /\ confirmation'[n].status = "consumed"
    BY <2>1, <2>2 DEF TypeOK, ConfirmationRow
  <2> QED
    BY <2>1, <2>3 DEF OnlyLatestConfirms, IsLive
<1>4. ASSUME Cleanup PROVE OnlyLatestConfirms'
  <2>1. UNCHANGED requests
    BY <1>4 DEF Cleanup
  <2>2. \A n \in Requests : IsLive(confirmation'[n]) => IsLive(confirmation[n])
    BY <1>4, CleanupCases, NoneOrKept DEF IsLive
  <2> QED
    BY <2>1, <2>2 DEF OnlyLatestConfirms
<1>5. ASSUME Delete PROVE OnlyLatestConfirms'
  BY <1>5, NoneOrKept DEF Delete, OnlyLatestConfirms, IsLive
<1>6. ASSUME Day PROVE OnlyLatestConfirms'
  <2>1. UNCHANGED requests
    BY <1>6 DEF Day
  <2> QED
    BY <1>6, <2>1, DayMoves DEF OnlyLatestConfirms, IsLive
<1>7. ASSUME \/ UNCHANGED vars
             \/ \E d \in Mails, editions \in SUBSET Editions :
                   ChangePreferences(d, editions)
             \/ \E edition \in Editions : Queue(edition)
             \/ \E d \in Mails : Read(d) \/ PassOver(d)
             \/ \E d \in Mails, outcome \in Outcomes, arrives \in BOOLEAN :
                   Send(d, outcome, arrives)
             \/ \E d \in Mails, unsubscribes \in BOOLEAN : Suppress(d, unsubscribes)
      PROVE  UNCHANGED <<requests, confirmation>>
  BY <1>7 DEF vars, ChangePreferences, Queue, Read, PassOver, Send, Suppress
<1> QED
  BY <1>1, <1>2, <1>3, <1>4, <1>5, <1>6, <1>7 DEF Next

\* Where nothing is added to what a subscriber without an address has left,
\* nothing is left.
LEMMA NothingAdded ==
    ASSUME ForgottenLeavesNothing,
           Exists(subscriber'), ~subscriber'.address,
           subscriber'.status = "unsubscribed",
           Exists(subscriber), ~subscriber.address,
           late \subseteq late',
           \A n \in Requests : Exists(confirmation'[n]) => Exists(confirmation[n]),
           \A d \in Mails : Exists(delivery'[d]) => Exists(delivery[d]),
           \A d \in Mails : Exists(link'[d]) => Exists(link[d]) \/ d \in late,
           consent'.older => consent.older \/ late # {}
    PROVE  ForgottenLeavesNothing'
<1>1. \A n \in Requests : ~Exists(confirmation'[n])
  BY DEF ForgottenLeavesNothing
<1>2. \A d \in Mails : ~Exists(delivery'[d]) /\ (Exists(link'[d]) => d \in late')
  BY DEF ForgottenLeavesNothing
<1>3. consent'.older => late' # {}
  BY DEF ForgottenLeavesNothing
<1> QED
  BY <1>1, <1>2, <1>3 DEF ForgottenLeavesNothing

LEMMA ForgottenStep ==
    ASSUME TypeOK, LeftIsUnsubscribed, WorkInv, ForgottenLeavesNothing, [Next]_vars
    PROVE  ForgottenLeavesNothing'
<1> SUFFICES ASSUME Exists(subscriber'), ~subscriber'.address
             PROVE  ForgottenLeavesNothing'
  BY DEF ForgottenLeavesNothing
<1>1. CASE UNCHANGED vars
  BY <1>1 DEF vars, ForgottenLeavesNothing
<1>2. ASSUME NEW editions \in SUBSET Editions, SignUp(editions) PROVE FALSE
  BY <1>2 DEF SignUp, Requested
<1>3. ASSUME NEW n \in Requests, Confirm(n) PROVE FALSE
  <2>1. subscriber \in SubscriberRow
    BY <1>3, RowsAre DEF Confirm
  <2> QED
    BY <1>3, <2>1 DEF Confirm, SubscriberRow, Admitted
<1>4. ASSUME NEW d \in Mails, NEW editions \in SUBSET Editions,
             ChangePreferences(d, editions)
      PROVE  ForgottenLeavesNothing'
  <2>1. /\ Exists(subscriber) /\ subscriber \in SubscriberRow
        /\ Admitted(subscriber') /\ Exists(link[d])
        /\ UNCHANGED <<confirmation, delivery, late>>
    BY <1>4, RowsAre DEF ChangePreferences, IsLive
  <2>2. subscriber'.address = subscriber.address
    BY <1>4, <2>1 DEF ChangePreferences, AfterChange, SubscriberRow
  <2>3. subscriber'.status = "unsubscribed"
    BY <2>1 DEF Admitted
  <2>4. \A m \in Mails : Exists(link'[m]) => Exists(link[m])
    BY <1>4, <2>1 DEF ChangePreferences, TypeOK
  <2>5. late # {}
    BY <2>1, <2>2 DEF ForgottenLeavesNothing
  <2> QED
    BY <2>1, <2>2, <2>3, <2>4, <2>5, NothingAdded
<1>5. ASSUME NEW edition \in Editions, Queue(edition) PROVE FALSE
  <2>1. UNCHANGED subscriber
    BY <1>5 DEF Queue
  <2> QED
    BY <1>5, <2>1, RowsAre DEF Queue, IsEligible, Admitted
<1>6. ASSUME NEW d \in Mails, Read(d) PROVE ForgottenLeavesNothing'
  BY <1>6 DEF Read, ForgottenLeavesNothing
<1>7. ASSUME NEW d \in Mails, PassOver(d) PROVE FALSE
  <2>1. Exists(delivery[d]) /\ UNCHANGED subscriber
    BY <1>7 DEF PassOver, IsQueued
  <2> QED
    BY <2>1 DEF ForgottenLeavesNothing
<1>8. ASSUME NEW d \in Mails, NEW outcome \in Outcomes, NEW arrives \in BOOLEAN,
             Send(d, outcome, arrives)
      PROVE  ForgottenLeavesNothing'
  <2>1. UNCHANGED <<subscriber, consent, confirmation, late>> /\ calls[d] # Never
    BY <1>8 DEF Send
  <2>2. d \in late
    BY <2>1 DEF WorkInv, CallsAreToday
  <2>3. \A m \in Mails : Exists(link'[m]) => Exists(link[m]) \/ m \in late
    BY <1>8, <2>1, <2>2, LinkIsStored DEF Send
  <2>4. \A m \in Mails : Exists(delivery'[m]) => Exists(delivery[m])
    <3>1. CASE outcome = "retry"
      BY <1>8, <3>1 DEF Send
    <3>2. CASE outcome \in {"sent", "failed"}
      <4>1. delivery' = Ended(d, outcome)
        BY <1>8, <3>2 DEF Send
      <4> QED
        BY <3>2, <4>1, EndedIsRow
    <3> QED
      BY <3>1, <3>2 DEF Outcomes
  <2>5. subscriber.status = "unsubscribed"
    BY <2>1 DEF ForgottenLeavesNothing
  <2> QED
    BY <2>1, <2>3, <2>4, <2>5, NothingAdded
<1>9. ASSUME NEW d \in Mails, NEW unsubscribes \in BOOLEAN, Suppress(d, unsubscribes)
      PROVE  FALSE
  <2>1. Exists(delivery[d]) /\ Exists(subscriber)
    BY <1>9 DEF Suppress, WorkInv, RowsOfMails
  <2>2. subscriber \in SubscriberRow
    BY <2>1, RowsAre
  <2>3. subscriber'.address = subscriber.address
    BY <1>9, <2>2 DEF Suppress, SubscriberRow
  <2> QED
    BY <2>1, <2>3 DEF ForgottenLeavesNothing
<1>10. ASSUME Cleanup PROVE ForgottenLeavesNothing'
  <2>1. UNCHANGED late
    BY <1>10 DEF Cleanup
  <2>2. CASE subscriber' = None
    BY <2>2, RowsExist
  <2>3. CASE /\ IsForgettable
             /\ subscriber' = [subscriber EXCEPT !.address = FALSE, !.updated = 0]
             /\ consent' = [consent EXCEPT !.older = FALSE]
             /\ confirmation' = NoRows(Requests)
             /\ link' = NoRows(Mails) /\ delivery' = NoRows(Mails)
    <3>1. /\ subscriber \in SubscriberRow /\ subscriber.status = "unsubscribed"
          /\ consent \in ConsentRow
      BY <2>3, RowsAre DEF IsForgettable, TypeOK
    <3>2. subscriber'.status = "unsubscribed" /\ ~consent'.older
      BY <2>3, <3>1 DEF SubscriberRow, ConsentRow
    <3> QED
      BY <2>3, <3>2, NoneOrKept DEF ForgottenLeavesNothing
  <2>4. CASE /\ UNCHANGED <<subscriber, consent>>
             /\ confirmation' = KeptConfirmations
             /\ link' = KeptLinks /\ delivery' = KeptDeliveries
    <3>1. subscriber.status = "unsubscribed"
      BY <2>4 DEF ForgottenLeavesNothing
    <3> QED
      BY <2>1, <2>4, <3>1, NoneOrKept, NothingAdded
  <2> QED
    BY <1>10, <2>2, <2>3, <2>4, CleanupCases
<1>11. ASSUME Delete PROVE ForgottenLeavesNothing'
  <2>1. consent \in ConsentRow
    BY <1>11, RowsAre DEF Delete, TypeOK
  <2>2. ~consent'.older
    BY <1>11, <2>1 DEF Delete, ConsentRow
  <2>3. /\ \A n \in Requests : ~Exists(confirmation'[n])
        /\ \A d \in Mails : ~Exists(delivery'[d]) /\ ~Exists(link'[d])
    BY <1>11, NoneOrKept DEF Delete
  <2> QED
    BY <1>11, <2>2, <2>3, DeletedLeaves DEF ForgottenLeavesNothing
<1>12. ASSUME Day PROVE ForgottenLeavesNothing'
  <2>1. UNCHANGED <<consent, late>>
    BY <1>12 DEF Day
  <2>2. /\ Exists(subscriber) /\ ~subscriber.address
        /\ subscriber'.status = subscriber.status
    BY <1>12, DayMoves
  <2>3. subscriber.status = "unsubscribed"
    BY <2>2 DEF ForgottenLeavesNothing
  <2> QED
    BY <1>12, <2>1, <2>2, <2>3, DayMoves, NothingAdded
<1> QED
  BY <1>1, <1>2, <1>3, <1>4, <1>5, <1>6, <1>7, <1>8, <1>9, <1>10, <1>11, <1>12
     DEF Next

-----------------------------------------------------------------------------
(* The theorems.                                                           *)

LEMMA InvInit ==
    ASSUME Init
    PROVE  SubscribersInv
<1>1. ~Exists(subscriber) /\ ~Exists(consent)
  BY RowsExist DEF Init
<1>2. /\ \A n \in Requests : confirmation[n] = None
      /\ \A d \in Mails : /\ link[d] = None /\ delivery[d] = None
                          /\ calls[d] = Never /\ mail[d] = Never
  BY DEF Init, NoRows
<1>3. TypeOK
  <2>1. Never \in Never .. LastDelivery /\ Never \in Never .. LinkPromise
    BY Days DEF Never
  <2>2. 0 \in 0 .. MaxRequests /\ 0 \in 0 .. MaxMails
    BY Days
  <2> QED
    BY <1>1, <2>1, <2>2 DEF Init, TypeOK, NoRows
<1>4. LeftIsUnsubscribed /\ ConsentOnRecord /\ ForgottenLeavesNothing
  BY <1>1 DEF LeftIsUnsubscribed, ConsentOnRecord, ForgottenLeavesNothing
<1>5. WorkInv
  BY <1>2, RowsExist DEF WorkInv, RowsOfMails, CallsAreToday, QueuedIsFresh, IsQueued
<1>6. LeftAfterMails /\ LinksLast /\ OnlyLatestConfirms
  BY <1>2, RowsExist DEF LeftAfterMails, LinksLast, OnlyLatestConfirms, IsLive
<1> QED
  BY <1>3, <1>4, <1>5, <1>6 DEF SubscribersInv

LEMMA InvStep ==
    ASSUME SubscribersInv, [Next]_vars
    PROVE  SubscribersInv'
BY RowsStep, WorkStep, LeftStep, LinksStep, ConsentStep, LatestStep, ForgottenStep
   DEF SubscribersInv

\* Every reachable state has the inductive invariant: rows as their tables
\* declare them, evidence, links and tokens as the transactions of
\* persistence.ts, delivery.ts and lifecycle.ts leave them.
THEOREM InvAlways == Spec => []SubscribersInv
<1>1. Init => SubscribersInv
  BY InvInit
<1>2. SubscribersInv /\ [Next]_vars => SubscribersInv'
  BY InvStep
<1> QED
  BY <1>1, <1>2, PTL DEF Spec

\* The variables keep their types, and the subscriber's row the checks of its
\* table (db/schema.ts).
THEOREM TypeCorrect == Spec => []TypeOK
<1>1. SubscribersInv => TypeOK
  BY DEF SubscribersInv
<1> QED
  BY <1>1, InvAlways, PTL

\* The last event on record is evidence of the subscription as it stands, and
\* only the link of the latest sign-up confirms (persistSignupRequest and the
\* other transactions of persistence.ts).
THEOREM ConsentIsOnRecord == Spec => []RowsAgree
<1>1. SubscribersInv => RowsAgree
  BY DEF SubscribersInv, RowsAgree
<1> QED
  BY <1>1, InvAlways, PTL

\* Whoever has a mail can unsubscribe with its link for as long as promised
\* (ensureDeliveryPreferenceToken, cleanupSubscriberData).
THEOREM MailsKeepTheirLinks == Spec => []MailsHaveLinks
<1>1. SubscribersInv => MailsHaveLinks
  BY PromiseIsKept DEF SubscribersInv
<1> QED
  BY <1>1, InvAlways, PTL

\* Nothing is left of whoever is forgotten, but what a delivery that was under
\* way has stored (cleanupSubscriberData, scripts/subscribers.ts).
THEOREM NothingIsLeft == Spec => []ForgottenLeavesNothing
<1>1. SubscribersInv => ForgottenLeavesNothing
  BY DEF SubscribersInv
<1> QED
  BY <1>1, InvAlways, PTL

\* No step lifts a suppression (the checks of suppression_reason in
\* persistence.ts and lifecycle.ts).
LEMMA SuppressionStep ==
    ASSUME SubscribersInv, [Next]_vars, Exists(subscriber), subscriber.suppressed
    PROVE  /\ Exists(subscriber') /\ subscriber'.suppressed
           /\ subscriber'.editions \subseteq subscriber.editions
           /\ subscriber'.status \in {subscriber.status, "unsubscribed"}
<1>0. TypeOK /\ LeftIsUnsubscribed /\ subscriber \in SubscriberRow
  BY RowsAre DEF SubscribersInv
<1>1. CASE UNCHANGED subscriber
  BY <1>1
<1>2. ASSUME \/ \E editions \in SUBSET Editions : SignUp(editions)
             \/ \E n \in Requests : Confirm(n)
             \/ \E d \in Mails, editions \in SUBSET Editions :
                   ChangePreferences(d, editions)
             \/ \E d \in Mails, unsubscribes \in BOOLEAN : Suppress(d, unsubscribes)
      PROVE  FALSE
  BY <1>2 DEF SignUp, MaySignUp, Confirm, ChangePreferences, Suppress
<1>3. ASSUME Cleanup
      PROVE  /\ Exists(subscriber') /\ subscriber'.suppressed
             /\ subscriber'.editions = subscriber.editions
             /\ subscriber'.status = subscriber.status
  <2>1. CASE IsAbandonedSignUp
    BY <2>1 DEF IsAbandonedSignUp
  <2>2. CASE subscriber' = [subscriber EXCEPT !.address = FALSE, !.updated = 0]
    <3>1. /\ subscriber'.suppressed /\ subscriber'.editions = subscriber.editions
          /\ subscriber'.status = subscriber.status
      BY <1>0, <2>2 DEF SubscriberRow
    <3>2. subscriber.status # "none"
      BY <1>0 DEF SubscriberRow, Statuses
    <3> QED
      BY <3>1, <3>2 DEF Exists, None
  <2> QED
    BY <1>3, <2>1, <2>2, CleanupCases
<1>4. ASSUME Delete
      PROVE  /\ Exists(subscriber') /\ subscriber'.suppressed
             /\ subscriber'.editions = {} /\ subscriber'.status = "unsubscribed"
  BY <1>0, <1>4, DeletedLeaves
<1>5. ASSUME Day
      PROVE  /\ Exists(subscriber') /\ subscriber'.suppressed
             /\ subscriber'.editions = subscriber.editions
             /\ subscriber'.status = subscriber.status
  BY <1>0, <1>5, DayMoves
<1>6. ASSUME \/ UNCHANGED vars
             \/ \E edition \in Editions : Queue(edition)
             \/ \E d \in Mails : Read(d) \/ PassOver(d)
             \/ \E d \in Mails, outcome \in Outcomes, arrives \in BOOLEAN :
                   Send(d, outcome, arrives)
      PROVE  UNCHANGED subscriber
  BY <1>6 DEF vars, Queue, Read, PassOver, Send
<1> QED
  BY <1>1, <1>2, <1>3, <1>4, <1>5, <1>6 DEF Next

\* Who was suppressed stays so, gets no editions, and is not deleted
\* (suppression_reason in every transaction).
THEOREM SuppressionIsForGood == Spec => SuppressionStands
<1>1. SubscribersInv /\ [Next]_vars =>
          [Exists(subscriber) /\ subscriber.suppressed =>
             /\ Exists(subscriber') /\ subscriber'.suppressed
             /\ subscriber'.editions \subseteq subscriber.editions
             /\ subscriber'.status \in {subscriber.status, "unsubscribed"}]_vars
  BY SuppressionStep
<1> QED
  BY <1>1, InvAlways, PTL DEF Spec, SuppressionStands

\* The steps by which an address becomes confirmed use a live link.
LEMMA ConfirmedStep ==
    ASSUME SubscribersInv, [Next]_vars,
           Exists(subscriber'), subscriber'.status = "confirmed",
           Exists(subscriber) => subscriber.status # "confirmed"
    PROVE  \/ IsLive(confirmation[requests]) /\ ~IsLive(confirmation'[requests])
           \/ \E d \in Mails : /\ IsLive(link[d]) /\ ~IsLive(link'[d])
                               /\ mail[d] # Never
<1>0. TypeOK /\ LeftIsUnsubscribed /\ WorkInv /\ OnlyLatestConfirms
  BY DEF SubscribersInv
<1>1. CASE UNCHANGED subscriber
  BY <1>1
<1>2. ASSUME NEW n \in Requests, Confirm(n)
      PROVE  IsLive(confirmation[requests]) /\ ~IsLive(confirmation'[requests])
  <2>1. IsLive(confirmation[n])
    BY <1>2 DEF Confirm
  <2>2. n = requests
    BY <1>0, <2>1 DEF OnlyLatestConfirms
  <2>3. confirmation[n] \in ConfirmationRow
    BY <1>0, <2>1, RowsAre DEF IsLive
  <2>4. confirmation'[n] = [confirmation[n] EXCEPT !.status = "consumed", !.ended = 0]
    BY <1>0, <1>2 DEF Confirm, TypeOK
  <2>5. confirmation'[n].status = "consumed"
    BY <2>3, <2>4 DEF ConfirmationRow
  <2> QED
    BY <2>1, <2>2, <2>5 DEF IsLive
<1>3. ASSUME NEW d \in Mails, NEW editions \in SUBSET Editions,
             ChangePreferences(d, editions)
      PROVE  IsLive(link[d]) /\ ~IsLive(link'[d]) /\ mail[d] # Never
  <2>1. /\ IsLive(link[d]) /\ mail[d] # Never
        /\ link' = [link EXCEPT ![d].status = "consumed"]
    BY <1>3 DEF ChangePreferences
  <2>2. link[d] \in LinkRow
    BY <1>0, <2>1, RowsAre DEF IsLive
  <2>3. link'[d].status = "consumed"
    BY <1>0, <2>1, <2>2 DEF TypeOK, LinkRow
  <2> QED
    BY <2>1, <2>3 DEF IsLive
<1>4. ASSUME NEW editions \in SUBSET Editions, SignUp(editions) PROVE FALSE
  BY <1>4 DEF SignUp, Requested
<1>5. ASSUME NEW d \in Mails, NEW unsubscribes \in BOOLEAN, Suppress(d, unsubscribes)
      PROVE  FALSE
  <2>1. Exists(subscriber) /\ subscriber \in SubscriberRow
    BY <1>0, <1>5, RowsAre DEF Suppress, WorkInv, RowsOfMails
  <2>2. subscriber'.status = subscriber.status \/ subscriber'.status = "unsubscribed"
    BY <1>5, <2>1 DEF Suppress, SubscriberRow
  <2> QED
    BY <2>1, <2>2
<1>6. ASSUME Cleanup PROVE FALSE
  <2>1. CASE subscriber' = None
    BY <2>1, RowsExist
  <2>2. CASE /\ IsForgettable
             /\ subscriber' = [subscriber EXCEPT !.address = FALSE, !.updated = 0]
    <3>1. Exists(subscriber) /\ subscriber \in SubscriberRow
      BY <1>0, <2>2, RowsAre DEF IsForgettable
    <3> QED
      BY <2>2, <3>1 DEF SubscriberRow
  <2> QED
    BY <1>1, <1>6, <2>1, <2>2, CleanupCases
<1>7. ASSUME Delete PROVE FALSE
  BY <1>0, <1>7, DeletedLeaves
<1>8. ASSUME Day PROVE FALSE
  BY <1>0, <1>8, DayMoves
<1>9. ASSUME \/ UNCHANGED vars
             \/ \E edition \in Editions : Queue(edition)
             \/ \E d \in Mails : Read(d) \/ PassOver(d)
             \/ \E d \in Mails, outcome \in Outcomes, arrives \in BOOLEAN :
                   Send(d, outcome, arrives)
      PROVE  UNCHANGED subscriber
  BY <1>9 DEF vars, Queue, Read, PassOver, Send
<1> QED
  BY <1>1, <1>2, <1>3, <1>4, <1>5, <1>6, <1>7, <1>8, <1>9 DEF Next

\* Nobody is confirmed but by the live token of the last sign-up or a live
\* link of a mail that came (confirmSubscription, updateSubscriberPreferences).
THEOREM ConfirmedByOwner == Spec => ConfirmedByLink
<1>1. SubscribersInv /\ [Next]_vars =>
          [Exists(subscriber') /\ subscriber'.status = "confirmed"
           /\ (Exists(subscriber) => subscriber.status # "confirmed") =>
              \/ IsLive(confirmation[requests]) /\ ~IsLive(confirmation'[requests])
              \/ \E d \in Mails : /\ IsLive(link[d]) /\ ~IsLive(link'[d])
                                  /\ mail[d] # Never]_vars
  BY ConfirmedStep
<1> QED
  BY <1>1, InvAlways, PTL DEF Spec, ConfirmedByLink

=============================================================================
