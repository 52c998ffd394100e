------------------------------ MODULE Subscribers ------------------------------
(***************************************************************************)
(* One address and its consent: the transactions of                        *)
(* src/src/subscribers/persistence.ts behind the sign-up, confirmation,    *)
(* preferences and unsubscribe pages, the provider's suppressions          *)
(* (newsletter/events.ts), the retention loop (subscribers/lifecycle.ts)   *)
(* and the operator's deletion (scripts/subscribers.ts).  Deliveries are   *)
(* seen as far as they store the link each mail carries and read the       *)
(* subscriber before they do; NewsletterDelivery has the rest of them.     *)
(*                                                                         *)
(* Every transaction is one step, or none: it locks its rows, and one that *)
(* breaks a check of the table or is chosen in a deadlock is rolled back.  *)
(* A time is kept as the days gone by since, up to the last that somebody  *)
(* tells apart, so that behaviours have no end.  The rows of different     *)
(* addresses share nothing.                                                *)
(***************************************************************************)
EXTENDS Integers, FiniteSets

CONSTANTS
    Editions,
    MaxRequests, MaxMails,     \* bounds: sign-ups that are stored, deliveries
    ConfirmationLifetime,      \* days a confirmation token is accepted
    TokenRetention,            \* days of rows of dead tokens and of sign-ups
    AddressRetention,          \* days an unsubscribed address is kept
    LinkLifetime,              \* days a preference link is accepted
    LinkRetention,             \* days it is kept after that
    MailRetention,             \* days a finished delivery is kept
    LinkPromise                \* days a mail's link shall work

Requests == 1 .. MaxRequests

Mails == 1 .. MaxMails

ASSUME SubscribersAssumption ==
    /\ Editions # {} /\ IsFiniteSet(Editions)
    /\ {MaxRequests, MaxMails, ConfirmationLifetime, TokenRetention,
        AddressRetention, LinkLifetime, LinkRetention, MailRetention,
        LinkPromise} \subseteq Nat \ {0}
    /\ LinkPromise <= AddressRetention /\ LinkPromise < LinkLifetime
    /\ LinkLifetime <= MailRetention

VARIABLES
    subscriber,     \* the row of subscribers, if there is one
    consent,        \* its last subscriber_consent_events
    requests,       \* sign-ups stored so far
    confirmation,   \* confirmation tokens, by request
    queued,         \* deliveries so far
    link,           \* preference tokens, by the delivery they were made for
    delivery,       \* newsletter_deliveries, by mail
    calls,          \* the age of deliveries when they were read for sending
    mail,           \* days since each mail was sent
    late            \* deliveries under way when the address was deleted

vars == <<subscriber, consent, requests, confirmation, queued, link, delivery,
          calls, mail, late>>

-----------------------------------------------------------------------------
(* Rows *)

Never == -1

\* the first day of which nobody asks how many came before
LastUpdate == TokenRetention + 1
LastLeft == AddressRetention + 1
LastConfirmation == ConfirmationLifetime + TokenRetention + 1
LastLink == LinkLifetime + LinkRetention + 1
LastDelivery == MailRetention + 1

NextDay(days, last) == IF days \in 0 .. last - 1 THEN days + 1 ELSE days

None == [status |-> "none"]

Statuses == {"unconfirmed", "confirmed", "unsubscribed"}

\* confirmed: whether confirmed_at is set; left, updated: days since
\* unsubscribed_at and updated_at; address: whether the ciphertext is there
SubscriberRow == [status : Statuses, editions : SUBSET Editions,
                  confirmed : BOOLEAN, left : Never .. LastLeft,
                  updated : 0 .. LastUpdate, suppressed : BOOLEAN,
                  address : BOOLEAN]

ConsentKinds == {"signup_requested", "resubscribe_requested",
                 "subscription_confirmed", "preferences_changed",
                 "unsubscribed", "suppressed"}

\* the last event, and whether the table holds older ones
ConsentRow == [kind : ConsentKinds, editions : SUBSET Editions, older : BOOLEAN]

\* ended: days since it was consumed or invalidated
ConfirmationRow == [status : {"live", "consumed", "invalidated"},
                    age : 0 .. LastConfirmation, ended : 0 .. LastUpdate]

LinkRow == [status : {"live", "consumed"}, age : 0 .. LastLink]

\* age: days since it was queued, then since it ended
DeliveryRow == [status : {"queued", "sent", "failed"}, edition : Editions,
                age : 0 .. LastDelivery]

Exists(row) == row # None

\* the checks of the table subscribers
Admitted(row) ==
    /\ row.status # "unsubscribed" => row.address /\ row.editions # {}
    /\ row.status = "unsubscribed" => row.editions = {} /\ row.left # Never
    /\ row.status = "confirmed" => row.confirmed

IsLive(token) == Exists(token) /\ token.status = "live"

\* mutant: an event is only the first of its subscriber
RecordedFirst(kind, editions) ==
    IF Exists(consent) THEN consent
    ELSE [kind |-> kind, editions |-> editions, older |-> FALSE]

\* an event is added to those of the subscriber
Recorded(kind, editions) ==
    [kind |-> kind, editions |-> editions, older |-> Exists(consent)]

-----------------------------------------------------------------------------
(* Sign-up and confirmation *)

\* who signs up again while unconfirmed or unsubscribed starts anew
Requested(editions) ==
    [status |-> "unconfirmed", editions |-> editions, confirmed |-> FALSE,
     left |-> Never, updated |-> 0, suppressed |-> FALSE, address |-> TRUE]

\* mutant: earlier tokens stay valid
NotRotated(n) ==
    [confirmation EXCEPT ![n] = [status |-> "live", age |-> 0, ended |-> 0]]

\* the token of a sign-up replaces those before it
Rotated(n) ==
    [r \in Requests |->
        CASE r = n -> [status |-> "live", age |-> 0, ended |-> 0]
          [] r # n /\ IsLive(confirmation[r]) ->
                [confirmation[r] EXCEPT !.status = "invalidated", !.ended = 0]
          [] OTHER -> confirmation[r]]

\* a request for a suppressed or a confirmed address changes nothing
MaySignUp ==
    Exists(subscriber) => ~subscriber.suppressed /\ subscriber.status # "confirmed"

\* persistSignupRequest
SignUp(editions) ==
    /\ requests < MaxRequests
    /\ editions # {}
    /\ MaySignUp
    /\ subscriber' = Requested(editions)
    /\ consent' = Recorded(IF Exists(subscriber) /\ subscriber.status = "unsubscribed"
                           THEN "resubscribe_requested" ELSE "signup_requested",
                           editions)
    /\ requests' = requests + 1
    /\ confirmation' = Rotated(requests + 1)
    /\ UNCHANGED <<queued, link, delivery, calls, mail, late>>

\* confirmSubscription, if it changes anything
Confirm(n) ==
    LET token == confirmation[n]
        row == [subscriber EXCEPT !.status = "confirmed", !.confirmed = TRUE,
                                  !.left = Never, !.updated = 0]
    IN  /\ IsLive(token) /\ token.age < ConfirmationLifetime
        /\ Exists(subscriber) /\ ~subscriber.suppressed
        /\ Admitted(row)
        /\ subscriber' = row
        /\ consent' = Recorded("subscription_confirmed", row.editions)
        /\ confirmation' = [confirmation EXCEPT ![n] =
                                [@ EXCEPT !.status = "consumed", !.ended = 0]]
        /\ UNCHANGED <<requests, queued, link, delivery, calls, mail, late>>

-----------------------------------------------------------------------------
(* Preference links, one for each delivery *)

AfterChange(editions) ==
    [subscriber EXCEPT
        !.status = IF editions = {} THEN "unsubscribed" ELSE "confirmed",
        !.editions = editions,
        !.left = IF editions = {} THEN 0 ELSE Never,
        !.updated = 0]

\* updateSubscriberPreferences with the link of a mail that has arrived, if it
\* changes anything: the one-click unsubscription is the choice of no edition
ChangePreferences(d, editions) ==
    /\ mail[d] # Never
    /\ IsLive(link[d]) /\ link[d].age < LinkLifetime
    /\ Exists(subscriber) /\ ~subscriber.suppressed
    /\ Admitted(AfterChange(editions))
    /\ subscriber' = AfterChange(editions)
    /\ consent' = Recorded(IF editions = {} THEN "unsubscribed"
                           ELSE "preferences_changed", editions)
    /\ link' = [link EXCEPT ![d].status = "consumed"]
    /\ UNCHANGED <<requests, confirmation, queued, delivery, calls, mail, late>>

-----------------------------------------------------------------------------
(* Deliveries, as far as they read and write these rows *)

IsEligible(edition) ==
    /\ Exists(subscriber)
    /\ subscriber.status = "confirmed" /\ ~subscriber.suppressed
    /\ edition \in subscriber.editions

\* a run is queued for the address
Queue(edition) ==
    /\ queued < MaxMails
    /\ IsEligible(edition)
    /\ queued' = queued + 1
    /\ delivery' = [delivery EXCEPT ![queued + 1] =
                        [status |-> "queued", edition |-> edition, age |-> 0]]
    /\ UNCHANGED <<subscriber, consent, requests, confirmation, link, calls,
                   mail, late>>

IsQueued(d) == Exists(delivery[d]) /\ delivery[d].status = "queued"

\* deliver() reads the subscriber
Read(d) ==
    /\ IsQueued(d) /\ calls[d] = Never
    /\ IsEligible(delivery[d].edition)
    /\ calls' = [calls EXCEPT ![d] = delivery[d].age]
    /\ UNCHANGED <<subscriber, consent, requests, confirmation, queued, link,
                   delivery, mail, late>>

\* mutant: a row that is gone is inserted again
EndedAnyway(d, status) ==
    [delivery EXCEPT ![d] =
        [status |-> status, edition |-> CHOOSE e \in Editions : TRUE, age |-> 0]]

\* a row that is gone is not updated
Ended(d, status) ==
    [delivery EXCEPT ![d] =
        IF Exists(@) THEN [@ EXCEPT !.status = status, !.age = 0] ELSE @]

\* deliver() passes over a subscriber that is not eligible any more
PassOver(d) ==
    /\ IsQueued(d) /\ calls[d] = Never
    /\ ~IsEligible(delivery[d].edition)
    /\ delivery' = Ended(d, "failed")
    /\ UNCHANGED <<subscriber, consent, requests, confirmation, queued, link,
                   calls, mail, late>>

\* ensureDeliveryPreferenceToken: derived from the delivery, expiring by its
\* age, inserted unless it is there
LinkStored(d) ==
    [link EXCEPT ![d] =
        IF Exists(@) THEN @ ELSE [status |-> "live", age |-> calls[d]]]

\* the link is stored and the mail sent, or left for another attempt, or not;
\* it may arrive though it is not known to have been sent
Send(d, outcome, arrives) ==
    /\ calls[d] # Never
    /\ Exists(subscriber)
    /\ outcome = "sent" => arrives
    /\ link' = LinkStored(d)
    /\ mail' = [mail EXCEPT ![d] = IF arrives THEN 0 ELSE @]
    /\ delivery' = IF outcome = "retry" THEN delivery ELSE Ended(d, outcome)
    /\ calls' = [calls EXCEPT ![d] = Never]
    /\ UNCHANGED <<subscriber, consent, requests, confirmation, queued, late>>

\* recordResendEvent: a bounce or complaint, or an unsubscription reported by
\* the provider; only the first one counts
Suppress(d, unsubscribes) ==
    LET row == [subscriber EXCEPT !.suppressed = TRUE, !.updated = 0]
        gone == [row EXCEPT !.status = "unsubscribed", !.editions = {}, !.left = 0]
    IN  /\ Exists(delivery[d]) /\ delivery[d].status = "sent"
        /\ ~subscriber.suppressed
        /\ subscriber' = IF unsubscribes THEN gone ELSE row
        /\ consent' = Recorded("suppressed", subscriber'.editions)
        /\ UNCHANGED <<requests, confirmation, queued, link, delivery, calls,
                       mail, late>>

-----------------------------------------------------------------------------
(* Retention *)

\* the statement of cleanupSubscriberData that deletes dead tokens
IsDeadConfirmation(token) ==
    \/ token.status # "live" /\ token.ended > TokenRetention
    \/ token.status = "live" /\ token.age > ConfirmationLifetime + TokenRetention

KeptConfirmations ==
    [n \in Requests |->
        IF Exists(confirmation[n]) /\ IsDeadConfirmation(confirmation[n])
        THEN None ELSE confirmation[n]]

\* mutant: used links are deleted as well
IsDeadOrUsedLink(token) ==
    token.age > LinkLifetime + LinkRetention \/ token.status = "consumed"

IsDeadLink(token) == token.age > LinkLifetime + LinkRetention

KeptLinks ==
    [d \in Mails |-> IF Exists(link[d]) /\ IsDeadLink(link[d]) THEN None ELSE link[d]]

\* a token that expired less than a week ago, or has not, keeps a sign-up
KeepsSignUp ==
    \/ \E n \in Requests :
          /\ Exists(KeptConfirmations[n])
          /\ confirmation[n].age <= ConfirmationLifetime + TokenRetention
    \/ \E d \in Mails :
          Exists(KeptLinks[d]) /\ link[d].age <= LinkLifetime + TokenRetention

\* mutant: suppressed sign-ups are deleted as well
IsAbandonedOrSuppressed ==
    /\ Exists(subscriber)
    /\ subscriber.status = "unconfirmed"
    /\ subscriber.updated > TokenRetention
    /\ ~KeepsSignUp

\* mutant: only those are deleted who sign up for the first time
IsAbandonedFirstSignUp ==
    /\ Exists(subscriber)
    /\ subscriber.status = "unconfirmed" /\ ~subscriber.suppressed
    /\ subscriber.updated > TokenRetention
    /\ consent.kind # "resubscribe_requested"
    /\ ~KeepsSignUp

IsAbandonedSignUp ==
    /\ Exists(subscriber)
    /\ subscriber.status = "unconfirmed" /\ ~subscriber.suppressed
    /\ subscriber.updated > TokenRetention
    /\ ~KeepsSignUp

IsForgettable ==
    /\ Exists(subscriber)
    /\ subscriber.status = "unsubscribed"
    /\ subscriber.left > AddressRetention
    /\ subscriber.address

KeptDeliveries ==
    [d \in Mails |->
        IF /\ Exists(delivery[d]) /\ delivery[d].status \in {"sent", "failed"}
           /\ delivery[d].age > MailRetention
        THEN None ELSE delivery[d]]

NoRows(ids) == [i \in ids |-> None]

\* cleanupSubscriberData: what belongs to a subscriber goes with its row
Cleanup ==
    /\ subscriber' = CASE IsAbandonedSignUp -> None
                       [] IsForgettable ->
                            [subscriber EXCEPT !.address = FALSE, !.updated = 0]
                       [] OTHER -> subscriber
    /\ consent' = CASE IsAbandonedSignUp -> None
                    [] IsForgettable -> [consent EXCEPT !.older = FALSE]
                    [] OTHER -> consent
    /\ confirmation' = IF IsAbandonedSignUp \/ IsForgettable
                       THEN NoRows(Requests) ELSE KeptConfirmations
    /\ link' = IF IsAbandonedSignUp \/ IsForgettable
               THEN NoRows(Mails) ELSE KeptLinks
    /\ delivery' = IF IsAbandonedSignUp \/ IsForgettable
                   THEN NoRows(Mails) ELSE KeptDeliveries
    /\ UNCHANGED <<requests, queued, calls, mail, late>>

DeletedSubscriber ==
    [subscriber EXCEPT !.status = "unsubscribed", !.editions = {},
                       !.address = FALSE, !.updated = 0,
                       !.left = IF @ = Never THEN 0 ELSE @]

\* the operator's "subscriber:delete"
Delete ==
    /\ Exists(subscriber)
    /\ subscriber' = DeletedSubscriber
    /\ consent' = [consent EXCEPT !.older = FALSE]
    /\ confirmation' = NoRows(Requests)
    /\ link' = NoRows(Mails)
    /\ delivery' = NoRows(Mails)
    /\ late' = late \cup {d \in Mails : calls[d] # Never}
    /\ mail' = [d \in Mails |-> Never]
    /\ UNCHANGED <<requests, queued, calls>>

\* A day goes by.  An attempt takes less than one, and a delivery does not
\* wait for so long that its link would expire too early.
Day ==
    /\ \A d \in Mails :
          /\ calls[d] = Never
          /\ IsQueued(d) => delivery[d].age < LinkLifetime - LinkPromise
    /\ subscriber' = IF Exists(subscriber)
                     THEN [subscriber EXCEPT
                             !.left = NextDay(@, LastLeft),
                             !.updated = NextDay(@, LastUpdate)]
                     ELSE subscriber
    /\ confirmation' =
          [n \in Requests |->
              IF Exists(confirmation[n])
              THEN [confirmation[n] EXCEPT
                      !.age = NextDay(@, LastConfirmation),
                      !.ended = IF confirmation[n].status = "live" THEN @
                                ELSE NextDay(@, LastUpdate)]
              ELSE None]
    /\ link' = [d \in Mails |->
                   IF Exists(link[d]) THEN [link[d] EXCEPT !.age = NextDay(@, LastLink)]
                   ELSE None]
    /\ delivery' = [d \in Mails |->
                       IF Exists(delivery[d])
                       THEN [delivery[d] EXCEPT !.age = NextDay(@, LastDelivery)]
                       ELSE None]
    /\ mail' = [d \in Mails |-> NextDay(mail[d], LinkPromise)]
    /\ UNCHANGED <<consent, requests, queued, calls, late>>

-----------------------------------------------------------------------------
Init ==
    /\ subscriber = None /\ consent = None
    /\ requests = 0 /\ confirmation = NoRows(Requests)
    /\ queued = 0 /\ link = NoRows(Mails) /\ delivery = NoRows(Mails)
    /\ calls = [d \in Mails |-> Never] /\ mail = [d \in Mails |-> Never]
    /\ late = {}

Outcomes == {"sent", "retry", "failed"}

Next ==
    \/ \E editions \in SUBSET Editions : SignUp(editions)
    \/ \E n \in Requests : Confirm(n)
    \/ \E d \in Mails, editions \in SUBSET Editions : ChangePreferences(d, editions)
    \/ \E edition \in Editions : Queue(edition)
    \/ \E d \in Mails : Read(d)
    \/ \E d \in Mails : PassOver(d)
    \/ \E d \in Mails, outcome \in Outcomes, arrives \in BOOLEAN :
          Send(d, outcome, arrives)
    \/ \E d \in Mails, unsubscribes \in BOOLEAN : Suppress(d, unsubscribes)
    \/ Cleanup
    \/ Delete
    \/ Day

\* the retention loop goes on, days go by, and attempts at a mail, which the
\* code counts, come to an end
Fairness ==
    /\ WF_vars(Day) /\ WF_vars(Cleanup)
    /\ \A d \in Mails : /\ WF_vars(Read(d)) /\ WF_vars(PassOver(d))
                        /\ SF_vars(\E arrives \in BOOLEAN :
                                   \/ Send(d, "sent", arrives)
                                   \/ Send(d, "failed", arrives))

Spec == Init /\ [][Next]_vars

FairSpec == Spec /\ Fairness

-----------------------------------------------------------------------------
(* Properties *)

\* Rows have the columns their tables declare, and the subscriber's row
\* passes the checks of its table.
TypeOK ==
    /\ subscriber \in {None} \cup SubscriberRow
    /\ Exists(subscriber) => Admitted(subscriber)
    /\ consent \in {None} \cup ConsentRow
    /\ Exists(consent) <=> Exists(subscriber)
    /\ requests \in 0 .. MaxRequests /\ queued \in 0 .. MaxMails
    /\ confirmation \in [Requests -> {None} \cup ConfirmationRow]
    /\ link \in [Mails -> {None} \cup LinkRow]
    /\ delivery \in [Mails -> {None} \cup DeliveryRow]
    /\ calls \in [Mails -> Never .. LastDelivery]
    /\ mail \in [Mails -> Never .. LinkPromise]
    /\ late \subseteq Mails

\* the kinds of events that leave a subscriber in each status
EvidenceOf(status) ==
    CASE status = "unconfirmed" -> {"signup_requested", "resubscribe_requested"}
      [] status = "confirmed" -> {"subscription_confirmed", "preferences_changed"}
      [] status = "unsubscribed" -> {"unsubscribed"}

\* The consent on record is evidence of the subscription as it stands: the
\* last event (subscriber_consent_events) has the subscriber's editions and
\* is one that leads to its status, or the suppression, until the address is
\* forgotten.
ConsentOnRecord ==
    Exists(subscriber) /\ subscriber.address =>
        /\ consent.editions = subscriber.editions
        /\ consent.kind = "suppressed" <=> subscriber.suppressed
        /\ ~subscriber.suppressed => consent.kind \in EvidenceOf(subscriber.status)

\* Only the link of the latest sign-up confirms: among the confirmation
\* tokens one at most is live, however often an address signs up, and it is
\* that of the last request (persistSignupRequest).
OnlyLatestConfirms ==
    \A n \in Requests : IsLive(confirmation[n]) => n = requests

\* Whoever has a mail can unsubscribe with it for as long as promised: no
\* change of preferences, repeated attempt, suppression or cleanup takes away
\* the token of a mail that is not old, unless the address was deleted
\* (ensureDeliveryPreferenceToken, cleanupSubscriberData).
MailsHaveLinks ==
    \A d \in Mails :
        mail[d] \in 0 .. LinkPromise - 1 =>
            Exists(link[d]) /\ link[d].age < LinkLifetime

\* A subscriber without an address has left nothing behind: no tokens, no
\* deliveries, no events but the last; only a delivery that was under way may
\* still have stored its link, and only that link adds an event
\* (cleanupSubscriberData and the operator's deletion).
ForgottenLeavesNothing ==
    Exists(subscriber) /\ ~subscriber.address =>
        /\ subscriber.status = "unsubscribed"
        /\ \A n \in Requests : ~Exists(confirmation[n])
        /\ \A d \in Mails : ~Exists(delivery[d]) /\ (Exists(link[d]) => d \in late)
        /\ consent.older => late # {}

\* Who was suppressed stays so: its row is never deleted, signs up again,
\* gets no editions, and is not confirmed by any old token, until the end of
\* time (suppression_reason in every transaction).
SuppressionStands ==
    [][Exists(subscriber) /\ subscriber.suppressed =>
          /\ Exists(subscriber') /\ subscriber'.suppressed
          /\ subscriber'.editions \subseteq subscriber.editions
          /\ subscriber'.status \in {subscriber.status, "unsubscribed"}]_vars

\* An address is confirmed only by a step of its owner's: from a sign-up by
\* the live token of the last request, or by a live link of a mail it got.
ConfirmedByLink ==
    [][Exists(subscriber') /\ subscriber'.status = "confirmed"
       /\ (Exists(subscriber) => subscriber.status # "confirmed") =>
          \/ IsLive(confirmation[requests]) /\ ~IsLive(confirmation'[requests])
          \/ \E d \in Mails : /\ IsLive(link[d]) /\ ~IsLive(link'[d])
                              /\ mail[d] # Never]_vars

\* Who has unsubscribed is forgotten in the end: the address is deleted
\* unless its owner signs up again or turns an edition on
\* (cleanupSubscriberData).
UnsubscribedAreForgotten ==
    Exists(subscriber) /\ subscriber.status = "unsubscribed"
        ~> \/ ~Exists(subscriber)
           \/ subscriber.status # "unsubscribed"
           \/ ~subscriber.address

\* A sign-up that nobody confirms is deleted in the end, whatever links from
\* an earlier subscription are around, unless it is suppressed.
SignUpsExpire ==
    Exists(subscriber) /\ subscriber.status = "unconfirmed"
        ~> \/ ~Exists(subscriber)
           \/ subscriber.status # "unconfirmed"
           \/ subscriber.suppressed

\* The rows are what their tables admit, the last event on record is evidence
\* of the subscription, and one link at most, the latest, can confirm it.
RowsAgree == TypeOK /\ ConsentOnRecord /\ OnlyLatestConfirms

\* Whoever leaves, and whoever never came, is forgotten in the end
\* (cleanupSubscriberData, run by retentionIteration).
AddressesAreForgotten == UnsubscribedAreForgotten /\ SignUpsExpire

==============================================================================
