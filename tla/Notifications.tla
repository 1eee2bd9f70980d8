--------------------------- MODULE Notifications ---------------------------
(***************************************************************************)
(* The notifications of one user                                           *)
(* (src/apps/backend/src/modules/notifications/services/                   *)
(* notification.service.ts and listeners/notification-domain.listener.ts): *)
(* a request is stored and then delivered by one channel after the other,  *)
(* each with a row that says what became of it.                            *)
(*                                                                         *)
(* Requests are handled once (executeOnce of the inbox); one whose handler *)
(* failed is handled again from the beginning.  All requests are of one    *)
(* type.  escalateUnreadCritical has no caller.                            *)
(*                                                                         *)
(* mails counts the emails that went out within the throttle period.       *)
(* unthrottled: two dispatches were between the throttle check and the     *)
(* note of the result at once, or one stopped there.  overtakenLink: the   *)
(* telegram subscription changed while a message to it was being sent.     *)
(***************************************************************************)
EXTENDS Naturals, Sequences

CONSTANTS
  NoteRequests,      \* notification.requested events
  CriticalRequests,  \* those with priority critical
  Dispatches,        \* handlers running at once
  HasPhone,          \* the user's telephone number is on file
  MaxNotes,          \* bound: stored notifications
  MaxNoteSettings    \* bound: changes of subscriptions and preferences

ASSUME NotificationsAssumption ==
  CriticalRequests \subseteq NoteRequests /\ HasPhone \in BOOLEAN /\ MaxNotes \in Nat /\ MaxNoteSettings \in Nat

VARIABLES
  noteRequest,  \* request -> "new", "running", "done" or "failed", its inbox row
  note,         \* notifications.notifications, each with its deliveries
  preference,   \* the user's row of notification_preferences
  telegram,     \* status of his telegram subscription
  noteSettings, \* changes of subscriptions and preferences so far
  linkToken,    \* a token to link telegram with is in the cache
  pushSub,      \* status of his push subscription
  dispatch,     \* handler -> what it does next
  mails, unthrottled, overtakenLink

noteVars == <<noteRequest, note, preference, telegram, noteSettings, linkToken, pushSub, dispatch,
  mails, unthrottled, overtakenLink>>

DeliveryChannels == {"email", "sms", "telegram", "push"}

\* settled: sent, failed or skipped; an email that went out is told apart.
DeliveryStatuses == {"none", "pending", "sent", "settled"}

\* recent: sent within the throttle period.
Note == [request: NoteRequests, isRead: BOOLEAN, recent: BOOLEAN, delivery: [DeliveryChannels -> DeliveryStatuses]]

NotificationPreference == [email: BOOLEAN, sms: BOOLEAN, telegram: BOOLEAN, push: BOOLEAN]

TelegramStatuses == {"none", "active", "invalid", "revoked"}
PushStatuses == {"none", "active", "expired"}

DispatchBusy ==
  [pc: {"email", "emailSend", "emailSent", "emailFailed", "sms", "smsSend", "telegram", "telegramSend", "push", "pushSend"},
   request: NoteRequests, at: 1..MaxNotes, prefs: NotificationPreference, link: TelegramStatuses]

DispatchIdle == [pc |-> "idle"]

NotificationsTypeOK ==
  /\ noteRequest \in [NoteRequests -> {"new", "running", "done", "failed"}]
  /\ \A r \in NoteRequests : noteRequest[r] = "running" <=> \E d \in Dispatches : dispatch[d] # DispatchIdle /\ dispatch[d].request = r
  /\ note \in Seq(Note)
  /\ preference \in NotificationPreference
  /\ telegram \in TelegramStatuses /\ pushSub \in PushStatuses /\ linkToken \in BOOLEAN /\ noteSettings \in 0..MaxNoteSettings
  /\ dispatch \in [Dispatches -> DispatchBusy \cup {DispatchIdle}]
  /\ mails \in Nat /\ unthrottled \in BOOLEAN /\ overtakenLink \in BOOLEAN

NotificationsInit ==
  /\ noteRequest = [r \in NoteRequests |-> "new"]
  /\ note = <<>>
  /\ preference = [email |-> TRUE, sms |-> TRUE, telegram |-> TRUE, push |-> TRUE]
  /\ telegram = "active" /\ pushSub = "active" /\ linkToken = FALSE /\ noteSettings = 0
  /\ dispatch = [d \in Dispatches |-> DispatchIdle]
  /\ mails = 0 /\ unthrottled = FALSE /\ overtakenLink = FALSE

-----------------------------------------------------------------------------
DispatchAt(d, pc) == dispatch[d].pc = pc

DispatchGo(d, pc) == dispatch' = [dispatch EXCEPT ![d].pc = pc]

\* createDelivery, for the notification of d.
Deliver(d, channel, status) == note' = [note EXCEPT ![dispatch[d].at].delivery[channel] = status]

\* The last channel was served: executeOnce marks the request as processed.
Handled(d) ==
  /\ dispatch' = [dispatch EXCEPT ![d] = DispatchIdle]
  /\ noteRequest' = [noteRequest EXCEPT ![dispatch[d].request] = "done"]

\* onNotificationRequested, also again after a failure; dispatch stores the
\* notification with its in-app delivery and loads the preferences.
OnNotificationRequested(d, r) ==
  /\ dispatch[d] = DispatchIdle
  /\ noteRequest[r] \in {"new", "failed"}
  /\ Len(note) < MaxNotes
  /\ noteRequest' = [noteRequest EXCEPT ![r] = "running"]
  /\ note' = Append(note, [request |-> r, isRead |-> FALSE, recent |-> FALSE, delivery |-> [c \in DeliveryChannels |-> "none"]])
  /\ dispatch' = [dispatch EXCEPT ![d] =
       [pc |-> "email", request |-> r, at |-> Len(note) + 1, prefs |-> preference, link |-> "none"]]
  /\ UNCHANGED <<preference, telegram, noteSettings, linkToken, pushSub, mails, unthrottled, overtakenLink>>

\* dispatchEmail: an email of this type that went out recently holds back the
\* next, unless that is critical.
Throttled(d) ==
  /\ dispatch[d].request \notin CriticalRequests
  /\ \E n \in DOMAIN note : note[n].delivery["email"] = "sent" /\ note[n].recent

Mailing(d) == dispatch[d].pc \in {"emailSend", "emailSent"}

CheckEmail(d) ==
  /\ DispatchAt(d, "email")
  /\ LET skip == ~dispatch[d].prefs.email \/ Throttled(d)
     IN  /\ Deliver(d, "email", IF skip THEN "settled" ELSE "pending")
         /\ DispatchGo(d, IF skip THEN "sms" ELSE "emailSend")
         /\ unthrottled' = (unthrottled \/ (~skip /\ \E e \in Dispatches : e # d /\ Mailing(e)))
  /\ UNCHANGED <<noteRequest, preference, telegram, noteSettings, linkToken, pushSub, mails, overtakenLink>>

SendEmail(d) ==
  /\ DispatchAt(d, "emailSend")
  /\ \/ mails' = mails + 1 /\ DispatchGo(d, "emailSent")
     \/ mails' = mails /\ DispatchGo(d, "emailFailed")
  /\ UNCHANGED <<noteRequest, note, preference, telegram, noteSettings, linkToken, pushSub, unthrottled, overtakenLink>>

\* updateDelivery.
UpdateDelivery(d) ==
  /\ dispatch[d].pc \in {"emailSent", "emailFailed"}
  /\ LET sent == dispatch[d].pc = "emailSent"
     IN  note' = [note EXCEPT ![dispatch[d].at].delivery["email"] = IF sent THEN "sent" ELSE "settled",
                              ![dispatch[d].at].recent = sent]
  /\ DispatchGo(d, "sms")
  /\ UNCHANGED <<noteRequest, preference, telegram, noteSettings, linkToken, pushSub, mails, unthrottled, overtakenLink>>

\* dispatchSms, unless the preferences have none: given up without a telephone
\* number, sent otherwise.
LoadSms(d) ==
  /\ DispatchAt(d, "sms")
  /\ LET sends == dispatch[d].prefs.sms /\ HasPhone
     IN  /\ Deliver(d, "sms", IF sends THEN "pending" ELSE "settled")
         /\ DispatchGo(d, IF sends THEN "smsSend" ELSE "telegram")
  /\ UNCHANGED <<noteRequest, preference, telegram, noteSettings, linkToken, pushSub, mails, unthrottled, overtakenLink>>

SendSms(d) ==
  /\ DispatchAt(d, "smsSend")
  /\ Deliver(d, "sms", "settled")
  /\ DispatchGo(d, "telegram")
  /\ UNCHANGED <<noteRequest, preference, telegram, noteSettings, linkToken, pushSub, mails, unthrottled, overtakenLink>>

\* dispatchTelegram: nothing without the preference, skipped without an active
\* subscription.
LoadTelegram(d) ==
  /\ DispatchAt(d, "telegram")
  /\ LET sends == dispatch[d].prefs.telegram /\ telegram = "active"
     IN  /\ Deliver(d, "telegram", IF sends THEN "pending" ELSE IF dispatch[d].prefs.telegram THEN "settled" ELSE "none")
         /\ dispatch' = [dispatch EXCEPT ![d].link = telegram, ![d].pc = IF sends THEN "telegramSend" ELSE "push"]
  /\ UNCHANGED <<noteRequest, preference, telegram, noteSettings, linkToken, pushSub, mails, unthrottled, overtakenLink>>

\* The answer also updates the subscription: active after a success, invalid if
\* the chat is gone, else as it was loaded.
SendTelegram(d) ==
  /\ DispatchAt(d, "telegramSend")
  /\ telegram' \in {"active", "invalid", dispatch[d].link}
  /\ Deliver(d, "telegram", "settled")
  /\ DispatchGo(d, "push")
  /\ overtakenLink' = (overtakenLink \/ telegram # dispatch[d].link)
  /\ UNCHANGED <<noteRequest, preference, noteSettings, linkToken, pushSub, mails, unthrottled>>

\* dispatchPush.
LoadPush(d) ==
  /\ DispatchAt(d, "push")
  /\ IF dispatch[d].prefs.push /\ pushSub = "active"
       THEN Deliver(d, "push", "pending") /\ DispatchGo(d, "pushSend") /\ UNCHANGED noteRequest
       ELSE Deliver(d, "push", "settled") /\ Handled(d)
  /\ UNCHANGED <<preference, telegram, noteSettings, linkToken, pushSub, mails, unthrottled, overtakenLink>>

\* An endpoint that is gone expires the subscription, if it is still there.
SendPush(d) ==
  /\ DispatchAt(d, "pushSend")
  /\ pushSub' \in (IF pushSub = "none" THEN {"none"} ELSE {"active", "expired", pushSub})
  /\ Deliver(d, "push", "settled")
  /\ Handled(d)
  /\ UNCHANGED <<preference, telegram, noteSettings, linkToken, mails, unthrottled, overtakenLink>>

\* The handler fails (a rejected query, a provider that is not configured) or its
\* process stops.
AbortDispatch(d) ==
  /\ dispatch[d] # DispatchIdle
  /\ noteRequest' = [noteRequest EXCEPT ![dispatch[d].request] = "failed"]
  /\ unthrottled' = (unthrottled \/ Mailing(d))
  /\ dispatch' = [dispatch EXCEPT ![d] = DispatchIdle]
  /\ UNCHANGED <<note, preference, telegram, noteSettings, linkToken, pushSub, mails, overtakenLink>>

-----------------------------------------------------------------------------
\* markRead, markAllRead.
MarkNotesRead(notes) ==
  /\ \E n \in notes : ~note[n].isRead
  /\ note' = [n \in DOMAIN note |-> [note[n] EXCEPT !.isRead = @ \/ n \in notes]]
  /\ UNCHANGED <<noteRequest, preference, telegram, noteSettings, linkToken, pushSub, dispatch, mails, unthrottled, overtakenLink>>

\* generateTelegramLinkToken: a token the cache keeps for five minutes.
GenerateTelegramLinkToken ==
  /\ noteSettings < MaxNoteSettings
  /\ noteSettings' = noteSettings + 1
  /\ linkToken' = TRUE
  /\ UNCHANGED <<noteRequest, note, preference, telegram, pushSub, dispatch, mails, unthrottled, overtakenLink>>

RegisterTelegramSubscription == telegram' = "active"

\* handleTelegramWebhookUpdate: the user's /start comes with a token that is
\* found ...
LinkTelegram ==
  /\ linkToken
  /\ RegisterTelegramSubscription
  /\ UNCHANGED <<noteRequest, note, preference, noteSettings, linkToken, pushSub, dispatch, mails, unthrottled, overtakenLink>>

\* ... and the token is deleted after it, or expires.
DropLinkToken ==
  /\ linkToken
  /\ linkToken' = FALSE
  /\ UNCHANGED <<noteRequest, note, preference, telegram, noteSettings, pushSub, dispatch, mails, unthrottled, overtakenLink>>

\* removeTelegramSubscription.
UnlinkTelegram ==
  /\ telegram # "none"
  /\ noteSettings < MaxNoteSettings
  /\ noteSettings' = noteSettings + 1
  /\ telegram' = "revoked"
  /\ UNCHANGED <<noteRequest, note, preference, linkToken, pushSub, dispatch, mails, unthrottled, overtakenLink>>

\* registerPushSubscription and removePushSubscription.
SetPushSubscription(status) ==
  /\ noteSettings < MaxNoteSettings /\ pushSub # status
  /\ noteSettings' = noteSettings + 1
  /\ pushSub' = status
  /\ UNCHANGED <<noteRequest, note, preference, telegram, linkToken, dispatch, mails, unthrottled, overtakenLink>>

\* updatePreference.
UpdatePreference(channel) ==
  /\ noteSettings < MaxNoteSettings
  /\ noteSettings' = noteSettings + 1
  /\ preference' = [preference EXCEPT ![channel] = ~@]
  /\ UNCHANGED <<noteRequest, note, telegram, linkToken, pushSub, dispatch, mails, unthrottled, overtakenLink>>

\* emailThrottleMinutes have passed since the last email.
ThrottlePasses ==
  /\ \E n \in DOMAIN note : note[n].recent
  /\ \A d \in Dispatches : ~Mailing(d)
  /\ note' = [n \in DOMAIN note |-> [note[n] EXCEPT !.recent = FALSE]]
  /\ mails' = 0 /\ unthrottled' = FALSE
  /\ UNCHANGED <<noteRequest, preference, telegram, noteSettings, linkToken, pushSub, dispatch, overtakenLink>>

DispatchStep(d) ==
  \/ CheckEmail(d) \/ SendEmail(d) \/ LoadSms(d) \/ SendSms(d) \/ LoadTelegram(d) \/ SendTelegram(d)
  \/ LoadPush(d) \/ SendPush(d) \/ UpdateDelivery(d)

NotificationsNext ==
  \/ \E d \in Dispatches : DispatchStep(d) \/ AbortDispatch(d) \/ \E r \in NoteRequests : OnNotificationRequested(d, r)
  \/ note # <<>> /\ (MarkNotesRead({1}) \/ MarkNotesRead(DOMAIN note))
  \/ GenerateTelegramLinkToken \/ LinkTelegram \/ DropLinkToken \/ UnlinkTelegram \/ SetPushSubscription("none") \/ SetPushSubscription("active")
  \/ \E channel \in {"email", "sms", "telegram", "push"} : UpdatePreference(channel)
  \/ ThrottlePasses

NotificationsSpec == NotificationsInit /\ [][NotificationsNext]_noteVars

-----------------------------------------------------------------------------
\* A throttled user gets one email of a type in the period, unless one is
\* critical or two dispatches passed the check together
\* (notification.service.ts:289-330).
EmailsAreThrottled == ~unthrottled /\ CriticalRequests = {} => mails <= 1

\* Nothing is left undecided: the last notification of a request that was handled
\* has a final status on every channel it was tried on
\* (notification.service.ts:167-234, 778-796).
HandledIsDecided ==
  \A n \in DOMAIN note :
    /\ noteRequest[note[n].request] = "done"
    /\ \A m \in DOMAIN note : note[m].request = note[n].request => m <= n
    => \A c \in DeliveryChannels : note[n].delivery[c] # "pending"

\* A subscription the user revoked stays revoked until he links again with a token
\* of his, unless a message was on its way (notification.service.ts:262-285,
\* 712-723, 861-905).
RevokedStaysRevoked ==
  [][telegram = "revoked" /\ telegram' # "revoked" => (linkToken /\ UNCHANGED dispatch) \/ overtakenLink']_noteVars

=============================================================================
