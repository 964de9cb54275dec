------------------------------- MODULE Inbox -------------------------------
(***************************************************************************)
(* The owner's inbox of alerts (AlertsCenter.tsx), the routes it calls     *)
(* (routes/alert-actions.ts) and the rows they change                      *)
(* (alerts/postgres-action-store.ts).  The screen changes what it shows    *)
(* before the server answers and puts back what it showed when a call      *)
(* fails.  An event is marked read; a mute is kept with the rule, which    *)
(* may have other events.                                                  *)
(*                                                                         *)
(* A call fetches a token, reaches the server or not, and is answered or   *)
(* not; calls made side by side are handled and answered in any order.     *)
(***************************************************************************)
EXTENDS Integers, FiniteSets

CONSTANTS
  Events,        \* the alerts on the screen
  Rules,
  RuleOf,        \* the rule of each event
  SnoozeFor,     \* the 24 hours of a snooze
  Unmuted,       \* the null of muted_until
  LastHour, MaxPresses, MaxRefused, MaxLost

ASSUME InboxAssumption ==
  /\ RuleOf \in [Events -> Rules]
  /\ SnoozeFor \in Nat \ {0} /\ Unmuted \notin Int

VARIABLES
  readAt,        \* alert_events: whether read_at is set
  mutedUntil,    \* alert_rules
  items,         \* the screen: new or read
  muted,         \* the screen: until when each alert is snoozed
  pending,       \* the alerts whose buttons are off: none or one
  message,       \* whether the screen says that an action failed
  calls,         \* the calls under way
  presses, refused, lost, hour,
  tangled        \* calls on one rule, or one that failed, had company

serverRows == <<readAt, mutedUntil>>
screen     == <<items, muted, pending, message>>
inboxVars  == <<readAt, mutedUntil, items, muted, pending, message, calls,
                presses, refused, lost, hour, tangled>>

Later(until) == until # Unmuted /\ until > hour

(***************************************************************************)
(* The page: getAlerts reads events and rules, and the screen starts from  *)
(* what it read.                                                           *)
(***************************************************************************)
ShownState(e) == IF readAt[e] THEN "read" ELSE "new"
ShownMute(e) ==
  IF Later(mutedUntil[RuleOf[e]]) THEN mutedUntil[RuleOf[e]] ELSE Unmuted

InboxInit ==
  /\ hour = 0
  /\ readAt \in [Events -> BOOLEAN]
  /\ mutedUntil \in [Rules -> {Unmuted, 1}]
  /\ items = [e \in Events |-> ShownState(e)]
  /\ muted = [e \in Events |-> ShownMute(e)]
  /\ pending = {} /\ message = FALSE /\ calls = {}
  /\ presses = 0 /\ refused = 0 /\ lost = 0 /\ tangled = FALSE

(***************************************************************************)
(* The buttons.  "was" is what the handler closed over when it was made.   *)
(***************************************************************************)
NewCall(kind, e, was) ==
  [kind |-> kind, event |-> e, until |-> hour + SnoozeFor, was |-> was,
   at |-> "sent", press |-> presses + 1]

Press(kind, e, was) ==
  /\ presses < MaxPresses /\ e \notin pending
  /\ calls' = calls \cup {NewCall(kind, e, was)}
  /\ pending' = {e} /\ message' = FALSE
  /\ presses' = presses + 1
  /\ tangled' = (tangled \/ \E c \in calls : RuleOf[c.event] = RuleOf[e])
  /\ UNCHANGED <<serverRows, refused, lost, hour>>

markRead(e) ==
  /\ items[e] = "new"
  /\ items' = [items EXCEPT ![e] = "read"]
  /\ Press("read", e, items)
  /\ UNCHANGED muted

snooze(e) ==
  /\ muted' = [muted EXCEPT ![e] = hour + SnoozeFor]
  /\ Press("mute", e, muted)
  /\ UNCHANGED items

unmute(e) ==
  /\ muted[e] # Unmuted
  /\ muted' = [muted EXCEPT ![e] = Unmuted]
  /\ Press("unmute", e, muted)
  /\ UNCHANGED items

(***************************************************************************)
(* The server.                                                             *)
(***************************************************************************)
MuteRule(e, until) ==
  mutedUntil' = [mutedUntil EXCEPT ![RuleOf[e]] = until]

Update(c) ==
  CASE c.kind = "read"   -> /\ readAt' = [readAt EXCEPT ![c.event] = TRUE]
                            /\ UNCHANGED mutedUntil
    [] c.kind = "mute"   -> MuteRule(c.event, c.until) /\ UNCHANGED readAt
    [] c.kind = "unmute" -> MuteRule(c.event, Unmuted) /\ UNCHANGED readAt

\* A snooze that arrives when its time is over is refused by the route.
InTime(c) == c.kind = "mute" => c.until > hour

Become(c, at) == calls' = (calls \ {c}) \cup {[c EXCEPT !.at = at]}

Handle(c) ==
  /\ c.at = "sent" /\ InTime(c)
  /\ Update(c)
  /\ \/ Become(c, "ok") /\ UNCHANGED lost
     \/ Become(c, "failed") /\ lost < MaxLost /\ lost' = lost + 1
  /\ UNCHANGED <<screen, presses, refused, hour, tangled>>

\* No token, no route to the server, or an answer that is not ok.
Refuse(c) ==
  /\ c.at = "sent"
  /\ IF InTime(c) THEN refused < MaxRefused /\ refused' = refused + 1
                  ELSE UNCHANGED refused
  /\ Become(c, "failed")
  /\ UNCHANGED <<serverRows, screen, presses, lost, hour, tangled>>

(***************************************************************************)
(* The answer.  Whatever it is, every button is on again.                  *)
(***************************************************************************)
\* Mutant: a failure is reported, and what was shown stays.
KeepShown(c) == UNCHANGED <<items, muted>>

Rollback(c) ==
  IF c.kind = "read" THEN items' = c.was /\ UNCHANGED muted
                     ELSE muted' = c.was /\ UNCHANGED items

Answer(c) ==
  /\ c.at \in {"ok", "failed"}
  /\ IF c.at = "failed"
     THEN /\ Rollback(c) /\ message' = TRUE
          /\ tangled' = (tangled \/ calls # {c} \/ c.press # presses)
     ELSE UNCHANGED <<items, muted, message, tangled>>
  /\ pending' = {}
  /\ calls' = calls \ {c}
  /\ UNCHANGED <<serverRows, presses, refused, lost, hour>>

\* The timer of the screen takes snoozes away once they are over.
ExpireMutes ==
  /\ \E e \in Events : muted[e] # Unmuted /\ ~Later(muted[e])
  /\ muted' = [e \in Events |-> IF Later(muted[e]) THEN muted[e] ELSE Unmuted]
  /\ UNCHANGED <<serverRows, items, pending, message, calls, presses,
                 refused, lost, hour, tangled>>

PassTime ==
  /\ hour < LastHour
  /\ hour' = hour + 1
  /\ UNCHANGED <<serverRows, screen, calls, presses, refused, lost, tangled>>

InboxNext ==
  \/ \E e \in Events : markRead(e) \/ snooze(e) \/ unmute(e)
  \/ \E c \in calls : Handle(c) \/ Refuse(c) \/ Answer(c)
  \/ ExpireMutes
  \/ PassTime

InboxSpec == InboxInit /\ [][InboxNext]_inboxVars

(***************************************************************************)
(* Properties.                                                             *)
(***************************************************************************)
ReadAsShown == \A e \in Events : items[e] = ShownState(e)

\* Events whose rule has no other event on the screen.
OnlyEvents == {e \in Events : \A x \in Events \ {e} : RuleOf[x] # RuleOf[e]}

MutedAsShown ==
  \A e \in OnlyEvents :
    \/ ~Later(muted[e]) /\ ~Later(mutedUntil[RuleOf[e]])
    \/ muted[e] = mutedUntil[RuleOf[e]]

\* Once every call is answered, the screen shows an alert as read exactly
\* when its row is, and as snoozed until the moment its rule is muted to,
\* where that rule has one alert on the screen; unless an answer got lost
\* or a call that failed had company.  What is shown before the answer, what
\* a failed call puts back, and the timer must add up to it.
SettledScreenTrue ==
  calls = {} /\ lost = 0 /\ ~tangled => ReadAsShown /\ MutedAsShown

\* AlertsCenter.tsx, when an action failed: "The alert could not be updated.
\* No server state was changed."  Then what the screen says of the alerts is
\* what it said before, and still what the server has.
FailedActionChangesNothing == message /\ calls = {} => ReadAsShown
=============================================================================
