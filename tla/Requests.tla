------------------------------ MODULE Requests ------------------------------
(***************************************************************************)
(* The requests with which the owner changes something: the controls for   *)
(* exports, deletions, refreshes and alert rules (DataControls.tsx,        *)
(* RefreshControl.tsx, AlertRuleForm.tsx), the two fetches of              *)
(* csrf-mutation.ts, the web application's relay (bff.ts), what the API    *)
(* asks of every request (app.ts) and what the routes ask of theirs.       *)
(*                                                                         *)
(* The browser may sign in as somebody else, or out, and time may pass,    *)
(* between any two steps of a call.  The clocks of the API and of the      *)
(* identity provider are taken to agree.                                   *)
(***************************************************************************)
EXTENDS Integers, FiniteSets

CONSTANTS
  OwnerSessions, StrangerSessions,
  SignedOut,     \* no session, no token
  NoPasskey,     \* a session without a verified passkey
  PasskeyFor,    \* the 300 seconds of hasRecentPasskey
  LastMoment, MaxCalls, MaxChanges, MaxFailed

Sessions == OwnerSessions \cup StrangerSessions

ASSUME RequestsAssumption ==
  /\ SignedOut \notin Sessions /\ NoPasskey \notin Int
  /\ OwnerSessions \cap StrangerSessions = {} /\ PasskeyFor \in Nat

VARIABLES
  cookie,        \* the session of the browser
  passkeyAt,     \* when each session last verified a passkey
  services,      \* which of export and delete the composition supplies
  available,     \* DataControls: which of them the screen offers
  loading,       \* DataControls: the two previews are not answered yet
  typed,         \* DataControls: the confirmation phrase is in the box
  pendingData,   \* DataControls: its buttons are off
  dataMessage,       \* DataControls: the outcome it shows
  refreshState,  \* RefreshControl
  ruleMessage,   \* AlertRuleForm: the outcome it shows
  saved,         \* AlertRuleForm: the rules it lists as saved
  requests,      \* the calls under way
  pressed,       \* how many were made
  performed,     \* what the server did
  openJob,       \* a refresh of the owner is queued or running
  moment, changes, failed,
  lostAnswers,
  phrases        \* how often the phrase was typed

dataControls == <<available, loading, typed, pendingData, dataMessage>>
otherControls == <<refreshState, ruleMessage, saved>>
server == <<performed, openJob>>
around == <<cookie, passkeyAt, services, moment, changes>>
requestsVars == <<dataControls, otherControls, server, around, requests,
                  pressed, failed, lostAnswers, phrases>>

Quiet == [says |-> "nothing", of |-> 0]
Says(what, of) == [says |-> what, of |-> of]

RequestsInit ==
  /\ cookie \in OwnerSessions
  /\ passkeyAt \in [Sessions -> {NoPasskey, 0}]
  /\ \A s \in StrangerSessions : passkeyAt[s] = 0
  /\ services \in SUBSET {"export", "delete"}
  /\ available = {} /\ loading = TRUE
  /\ typed = FALSE /\ pendingData = FALSE /\ dataMessage = Quiet
  /\ refreshState = Says("idle", 0) /\ ruleMessage = Quiet /\ saved = {}
  /\ requests = {} /\ pressed = 0
  /\ performed = {} /\ openJob = FALSE
  /\ moment = 0 /\ changes = 0 /\ failed = 0 /\ lostAnswers = 0 /\ phrases = 0

(***************************************************************************)
(* Around the calls.                                                       *)
(***************************************************************************)
unchangedCalls == UNCHANGED <<dataControls, otherControls, server, requests,
                              pressed, failed, lostAnswers, phrases>>

SwitchSession(s) ==
  /\ s # cookie /\ changes < MaxChanges
  /\ cookie' = s /\ changes' = changes + 1
  /\ UNCHANGED <<passkeyAt, services, moment>> /\ unchangedCalls

VerifyPasskey ==
  /\ cookie \in OwnerSessions /\ changes < MaxChanges
  /\ passkeyAt' = [passkeyAt EXCEPT ![cookie] = moment]
  /\ changes' = changes + 1
  /\ UNCHANGED <<cookie, services, moment>> /\ unchangedCalls

PassMoment ==
  /\ moment < LastMoment
  /\ moment' = moment + 1
  /\ UNCHANGED <<cookie, passkeyAt, services, changes>> /\ unchangedCalls

\* A worker takes the job and ends it.
EndJob ==
  /\ openJob /\ openJob' = FALSE
  /\ UNCHANGED <<dataControls, otherControls, performed, around, requests,
                 pressed, failed, lostAnswers, phrases>>

(***************************************************************************)
(* The controls.                                                           *)
(***************************************************************************)
\* The identity provider vouches for whoever is signed in.
verifyClerkPrincipal(s) == s # SignedOut

\* preParsing: the session of the request is one of the owner.
Admitted(s) == verifyClerkPrincipal(s) /\ s \in OwnerSessions

exportPreview == services \cap {"export"}
deletePreview == services \cap {"delete"}

\* Either of the two may fail by itself.
PreviewsAnswered ==
  /\ loading
  /\ \E shown \in SUBSET (exportPreview \cup deletePreview) :
       /\ shown # {} => Admitted(cookie)
       /\ available' = shown
  /\ loading' = FALSE
  /\ UNCHANGED <<typed, pendingData, dataMessage, otherControls, server,
                 around, requests, pressed, failed, lostAnswers, phrases>>

TypePhrase ==
  /\ "delete" \in available /\ ~pendingData
  /\ ~typed /\ phrases < MaxCalls
  /\ typed' = TRUE /\ phrases' = phrases + 1
  /\ UNCHANGED <<available, loading, pendingData, dataMessage, otherControls,
                 server, around, requests, pressed, failed, lostAnswers>>

\* csrfMutation begins: no token yet, and nothing sent.
BeginRequest(kind) ==
  /\ pressed < MaxCalls /\ pressed' = pressed + 1
  /\ requests' = requests \cup
       {[kind |-> kind, press |-> pressed + 1, at |-> "started",
         token |-> SignedOut, by |-> SignedOut, passkey |-> NoPasskey,
         found |-> FALSE]}
  /\ UNCHANGED <<server, around, failed, lostAnswers, phrases>>

exportData ==
  /\ "export" \in available /\ ~pendingData
  /\ BeginRequest("export")
  /\ pendingData' = TRUE /\ dataMessage' = Quiet
  /\ UNCHANGED <<available, loading, typed, otherControls>>

deleteData ==
  /\ "delete" \in available /\ ~pendingData /\ typed
  /\ BeginRequest("delete")
  /\ pendingData' = TRUE /\ dataMessage' = Quiet
  /\ UNCHANGED <<available, loading, typed, otherControls>>

requestRefresh ==
  /\ refreshState.says # "queued"
  /\ BeginRequest("refresh")
  /\ refreshState' = Says("queued", pressed + 1)
  /\ UNCHANGED <<dataControls, ruleMessage, saved>>

\* The form may be submitted again before the answer.
saveRule ==
  /\ BeginRequest("rule")
  /\ ruleMessage' = Quiet
  /\ UNCHANGED <<dataControls, refreshState, saved>>

(***************************************************************************)
(* A call on its way.                                                      *)
(***************************************************************************)
ReplaceCall(c, d) == requests' = (requests \ {c}) \cup {d}

\* Of a call that is over, only the outcome matters.
Over(c, at) ==
  [c EXCEPT !.at = at, !.token = SignedOut, !.by = SignedOut,
            !.passkey = NoPasskey]

unchangedScreens == UNCHANGED <<dataControls, otherControls, around, pressed,
                                phrases>>

\* No network, too many requests, or an error of the server or a service.
RequestFails(c) ==
  /\ c.at \notin {"done", "failed"} /\ failed < MaxFailed
  /\ failed' = failed + 1
  /\ ReplaceCall(c, Over(c, "failed"))
  /\ UNCHANGED <<server, lostAnswers>> /\ unchangedScreens

\* GET /v1/auth/csrf: a token made for the session, or an error.
FetchToken(c) ==
  /\ c.at = "started"
  /\ ReplaceCall(c, IF Admitted(cookie)
                    THEN [c EXCEPT !.at = "tokened", !.token = cookie]
                    ELSE Over(c, "failed"))
  /\ UNCHANGED <<server, failed, lostAnswers>> /\ unchangedScreens

\* forwardAurumRequest: the cookie goes along as it is then, with the token.
Forward(c) ==
  /\ c.at = "tokened"
  /\ ReplaceCall(c, [c EXCEPT !.at = "forwarded", !.by = cookie])
  /\ UNCHANGED <<server, failed, lostAnswers>> /\ unchangedScreens

\* Mutant: any token will do that the API once made.
AnyToken(c) == c.token # SignedOut

verifyCsrfToken(c) == c.token = c.by

\* preParsing.  The principal says when the passkey was verified.
Authorize(c) ==
  /\ c.at = "forwarded"
  /\ ReplaceCall(c, IF Admitted(c.by) /\ verifyCsrfToken(c)
                    THEN [c EXCEPT !.at = "authorized",
                                   !.passkey = passkeyAt[c.by]]
                    ELSE Over(c, "failed"))
  /\ UNCHANGED <<server, failed, lostAnswers>> /\ unchangedScreens

hasRecentPasskey(c) ==
  c.passkey # NoPasskey /\ moment - c.passkey <= PasskeyFor

Sensitive == {"export", "delete"}

\* What the two routes ask for, beside a body of their form.
ExportRoute(c) ==
  c.kind = "export" /\ "export" \in services /\ hasRecentPasskey(c)
DeleteRoute(c) ==
  c.kind = "delete" /\ "delete" \in services /\ hasRecentPasskey(c)

Allowed(c) == ExportRoute(c) \/ DeleteRoute(c) \/ c.kind \in {"refresh", "rule"}

\* requestRefresh of the source looks for an open job before it queues one.
LookForJob(c) ==
  /\ c.at = "authorized" /\ c.kind = "refresh"
  /\ ReplaceCall(c, [c EXCEPT !.at = "looked", !.found = openJob])
  /\ UNCHANGED <<server, failed, lostAnswers>> /\ unchangedScreens

RefuseCall(c) ==
  /\ c.at = "authorized" /\ ~Allowed(c)
  /\ ReplaceCall(c, Over(c, "failed"))
  /\ UNCHANGED <<server, failed, lostAnswers>> /\ unchangedScreens

Perform(c) ==
  /\ c.at = (IF c.kind = "refresh" THEN "looked" ELSE "authorized")
  /\ Allowed(c)
  /\ performed' = performed \cup
       {[kind |-> c.kind, press |-> c.press, by |-> c.by, token |-> c.token,
         passkey |-> c.passkey, moment |-> moment]}
  /\ openJob' = (openJob \/ c.kind = "refresh")
  /\ \/ /\ ReplaceCall(c, Over(c, "done"))
        /\ UNCHANGED lostAnswers
     \/ /\ lostAnswers < MaxFailed /\ lostAnswers' = lostAnswers + 1
        /\ ReplaceCall(c, Over(c, "failed"))
  /\ UNCHANGED failed /\ unchangedScreens

(***************************************************************************)
(* The answers.                                                            *)
(***************************************************************************)
Outcome(c) ==
  IF c.at = "failed" THEN "not_done"
  ELSE IF c.found THEN "coalesced" ELSE "done"

DataAnswered(c) ==
  /\ c.kind \in Sensitive
  /\ dataMessage' = Says(Outcome(c), c.press)
  /\ pendingData' = FALSE
  /\ typed' = (typed /\ c.kind # "delete")
  /\ UNCHANGED <<available, loading, otherControls>>

RefreshAnswered(c) ==
  /\ c.kind = "refresh"
  /\ refreshState' = Says(CASE Outcome(c) = "not_done" -> "error"
                            [] Outcome(c) = "coalesced" -> "coalesced"
                            [] Outcome(c) = "done" -> "queued", c.press)
  /\ UNCHANGED <<dataControls, ruleMessage, saved>>

RuleAnswered(c) ==
  /\ c.kind = "rule"
  /\ ruleMessage' = Says(Outcome(c), c.press)
  /\ saved' = IF Outcome(c) = "done" THEN saved \cup {c.press} ELSE saved
  /\ UNCHANGED <<dataControls, refreshState>>

CallAnswered(c) ==
  /\ c.at \in {"done", "failed"}
  /\ DataAnswered(c) \/ RefreshAnswered(c) \/ RuleAnswered(c)
  /\ requests' = requests \ {c}
  /\ UNCHANGED <<server, around, pressed, failed, lostAnswers, phrases>>

RequestsNext ==
  \/ \E s \in Sessions \cup {SignedOut} : SwitchSession(s)
  \/ VerifyPasskey \/ PassMoment \/ EndJob
  \/ PreviewsAnswered \/ TypePhrase
  \/ exportData \/ deleteData \/ requestRefresh \/ saveRule
  \/ \E c \in requests :
       \/ RequestFails(c) \/ FetchToken(c) \/ Forward(c) \/ Authorize(c)
       \/ LookForJob(c) \/ RefuseCall(c) \/ Perform(c) \/ CallAnswered(c)

RequestsSpec == RequestsInit /\ [][RequestsNext]_requestsVars

(***************************************************************************)
(* Properties.                                                             *)
(***************************************************************************)
\* Whatever the browser does meanwhile, an export or a deletion is made for
\* the session of the owner that asked for its token, whose passkey was
\* verified no longer ago than the route allows; a deletion took the phrase,
\* typed anew for each.
SensitiveAsked ==
  /\ \A p \in performed : p.kind \in Sensitive =>
       /\ p.by \in OwnerSessions /\ p.token = p.by
       /\ p.passkey # NoPasskey /\ p.moment - p.passkey <= PasskeyFor
  /\ Cardinality({p \in performed : p.kind = "delete"}) <= phrases

Done(press) == \E p \in performed : p.press = press

\* What the controls say of a call is what became of it, unless its answer
\* got lost; and the form lists the rules that it made, however often it was
\* submitted before an answer came.
OutcomesTrue ==
  /\ \A m \in {dataMessage, ruleMessage, refreshState} :
       m.says \in {"done", "coalesced"} => Done(m.of)
  /\ lostAnswers = 0 =>
       /\ \A m \in {dataMessage, ruleMessage, refreshState} :
            m.says \in {"not_done", "error"} => ~Done(m.of)
       /\ (\A c \in requests : c.kind # "rule") =>
            saved = {p.press : p \in {q \in performed : q.kind = "rule"}}

RequestsSound == SensitiveAsked /\ OutcomesTrue
=============================================================================
