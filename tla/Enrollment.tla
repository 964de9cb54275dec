---------------------------- MODULE Enrollment -----------------------------
(***************************************************************************)
(* The one row of OAuth credentials and everyone who writes it: the        *)
(* operator's command (robinhood/connect-cli.ts), which registers a        *)
(* client, has the owner authorize it in a browser, verifies the tools and *)
(* marks the row connected; and the calls of the worker, which start only  *)
(* from a connected row and refresh its tokens.  Both go through the       *)
(* authorization of the MCP SDK with RobinhoodOAuthProvider as its store.  *)
(* The row may change hands between any two awaits.                        *)
(***************************************************************************)
EXTENDS Integers, Sequences

CONSTANTS
  Calls,      \* provider calls the worker makes at the same time
  MaxRuns,    \* bound on runs of the command
  MaxFaults,  \* bound on faults: failures, kills, expired or revoked tokens
  NoRow, Cli

None == 0    \* no client, no token; clients and tokens are numbered from 1

Rows == [client : Nat \ {None}, token : Nat,
         state : {"enrolling", "connected"}]

ASSUME EnrollmentAssumption ==
  /\ MaxRuns \in Nat /\ MaxFaults \in Nat
  /\ Cli \notin Calls
  /\ NoRow \notin Rows

Flows == Calls \cup {Cli}

VARIABLES
  row,        \* the row of the owner, or NoRow
  flow,       \* where each flow is in the SDK's authorization
  phase,      \* of the command
  settled,    \* its callback promise: "open", "code" or "failed"
  received,   \* whether a browser was told that its code was received
  asked,      \* the client of the authorization URL shown, or None
  listed,     \* the token the tools were listed with, or None
  outcome,    \* of the last run of the command
  disturbed,  \* whether anything interfered with it
  marked,     \* the token of the row last marked connected, or None
  worker,     \* "down", "composed" or "up"
  clients,    \* at the provider: the number of clients registered,
  owner,      \* the client each token was issued to,
  live, renewable,    \* the access and the refresh tokens it honours
  runs, faults

rows == <<row, marked>>
command == <<phase, settled, received, asked, listed, outcome, runs>>
provider == <<clients, owner, live, renewable>>
vars == <<row, flow, command, disturbed, marked, worker, provider, faults>>

(***************************************************************************)
(* The row: createOAuthCredentialRepository.                               *)
(***************************************************************************)
Stored == row # NoRow
Token == IF Stored THEN row.token ELSE None

\* The client replaces the one there was; the tokens stay.
WithClient(c) == [client |-> c, token |-> Token, state |-> "enrolling"]

Complete == Stored /\ row.client # None /\ row.token # None

\* verifyRobinhoodEnrollment, and the API's probe of providerVerified.
Verified == Complete /\ row.state = "connected"

-----------------------------------------------------------------------------
Idle == [step |-> "idle", client |-> None, token |-> None, retried |-> FALSE]
At(step) == [Idle EXCEPT !.step = step]

Go(f, step) == flow' = [flow EXCEPT ![f].step = step]
GoWith(f, step, token) ==
  flow' = [flow EXCEPT ![f].step = step, ![f].token = token]

Init ==
  /\ row = NoRow
  /\ flow = [f \in Flows |-> Idle]
  /\ phase = "off" /\ settled = "open" /\ received = FALSE
  /\ asked = None /\ listed = None /\ outcome = "none"
  /\ disturbed = FALSE /\ marked = None
  /\ worker = "down"
  /\ clients = 0 /\ owner = <<>> /\ live = {} /\ renewable = {}
  /\ runs = 0 /\ faults = 0

(***************************************************************************)
(* One flow f of the SDK's authorization, request by request.              *)
(***************************************************************************)
\* A request carries the token of the row; a dead one is answered 401.
Request(f) ==
  /\ flow[f].step = "request"
  /\ GoWith(f, IF Token \in live THEN "done" ELSE "client", Token)
  /\ UNCHANGED <<rows, command, disturbed, worker, provider, faults>>

\* provider.clientInformation()
LoadClient(f) ==
  /\ flow[f].step = "client"
  /\ IF Stored
     THEN flow' = [flow EXCEPT ![f].step = "tokens", ![f].client = row.client]
     ELSE Go(f, "register")
  /\ UNCHANGED <<rows, command, disturbed, worker, provider, faults>>

\* Dynamic client registration, then provider.saveClientInformation().
Register(f) ==
  /\ flow[f].step = "register"
  /\ clients' = clients + 1
  /\ row' = WithClient(clients')
  /\ flow' = [flow EXCEPT ![f].step = "tokens", ![f].client = clients']
  /\ UNCHANGED <<marked, command, disturbed, worker, owner, live, renewable,
                 faults>>

\* provider.tokens()
LoadTokens(f) ==
  /\ flow[f].step = "tokens"
  /\ GoWith(f, IF Token = None THEN "redirect" ELSE "renew", Token)
  /\ UNCHANGED <<rows, command, disturbed, worker, provider, faults>>

\* The provider issues a token to client c and forgets the token it replaces.
Issue(c, replaced) ==
  LET t == Len(owner) + 1 IN
  /\ owner' = Append(owner, c)
  /\ live' = live \cup {t}
  /\ renewable' = (renewable \ {replaced}) \cup {t}
  /\ UNCHANGED clients

Renewable(f) ==
  flow[f].token \in renewable /\ owner[flow[f].token] = flow[f].client

Renew(f) ==
  /\ flow[f].step = "renew"
  /\ Renewable(f)
  /\ Issue(flow[f].client, flow[f].token)
  /\ GoWith(f, "save", Len(owner) + 1)
  /\ UNCHANGED <<rows, command, disturbed, worker, faults>>

\* Mutant: only what the flow holds in memory is invalidated.
InvalidateMemory(f) ==
  /\ flow[f].step = "renew"
  /\ ~Renewable(f)
  /\ IF flow[f].retried
     THEN Go(f, "failed")
     ELSE flow' = [flow EXCEPT ![f].step = "client", ![f].retried = TRUE]
  /\ UNCHANGED <<rows, command, disturbed, worker, provider, faults>>

\* invalid_grant: provider.invalidateCredentials('tokens') deletes the whole
\* row, and the authorization starts over, once.
Invalidate(f) ==
  /\ flow[f].step = "renew"
  /\ ~Renewable(f)
  /\ IF flow[f].retried
     THEN Go(f, "failed") /\ UNCHANGED row
     ELSE /\ flow' = [flow EXCEPT ![f].step = "client", ![f].retried = TRUE]
          /\ row' = NoRow
  /\ UNCHANGED <<marked, command, disturbed, worker, provider, faults>>

\* provider.saveTokens(): refused without a row.  A refresh that cannot be
\* saved goes on to ask the owner, an exchange fails.
SaveTokens(f) ==
  /\ flow[f].step \in {"save", "save_exchanged"}
  /\ IF Stored
     THEN /\ row' = [row EXCEPT !.token = flow[f].token]
          /\ Go(f, IF flow[f].step = "save" THEN "request" ELSE "done")
     ELSE /\ Go(f, IF flow[f].step = "save" THEN "redirect" ELSE "failed")
          /\ UNCHANGED row
  /\ UNCHANGED <<marked, command, disturbed, worker, provider, faults>>

\* provider.state() and redirectToAuthorization(); then the request fails as
\* unauthorized.  Only the command looks at the URL.
Redirect(f) ==
  /\ flow[f].step = "redirect"
  /\ Go(f, "failed")
  /\ asked' = IF f = Cli THEN flow[f].client ELSE asked
  /\ UNCHANGED <<rows, phase, settled, received, listed, outcome, runs,
                 disturbed, worker, provider, faults>>

\* The exchange of the code the browser brought.  The code is good for the
\* client it was asked for; otherwise the row is deleted and the retry finds
\* no use for the code.
Exchange ==
  /\ flow[Cli].step = "exchange"
  /\ IF Stored /\ row.client = asked
     THEN /\ Issue(asked, None)
          /\ GoWith(Cli, "save_exchanged", Len(owner) + 1)
          /\ UNCHANGED row
     ELSE /\ Go(Cli, "failed")
          /\ row' = NoRow
          /\ UNCHANGED provider
  /\ UNCHANGED <<marked, command, disturbed, worker, faults>>

Authorize(f) ==
  \/ Request(f) \/ LoadClient(f) \/ Register(f) \/ LoadTokens(f)
  \/ Renew(f) \/ Invalidate(f) \/ SaveTokens(f) \/ Redirect(f)

-----------------------------------------------------------------------------
(***************************************************************************)
(* The command: connectRobinhood and its callback server.                  *)
(***************************************************************************)
Continue(next, step) ==
  /\ phase' = next
  /\ flow' = [flow EXCEPT ![Cli] = At(step)]
  /\ UNCHANGED <<rows, settled, received, asked, listed, outcome, runs,
                 disturbed, worker, provider, faults>>

\* The run is over; in its finally block it closes the callback server.
Ends(how) ==
  /\ phase' = "off" /\ outcome' = how
  /\ flow' = [flow EXCEPT ![Cli] = Idle]
  /\ settled' = IF settled = "open" THEN "failed" ELSE settled
  /\ UNCHANGED <<received, asked, listed, runs, worker, provider>>

StartEnrollment ==
  /\ phase = "off" /\ runs < MaxRuns
  /\ runs' = runs + 1
  /\ phase' = "first"
  /\ flow' = [flow EXCEPT ![Cli] = At("request")]
  /\ settled' = "open" /\ received' = FALSE
  /\ asked' = None /\ listed' = None /\ outcome' = "none"
  /\ disturbed' = (worker # "down")
  /\ UNCHANGED <<rows, worker, provider, faults>>

\* The first connection works at once, or its failure leaves a URL to show.
FirstConnected ==
  /\ phase = "first" /\ flow[Cli].step = "done"
  /\ Continue("second", "request")

ShowAuthorizationUrl ==
  /\ phase = "first" /\ flow[Cli].step = "failed" /\ asked # None
  /\ Continue("waiting", "idle")

\* A callback the server accepts: one code, the state of the URL, in time.
\* Any other, and any later one, is answered with 400 and changes nothing.
ReceiveCallback ==
  /\ phase = "waiting" /\ settled = "open"
  /\ settled' = "code" /\ received' = TRUE
  /\ UNCHANGED <<rows, flow, phase, asked, listed, outcome, runs, disturbed,
                 worker, provider, faults>>

\* Mutant: the timer does not look whether a callback was there first.
TimeoutAnyway ==
  /\ phase # "off" /\ settled # "failed"
  /\ settled' = "failed" /\ disturbed' = TRUE
  /\ UNCHANGED <<rows, flow, phase, received, asked, listed, outcome, runs,
                 worker, provider, faults>>

\* Mutant: the command waits for its callback without a limit.
NoTimeout == FALSE

CallbackTimeout ==
  /\ phase # "off" /\ settled = "open"
  /\ settled' = "failed" /\ disturbed' = TRUE
  /\ UNCHANGED <<rows, flow, phase, received, asked, listed, outcome, runs,
                 worker, provider, faults>>

FinishAuth ==
  /\ phase = "waiting" /\ settled = "code"
  /\ Continue("finish", "exchange")

AuthFinished ==
  /\ phase = "finish" /\ flow[Cli].step = "done"
  /\ Continue("second", "request")

\* Every failure before the verification leaves the row as it is.
FailUnverified ==
  /\ \/ phase = "first" /\ flow[Cli].step = "failed" /\ asked = None
     \/ phase = "waiting" /\ settled = "failed"
     \/ phase = "finish" /\ flow[Cli].step = "failed"
  /\ Ends("failed")
  /\ UNCHANGED <<rows, disturbed, faults>>

\* The second connection works, and its next request lists the tools.
SecondConnected ==
  /\ phase = "second" /\ flow[Cli].step = "done"
  /\ Continue("tools", "request")

\* The required tools are all there.
ToolsListed ==
  /\ phase = "tools" /\ flow[Cli].step = "done"
  /\ phase' = "verified" /\ listed' = flow[Cli].token
  /\ UNCHANGED <<rows, flow, settled, received, asked, outcome, runs,
                 disturbed, worker, provider, faults>>

\* Mutant: the update has no condition on the tokens.
MarkAnyRow ==
  /\ phase = "verified" /\ Stored
  /\ row' = [row EXCEPT !.state = "connected"]
  /\ marked' = row.token
  /\ Ends("verified")
  /\ UNCHANGED <<disturbed, faults>>

MarkConnected ==
  /\ phase = "verified" /\ Complete
  /\ row' = [row EXCEPT !.state = "connected"]
  /\ marked' = row.token
  /\ Ends("verified")
  /\ UNCHANGED <<disturbed, faults>>

\* Every failure from the second connection on deletes the row.
Disconnect ==
  /\ \/ phase \in {"second", "tools"} /\ flow[Cli].step = "failed"
     \/ phase = "verified" /\ ~Complete
  /\ row' = NoRow
  /\ Ends("failed")
  /\ UNCHANGED <<marked, disturbed, faults>>

Command ==
  \/ FirstConnected \/ ShowAuthorizationUrl \/ FinishAuth \/ AuthFinished
  \/ FailUnverified \/ SecondConnected \/ ToolsListed \/ MarkConnected
  \/ Disconnect

(***************************************************************************)
(* The worker: createWorkerComposition and startWorker verify the row each *)
(* on its own; then calls begin and end.                                   *)
(***************************************************************************)
Compose ==
  /\ worker = "down" /\ Verified
  /\ worker' = "composed" /\ disturbed' = TRUE
  /\ UNCHANGED <<rows, flow, command, provider, faults>>

StartWorker ==
  /\ worker = "composed"
  /\ worker' = IF Verified THEN "up" ELSE "down"
  /\ UNCHANGED <<rows, flow, command, disturbed, provider, faults>>

BeginCall(f) ==
  /\ worker = "up" /\ flow[f].step = "idle"
  /\ flow' = [flow EXCEPT ![f] = At("request")]
  /\ UNCHANGED <<rows, command, disturbed, worker, provider, faults>>

EndCall(f) ==
  /\ flow[f].step \in {"done", "failed"}
  /\ flow' = [flow EXCEPT ![f] = Idle]
  /\ UNCHANGED <<rows, command, disturbed, worker, provider, faults>>

-----------------------------------------------------------------------------
Fault ==
  /\ faults < MaxFaults
  /\ faults' = faults + 1
  /\ disturbed' = TRUE

\* A request to the provider fails; a refresh that does goes on to ask.
RequestFails(f) ==
  /\ flow[f].step \in {"request", "register", "renew", "exchange"}
  /\ Fault
  /\ Go(f, IF flow[f].step = "renew" THEN "redirect" ELSE "failed")
  /\ UNCHANGED <<rows, command, worker, provider>>

\* A token runs out, or the owner revokes the grant.
ExpireToken ==
  \E t \in live :
    /\ Fault
    /\ live' = live \ {t}
    /\ renewable' \in {renewable, renewable \ {t}}
    /\ UNCHANGED <<rows, flow, command, worker, clients, owner>>

KillCommand ==
  /\ phase # "off"
  /\ Fault
  /\ Ends("killed")
  /\ UNCHANGED rows

StopWorker ==
  /\ worker # "down"
  /\ Fault
  /\ worker' = "down"
  /\ flow' = [f \in Flows |-> IF f = Cli THEN flow[f] ELSE Idle]
  /\ UNCHANGED <<rows, command, provider>>

Next ==
  \/ \E f \in Flows : Authorize(f)
  \/ Exchange
  \/ StartEnrollment
  \/ Command
  \/ ReceiveCallback
  \/ CallbackTimeout
  \/ Compose
  \/ StartWorker
  \/ \E f \in Calls : BeginCall(f) \/ EndCall(f)
  \/ \E f \in Flows : RequestFails(f)
  \/ ExpireToken
  \/ KillCommand
  \/ StopWorker

Spec == Init /\ [][Next]_vars

\* The command's process runs, its requests are answered or time out, and so
\* does its callback.  Nobody has to approve the authorization.
FairSpec == Spec /\ WF_vars(Authorize(Cli) \/ Exchange \/ Command)
                 /\ WF_vars(CallbackTimeout)

-----------------------------------------------------------------------------
(***************************************************************************)
(* Properties.                                                             *)
(***************************************************************************)
Steps == {"idle", "request", "client", "register", "tokens", "renew", "save",
          "save_exchanged", "redirect", "exchange", "done", "failed"}

FlowStates ==
  [step : Steps, client : Nat, token : Nat, retried : BOOLEAN]

TypeOK ==
  /\ row \in Rows \cup {NoRow}
  /\ flow \in [Flows -> FlowStates]
  /\ phase \in {"off", "first", "waiting", "finish", "second", "tools",
               "verified"}
  /\ settled \in {"open", "code", "failed"}
  /\ received \in BOOLEAN /\ disturbed \in BOOLEAN
  /\ asked \in Nat /\ listed \in Nat /\ marked \in Nat
  /\ clients \in Nat /\ runs \in Nat /\ faults \in Nat
  /\ outcome \in {"none", "verified", "failed", "killed"}
  /\ worker \in {"down", "composed", "up"}
  /\ owner \in Seq(Nat)
  /\ live \subseteq DOMAIN owner /\ renewable \subseteq DOMAIN owner

\* A row that says it is connected has its client and its tokens, and a run of
\* the command verified tools and said so, whoever else deleted, registered or
\* refreshed in between; the worker runs only after that.
ConnectedIsComplete ==
  /\ Stored /\ row.state = "connected" => Complete /\ marked # None
  /\ worker # "down" => marked # None

\* A browser is told that its code was received only by a run that takes the
\* code: no timeout, duplicate or cleanup settles that callback otherwise.
CallbackHonest ==
  /\ received <=> settled = "code"
  /\ phase = "finish" => received

\* Only a worker that is up calls the provider.
CallsOfWorker == \A f \in Calls : worker # "up" => flow[f] = Idle

\* What a flow is about to save is a token it was issued.
SavesTokens ==
  \A f \in Flows :
    flow[f].step \in {"save", "save_exchanged"} => flow[f].token # None

IndInv ==
  /\ TypeOK
  /\ ConnectedIsComplete
  /\ CallbackHonest
  /\ CallsOfWorker
  /\ SavesTokens

\* Whatever a killed, failed or interfered run, a dead token or a worker left
\* in the row, a later run of the command that nothing disturbs connects.
UndisturbedRunConnects ==
  outcome = "failed" => disturbed

\* Every run of the command ends, whether or not anybody approves.
EnrollmentEnds == phase # "off" ~> phase = "off"

\* apps/server/src/robinhood/connect-cli.ts:208: "A token is marked connected
\* only after tool verification."  The token marked need not be the very one
\* the tools were listed with, it may have been refreshed; but it is one of
\* the client that was verified.
MarkedTokenVerified == outcome = "verified" => owner[marked] = owner[listed]

=============================================================================
