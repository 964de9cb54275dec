-------------------------- MODULE EnrollmentProofs -------------------------
(***************************************************************************)
(* The credentials row stays sound whatever the command and any number of  *)
(* calls of the worker do to it: IndInv is inductive for every set of      *)
(* calls and all bounds.                                                   *)
(***************************************************************************)
EXTENDS Enrollment, TLAPS

LEMMA Initially == Init => IndInv
<1> SUFFICES ASSUME Init PROVE IndInv
  OBVIOUS
<1> USE EnrollmentAssumption DEF Init
<1>1. Idle \in FlowStates
  BY DEF Idle, FlowStates, Steps, None
<1>2. TypeOK
  <2>1. flow \in [Flows -> FlowStates]
    BY <1>1
  <2>2. owner \in Seq(Nat) /\ DOMAIN owner = {}
    OBVIOUS
  <2> QED
    BY <2>1, <2>2 DEF TypeOK, None
<1>3. ConnectedIsComplete /\ CallbackHonest /\ CallsOfWorker
  BY DEF ConnectedIsComplete, CallbackHonest, CallsOfWorker, Stored, Flows
<1>4. SavesTokens
  BY DEF SavesTokens, Idle
<1> QED
  BY <1>2, <1>3, <1>4 DEF IndInv

(***************************************************************************)
(* Types.                                                                  *)
(***************************************************************************)
\* The ways in which the steps change the state of one flow.
LEMMA FlowTypes ==
  ASSUME TypeOK, NEW f \in Flows, NEW step \in Steps, NEW n \in Nat
  PROVE  /\ [flow EXCEPT ![f].step = step] \in [Flows -> FlowStates]
         /\ [flow EXCEPT ![f].step = step, ![f].token = n]
              \in [Flows -> FlowStates]
         /\ [flow EXCEPT ![f].step = step, ![f].client = n]
              \in [Flows -> FlowStates]
         /\ [flow EXCEPT ![f].step = step, ![f].retried = TRUE]
              \in [Flows -> FlowStates]
         /\ [flow EXCEPT ![f] = At(step)] \in [Flows -> FlowStates]
         /\ [flow EXCEPT ![f] = Idle] \in [Flows -> FlowStates]
<1> USE DEF TypeOK, FlowStates
<1>1. flow[f] \in FlowStates
  OBVIOUS
<1>2. [flow[f] EXCEPT !.step = step] \in FlowStates
  BY <1>1
<1>3. [flow[f] EXCEPT !.step = step, !.token = n] \in FlowStates
  BY <1>1
<1>4. [flow[f] EXCEPT !.step = step, !.client = n] \in FlowStates
  BY <1>1
<1>5. [flow[f] EXCEPT !.step = step, !.retried = TRUE] \in FlowStates
  BY <1>1
<1>6. At(step) \in FlowStates /\ Idle \in FlowStates
  BY DEF At, Idle, None, Steps
<1> QED
  BY <1>2, <1>3, <1>4, <1>5, <1>6

LEMMA TokenType == TypeOK => Token \in Nat
  BY DEF TypeOK, Token, Stored, Rows, None

\* What the provider issues is a token of its own.
LEMMA IssueTypes ==
  ASSUME TypeOK, NEW c \in Nat, NEW t, Issue(c, t)
  PROVE  /\ owner' \in Seq(Nat) /\ clients' \in Nat
         /\ live' \subseteq DOMAIN owner'
         /\ renewable' \subseteq DOMAIN owner'
         /\ Len(owner) + 1 \in Nat \ {None}
  BY DEF TypeOK, Issue, None

\* A step of the authorization keeps the types.
LEMMA AuthorizeTypes ==
  ASSUME TypeOK, NEW f \in Flows, Authorize(f)
  PROVE  TypeOK'
<1> USE EnrollmentAssumption DEF rows, command, provider, Go, GoWith
<1>0. flow[f] \in FlowStates /\ flow[f].token \in Nat /\ flow[f].client \in Nat
  BY DEF TypeOK, FlowStates
<1>1. CASE Request(f)
  <2>1. flow' \in [Flows -> FlowStates]
    BY <1>1, FlowTypes, TokenType DEF Request, Steps
  <2> QED
    BY <1>1, <2>1 DEF Request, TypeOK
<1>2. CASE LoadClient(f)
  <2>1. flow' \in [Flows -> FlowStates]
    <3>1. Stored => row.client \in Nat
      BY DEF TypeOK, Stored, Rows
    <3>2. "tokens" \in Steps /\ "register" \in Steps
      BY DEF Steps
    <3>3. CASE Stored
      <4>1. flow' = [flow EXCEPT ![f].step = "tokens",
                                 ![f].client = row.client]
        BY <1>2, <3>3 DEF LoadClient
      <4> QED
        BY <3>1, <3>2, <3>3, <4>1, FlowTypes
    <3>4. CASE ~Stored
      <4>1. flow' = [flow EXCEPT ![f].step = "register"]
        BY <1>2, <3>4 DEF LoadClient
      <4> QED
        BY <3>2, <4>1, FlowTypes
    <3> QED
      BY <3>3, <3>4
  <2> QED
    BY <1>2, <2>1 DEF LoadClient, TypeOK
<1>3. CASE Register(f)
  <2>1. clients' \in Nat \ {None}
    BY <1>3 DEF Register, TypeOK, None
  <2>2. flow' \in [Flows -> FlowStates]
    BY <1>3, <2>1, FlowTypes DEF Register, Steps
  <2>3. row' \in Rows
    BY <1>3, <2>1, TokenType DEF Register, WithClient, Rows
  <2> QED
    BY <1>3, <2>1, <2>2, <2>3 DEF Register, TypeOK
<1>4. CASE LoadTokens(f)
  <2>1. flow' \in [Flows -> FlowStates]
    BY <1>4, FlowTypes, TokenType DEF LoadTokens, Steps
  <2> QED
    BY <1>4, <2>1 DEF LoadTokens, TypeOK
<1>5. CASE Renew(f)
  <2>1. /\ owner' \in Seq(Nat) /\ clients' \in Nat
        /\ live' \subseteq DOMAIN owner' /\ renewable' \subseteq DOMAIN owner'
        /\ Len(owner) + 1 \in Nat \ {None}
    BY <1>0, <1>5, IssueTypes DEF Renew
  <2>2. flow' \in [Flows -> FlowStates]
    BY <1>5, <2>1, FlowTypes DEF Renew, Steps
  <2> QED
    BY <1>5, <2>1, <2>2 DEF Renew, TypeOK
<1>6. CASE Invalidate(f)
  <2>1. flow' \in [Flows -> FlowStates]
    <3>1. "failed" \in Steps /\ "client" \in Steps /\ 0 \in Nat
      BY DEF Steps
    <3>2. CASE flow[f].retried
      <4>1. flow' = [flow EXCEPT ![f].step = "failed"]
        BY <1>6, <3>2 DEF Invalidate
      <4> QED
        BY <3>1, <4>1, FlowTypes
    <3>3. CASE ~flow[f].retried
      <4>1. flow' = [flow EXCEPT ![f].step = "client", ![f].retried = TRUE]
        BY <1>6, <3>3 DEF Invalidate
      <4> QED
        BY <3>1, <4>1, FlowTypes
    <3> QED
      BY <3>2, <3>3
  <2> QED
    BY <1>6, <2>1 DEF Invalidate, TypeOK
<1>7. CASE SaveTokens(f)
  <2>1. flow' \in [Flows -> FlowStates]
    <3>1. PICK step \in {"request", "done", "redirect", "failed"} :
            flow' = [flow EXCEPT ![f].step = step]
      BY <1>7 DEF SaveTokens
    <3> QED
      BY <3>1, FlowTypes DEF Steps
  <2>2. row' \in Rows \cup {NoRow}
    BY <1>0, <1>7 DEF SaveTokens, Stored, Rows, TypeOK
  <2> QED
    BY <1>7, <2>1, <2>2 DEF SaveTokens, TypeOK
<1>8. CASE Redirect(f)
  <2>1. flow' \in [Flows -> FlowStates]
    BY <1>8, FlowTypes DEF Redirect, Steps
  <2> QED
    BY <1>0, <1>8, <2>1 DEF Redirect, TypeOK
<1> QED
  BY <1>1, <1>2, <1>3, <1>4, <1>5, <1>6, <1>7, <1>8 DEF Authorize

\* A step of the command keeps the types.
LEMMA CommandTypes ==
  ASSUME TypeOK, Command \/ Exchange \/ StartEnrollment \/ ReceiveCallback
                 \/ CallbackTimeout \/ KillCommand
  PROVE  TypeOK'
<1> USE EnrollmentAssumption DEF rows, command, provider
<1>0. Cli \in Flows
  BY DEF Flows
<1>1. CASE Exchange
  <2>1. CASE Stored /\ row.client = asked
    <3>1. Issue(asked, None) /\ asked \in Nat
      BY <1>1, <2>1 DEF Exchange, TypeOK
    <3>2. /\ owner' \in Seq(Nat) /\ clients' \in Nat
          /\ live' \subseteq DOMAIN owner'
          /\ renewable' \subseteq DOMAIN owner'
          /\ Len(owner) + 1 \in Nat \ {None}
      BY <3>1, IssueTypes
    <3>3. flow' \in [Flows -> FlowStates]
      <4>1. "save_exchanged" \in Steps
        BY DEF Steps
      <4>2. flow' = [flow EXCEPT ![Cli].step = "save_exchanged",
                                 ![Cli].token = Len(owner) + 1]
        BY <1>1, <2>1 DEF Exchange, GoWith
      <4> QED
        BY <1>0, <3>2, <4>1, <4>2, FlowTypes
    <3> QED
      BY <1>1, <2>1, <3>2, <3>3 DEF Exchange, TypeOK
  <2>2. CASE ~(Stored /\ row.client = asked)
    <3>1. flow' \in [Flows -> FlowStates]
      <4>1. "failed" \in Steps
        BY DEF Steps
      <4>2. flow' = [flow EXCEPT ![Cli].step = "failed"]
        BY <1>1, <2>2 DEF Exchange, Go
      <4> QED
        BY <1>0, <4>1, <4>2, FlowTypes
    <3> QED
      BY <1>1, <2>2, <3>1 DEF Exchange, TypeOK
  <2> QED
    BY <2>1, <2>2
<1>2. CASE FirstConnected \/ ShowAuthorizationUrl \/ FinishAuth \/ AuthFinished
           \/ SecondConnected
  <2>1. PICK step \in Steps, next \in {"second", "waiting", "finish", "tools"} :
          Continue(next, step)
    BY <1>2 DEF FirstConnected, ShowAuthorizationUrl, FinishAuth,
       AuthFinished, SecondConnected, Steps
  <2>2. flow' \in [Flows -> FlowStates]
    BY <1>0, <2>1, FlowTypes DEF Continue
  <2> QED
    BY <2>1, <2>2 DEF Continue, TypeOK
<1>3. CASE ToolsListed
  <2>1. flow[Cli].token \in Nat
    BY <1>0 DEF TypeOK, FlowStates
  <2> QED
    BY <1>3, <2>1 DEF ToolsListed, TypeOK
<1>4. CASE FailUnverified \/ MarkConnected \/ Disconnect \/ KillCommand
  <2>1. PICK how \in {"failed", "verified", "killed"} : Ends(how)
    BY <1>4 DEF FailUnverified, MarkConnected, Disconnect, KillCommand
  <2>2. flow' \in [Flows -> FlowStates]
    BY <1>0, <2>1, FlowTypes DEF Ends, Steps
  <2>3. /\ row' \in Rows \cup {NoRow} /\ marked' \in Nat
        /\ disturbed' \in BOOLEAN /\ faults' \in Nat
    <3>1. CASE FailUnverified \/ Disconnect
      BY <3>1 DEF FailUnverified, Disconnect, TypeOK
    <3>2. CASE MarkConnected
      <4>1. row \in Rows /\ row.token \in Nat
        BY <3>2 DEF MarkConnected, Complete, Stored, TypeOK, Rows
      <4>2. [row EXCEPT !.state = "connected"] \in Rows
        BY <4>1 DEF Rows
      <4> QED
        BY <3>2, <4>1, <4>2 DEF MarkConnected, TypeOK
    <3>3. CASE KillCommand
      BY <3>3 DEF KillCommand, Fault, TypeOK
    <3> QED
      BY <1>4, <3>1, <3>2, <3>3
  <2> QED
    BY <2>1, <2>2, <2>3 DEF Ends, TypeOK
<1>5. CASE StartEnrollment
  <2>1. flow' \in [Flows -> FlowStates]
    BY <1>0, <1>5, FlowTypes DEF StartEnrollment, Steps
  <2>2. disturbed' \in BOOLEAN
    BY <1>5 DEF StartEnrollment
  <2>3. /\ runs' = runs + 1 /\ phase' = "first" /\ settled' = "open"
        /\ received' = FALSE /\ asked' = None /\ listed' = None
        /\ outcome' = "none"
    BY <1>5 DEF StartEnrollment
  <2>4. UNCHANGED <<row, marked, worker, clients, owner, live, renewable,
                    faults>>
    BY <1>5 DEF StartEnrollment
  <2>5. received' \in BOOLEAN
    BY <2>3, Zenon
  <2>6. runs + 1 \in Nat /\ None \in Nat
    BY DEF TypeOK, None
  <2> QED
    BY <2>1, <2>2, <2>3, <2>4, <2>5, <2>6 DEF TypeOK
<1>6. CASE ReceiveCallback \/ CallbackTimeout
  BY <1>6 DEF ReceiveCallback, CallbackTimeout, TypeOK
<1> QED
  BY <1>1, <1>2, <1>3, <1>4, <1>5, <1>6 DEF Command

LEMMA WorkerTypes ==
  ASSUME TypeOK,
         \/ Compose \/ StartWorker \/ StopWorker \/ ExpireToken
         \/ \E f \in Calls : BeginCall(f) \/ EndCall(f)
         \/ \E f \in Flows : RequestFails(f)
  PROVE  TypeOK'
<1> USE EnrollmentAssumption DEF rows, command, provider
<1>1. CASE Compose
  BY <1>1 DEF Compose, TypeOK
<1>2. CASE StartWorker
  BY <1>2 DEF StartWorker, TypeOK
<1>3. CASE StopWorker
  <2>1. Idle \in FlowStates
    BY DEF Idle, FlowStates, Steps, None
  <2>2. flow' \in [Flows -> FlowStates]
    BY <1>3, <2>1 DEF StopWorker, TypeOK
  <2> QED
    BY <1>3, <2>2 DEF StopWorker, Fault, TypeOK
<1>4. CASE ExpireToken
  BY <1>4 DEF ExpireToken, Fault, TypeOK
<1>5. CASE \E f \in Calls : BeginCall(f) \/ EndCall(f)
  <2>1. PICK f \in Flows : BeginCall(f) \/ EndCall(f)
    BY <1>5 DEF Flows
  <2>2. flow' \in [Flows -> FlowStates]
    <3>1. flow' = [flow EXCEPT ![f] = At("request")]
          \/ flow' = [flow EXCEPT ![f] = Idle]
      BY <2>1 DEF BeginCall, EndCall
    <3>2. "request" \in Steps /\ 0 \in Nat
      BY DEF Steps
    <3>3. /\ [flow EXCEPT ![f] = At("request")] \in [Flows -> FlowStates]
          /\ [flow EXCEPT ![f] = Idle] \in [Flows -> FlowStates]
      BY <3>2, FlowTypes
    <3> QED
      BY <3>1, <3>3
  <2>3. UNCHANGED <<rows, command, disturbed, worker, provider, faults>>
    BY <2>1 DEF BeginCall, EndCall
  <2> QED
    BY <2>2, <2>3 DEF TypeOK
<1>6. CASE \E f \in Flows : RequestFails(f)
  <2>1. PICK f \in Flows : RequestFails(f)
    BY <1>6
  <2>2. PICK step \in {"redirect", "failed"} :
          flow' = [flow EXCEPT ![f].step = step]
    BY <2>1 DEF RequestFails, Go
  <2>3. flow' \in [Flows -> FlowStates]
    BY <2>2, FlowTypes DEF Steps
  <2> QED
    BY <2>1, <2>3 DEF RequestFails, Fault, TypeOK
<1> QED
  BY <1>1, <1>2, <1>3, <1>4, <1>5, <1>6

LEMMA TypesStable == TypeOK /\ [Next]_vars => TypeOK'
<1> SUFFICES ASSUME TypeOK, [Next]_vars PROVE TypeOK'
  OBVIOUS
<1>1. CASE UNCHANGED vars
  BY <1>1 DEF vars, rows, command, provider, TypeOK
<1>2. CASE Next
  BY <1>2, AuthorizeTypes, CommandTypes, WorkerTypes DEF Next
<1> QED
  BY <1>1, <1>2

(***************************************************************************)
(* What the row claims.                                                    *)
(***************************************************************************)
\* A flow that is about to save holds a token: only two steps lead there.
LEMMA SavesStable == IndInv /\ [Next]_vars => SavesTokens'
<1> SUFFICES ASSUME IndInv, [Next]_vars, NEW g \in Flows,
                    flow'[g].step \in {"save", "save_exchanged"}
             PROVE  flow'[g].token # None
  BY DEF SavesTokens
<1> USE DEF IndInv, rows, command, provider
<1>0. /\ flow[g] \in FlowStates /\ flow \in [Flows -> FlowStates]
      /\ Len(owner) + 1 # None /\ Cli \in Flows
  BY DEF TypeOK, None, Flows
<1>1. CASE UNCHANGED flow
  BY <1>1 DEF SavesTokens
<1>2. CASE \E f \in Flows : Authorize(f)
  <2>1. PICK f \in Flows : Authorize(f)
    BY <1>2
  <2>2. CASE Renew(f)
    BY <1>0, <2>2 DEF Renew, GoWith, SavesTokens, FlowStates
  <2>3. CASE ~Renew(f)
    <3>1. g # f => flow'[g] = flow[g]
      BY <1>0, <2>1, <2>3 DEF Authorize, Request, LoadClient, Register,
         LoadTokens, Invalidate, SaveTokens, Redirect, Go, GoWith
    <3>2. flow'[f].step \notin {"save", "save_exchanged"}
      BY <1>0, <2>1, <2>3 DEF Authorize, Request, LoadClient, Register,
         LoadTokens, Invalidate, SaveTokens, Redirect, Go, GoWith, FlowStates
    <3> QED
      BY <3>1, <3>2 DEF SavesTokens
  <2> QED
    BY <2>2, <2>3
<1>3. CASE Exchange
  BY <1>0, <1>3 DEF Exchange, Go, GoWith, SavesTokens, FlowStates
<1>4. CASE \E f \in Flows : RequestFails(f)
  <2>1. PICK f \in Flows : RequestFails(f)
    BY <1>4
  <2> QED
    BY <1>0, <2>1 DEF RequestFails, Go, SavesTokens, FlowStates
<1>5. CASE Command \/ StartEnrollment \/ KillCommand
  <2>1. g # Cli => flow'[g] = flow[g]
    BY <1>0, <1>5 DEF Command, FirstConnected, ShowAuthorizationUrl, FinishAuth,
       AuthFinished, FailUnverified, SecondConnected, ToolsListed,
       MarkConnected, Disconnect, StartEnrollment, KillCommand, Continue, Ends
  <2>2. CASE ToolsListed
    BY <2>2 DEF ToolsListed, SavesTokens
  <2>3. CASE ~ToolsListed
    <3>1. flow'[Cli].step \in {"idle", "request", "exchange"}
      BY <1>0, <1>5, <2>3 DEF Command, FirstConnected, ShowAuthorizationUrl,
         FinishAuth, AuthFinished, FailUnverified, SecondConnected,
         MarkConnected, Disconnect, StartEnrollment, KillCommand, Continue,
         Ends, At, Idle
    <3> QED
      BY <2>1, <3>1 DEF SavesTokens
  <2> QED
    BY <2>2, <2>3
<1>6. CASE \E f \in Calls : BeginCall(f) \/ EndCall(f)
  BY <1>0, <1>6 DEF BeginCall, EndCall, At, Idle, SavesTokens, Flows
<1>7. CASE StopWorker
  BY <1>0, <1>7 DEF StopWorker, Idle, SavesTokens
<1>8. \/ UNCHANGED flow
      \/ \E f \in Flows : Authorize(f)
      \/ Exchange
      \/ \E f \in Flows : RequestFails(f)
      \/ Command \/ StartEnrollment \/ KillCommand
      \/ \E f \in Calls : BeginCall(f) \/ EndCall(f)
      \/ StopWorker
  BY DEF Next, vars, ReceiveCallback, CallbackTimeout, Compose, StartWorker,
     ExpireToken
<1> QED
  BY <1>1, <1>2, <1>3, <1>4, <1>5, <1>6, <1>7, <1>8

\* The row keeps what it claims: a connected one is complete and was marked.
LEMMA ClaimsStable == IndInv /\ [Next]_vars => ConnectedIsComplete'
<1> SUFFICES ASSUME IndInv, [Next]_vars PROVE ConnectedIsComplete'
  OBVIOUS
<1> USE EnrollmentAssumption DEF IndInv, rows, command, provider,
        ConnectedIsComplete, Stored, Complete, None
<1>1. CASE UNCHANGED <<row, marked, worker>>
  BY <1>1
<1>2. CASE \E f \in Flows : Register(f) \/ Invalidate(f) \/ SaveTokens(f)
  <2>1. PICK f \in Flows : Register(f) \/ Invalidate(f) \/ SaveTokens(f)
    BY <1>2
  <2>2. UNCHANGED <<marked, worker>>
    BY <2>1 DEF Register, Invalidate, SaveTokens
  <2>3. CASE Register(f)
    BY <2>2, <2>3 DEF Register, WithClient
  <2>4. CASE Invalidate(f)
    BY <2>2, <2>4 DEF Invalidate
  <2>5. CASE SaveTokens(f)
    <3>1. flow[f].token # None
      BY <2>5 DEF SaveTokens, SavesTokens
    <3>2. row \in Rows \cup {NoRow}
      BY DEF TypeOK
    <3> QED
      BY <2>2, <2>5, <3>1, <3>2 DEF SaveTokens, Rows
  <2> QED
    BY <2>1, <2>3, <2>4, <2>5
<1>3. CASE Exchange
  BY <1>3 DEF Exchange
<1>4. CASE MarkConnected
  <2>1. row \in Rows
    BY <1>4 DEF MarkConnected, TypeOK
  <2> QED
    BY <1>4, <2>1 DEF MarkConnected, Ends, Rows
<1>5. CASE Disconnect
  BY <1>5 DEF Disconnect, Ends
<1>6. CASE Compose
  BY <1>6 DEF Compose, Verified
<1>7. CASE StartWorker
  BY <1>7 DEF StartWorker
<1>8. CASE StopWorker
  BY <1>8 DEF StopWorker
<1>9. \/ UNCHANGED <<row, marked, worker>>
      \/ \E f \in Flows : Register(f) \/ Invalidate(f) \/ SaveTokens(f)
      \/ Exchange \/ MarkConnected \/ Disconnect
      \/ Compose \/ StartWorker \/ StopWorker
  BY DEF Next, vars, Authorize, Request, LoadClient, LoadTokens, Renew,
     Redirect, Command, FirstConnected, ShowAuthorizationUrl, FinishAuth,
     AuthFinished, FailUnverified, SecondConnected, ToolsListed, Continue,
     Ends, StartEnrollment, ReceiveCallback, CallbackTimeout, BeginCall,
     EndCall, RequestFails, ExpireToken, KillCommand
<1> QED
  BY <1>1, <1>2, <1>3, <1>4, <1>5, <1>6, <1>7, <1>8, <1>9

\* The callback is settled by one of the timer, the browser and the cleanup.
LEMMA CallbackStable == IndInv /\ [Next]_vars => CallbackHonest'
<1> SUFFICES ASSUME IndInv, [Next]_vars PROVE CallbackHonest'
  OBVIOUS
<1> USE DEF IndInv, rows, command, provider, CallbackHonest
<1>1. CASE UNCHANGED <<received, settled, phase>>
  BY <1>1
<1>2. CASE StartEnrollment
  BY <1>2 DEF StartEnrollment
<1>3. CASE ReceiveCallback
  BY <1>3 DEF ReceiveCallback
<1>4. CASE CallbackTimeout
  BY <1>4 DEF CallbackTimeout
<1>5. CASE FailUnverified \/ MarkConnected \/ Disconnect \/ KillCommand
  <2>1. PICK how : Ends(how)
    BY <1>5 DEF FailUnverified, MarkConnected, Disconnect, KillCommand
  <2> QED
    BY <2>1 DEF Ends
<1>6. CASE FinishAuth
  BY <1>6 DEF FinishAuth, Continue
<1>7. CASE FirstConnected \/ ShowAuthorizationUrl \/ AuthFinished
           \/ SecondConnected \/ ToolsListed
  BY <1>7 DEF FirstConnected, ShowAuthorizationUrl, AuthFinished,
     SecondConnected, ToolsListed, Continue
<1>8. \/ UNCHANGED <<received, settled, phase>>
      \/ Command \/ StartEnrollment \/ ReceiveCallback \/ CallbackTimeout
      \/ KillCommand
  BY DEF Next, vars, Authorize, Request, LoadClient, Register, LoadTokens,
     Renew, Invalidate, SaveTokens, Redirect, Exchange, Compose, StartWorker,
     BeginCall, EndCall, RequestFails, ExpireToken, StopWorker
<1> QED
  BY <1>1, <1>2, <1>3, <1>4, <1>5, <1>6, <1>7, <1>8 DEF Command

\* A worker that is not up has no call under way.
LEMMA CallsStable == IndInv /\ [Next]_vars => CallsOfWorker'
<1> SUFFICES ASSUME IndInv, [Next]_vars, NEW g \in Calls, worker' # "up"
             PROVE  flow'[g] = Idle
  BY DEF CallsOfWorker
<1> USE DEF IndInv, rows, command, provider
<1>0. /\ g # Cli /\ g \in Flows
      /\ flow \in [Flows -> FlowStates]
  BY EnrollmentAssumption DEF TypeOK, Flows
<1>1. CASE StopWorker
  BY <1>0, <1>1 DEF StopWorker
<1>2. CASE ~StopWorker
  <2>1. worker # "up"
    BY <1>2 DEF Next, vars, Authorize, Request, LoadClient, Register,
       LoadTokens, Renew, Invalidate, SaveTokens, Redirect, Exchange, Command,
       FirstConnected, ShowAuthorizationUrl, FinishAuth, AuthFinished,
       FailUnverified, SecondConnected, ToolsListed, MarkConnected, Disconnect,
       Continue, Ends, StartEnrollment, ReceiveCallback, CallbackTimeout,
       Compose, StartWorker, BeginCall, EndCall, RequestFails, ExpireToken,
       KillCommand
  <2>2. flow[g].step = "idle" /\ flow[g] = Idle
    <3>1. flow[g] = Idle
      BY <2>1 DEF CallsOfWorker
    <3> QED
      BY <3>1 DEF Idle
  <2>3. CASE \E f \in Flows : Authorize(f) \/ RequestFails(f)
    <3>1. PICK f \in Flows : Authorize(f) \/ RequestFails(f)
      BY <2>3
    <3>2. f # g
      BY <2>2, <3>1 DEF Authorize, Request, LoadClient, Register, LoadTokens,
         Renew, Invalidate, SaveTokens, Redirect, RequestFails
    <3> QED
      BY <1>0, <2>2, <3>1, <3>2 DEF Authorize, Request, LoadClient, Register,
         LoadTokens, Renew, Invalidate, SaveTokens, Redirect, RequestFails,
         Go, GoWith
  <2>4. CASE Exchange
    BY <1>0, <2>2, <2>4 DEF Exchange, Go, GoWith
  <2>5. CASE Command \/ StartEnrollment \/ KillCommand
    BY <1>0, <2>2, <2>5 DEF Command, FirstConnected, ShowAuthorizationUrl,
       FinishAuth, AuthFinished, FailUnverified, SecondConnected, ToolsListed,
       MarkConnected, Disconnect, StartEnrollment, KillCommand, Continue, Ends
  <2>6. CASE \E f \in Calls : BeginCall(f) \/ EndCall(f)
    BY <1>0, <2>1, <2>2, <2>6 DEF BeginCall, EndCall
  <2>7. \/ UNCHANGED flow
        \/ \E f \in Flows : Authorize(f) \/ RequestFails(f)
        \/ Exchange
        \/ Command \/ StartEnrollment \/ KillCommand
        \/ \E f \in Calls : BeginCall(f) \/ EndCall(f)
    BY <1>2 DEF Next, vars, ReceiveCallback, CallbackTimeout, Compose,
       StartWorker, ExpireToken
  <2> QED
    BY <2>2, <2>3, <2>4, <2>5, <2>6, <2>7
<1> QED
  BY <1>1, <1>2

(***************************************************************************)
(* A run of the command that nothing disturbs.                             *)
(***************************************************************************)
\* What the first connection knows at each of its steps: a dead token is
\* renewed or deleted with its row, and the owner is asked for the client
\* that the row then has.
FirstOnItsWay(f) ==
  \/ f.step = "request" /\ ~f.retried
  \/ f.step = "client" /\ (f.retried => ~Stored)
  \/ f.step = "register" /\ ~Stored
  \/ f.step = "tokens" /\ Stored /\ row.client = f.client
                       /\ (f.retried => row.token = None)
  \/ f.step = "renew" /\ Stored /\ row.client = f.client /\ ~f.retried
  \/ f.step = "save" /\ Stored /\ ~f.retried
  \/ f.step = "redirect" /\ Stored /\ row.client = f.client
  \/ f.step = "failed" /\ Stored /\ row.client = asked
  \/ f.step = "done" /\ Token \in live

\* The exchange of the code, for the client it was asked for.
FinishOnItsWay(f) ==
  \/ f.step = "exchange" /\ Stored /\ row.client = asked
  \/ f.step = "save_exchanged" /\ Stored /\ f.token \in live
  \/ f.step = "done" /\ Token \in live

OnItsWay ==
  /\ worker = "down" /\ settled # "failed"
  /\ phase = "first" => FirstOnItsWay(flow[Cli])
  /\ phase = "waiting" =>
       flow[Cli].step = "idle" /\ Stored /\ row.client = asked
  /\ phase = "finish" => FinishOnItsWay(flow[Cli])
  /\ phase \in {"second", "tools"} =>
       flow[Cli].step \in {"request", "done"} /\ Token \in live
  /\ phase = "verified" =>
       flow[Cli].step = "done" /\ Token \in live

UndisturbedInv ==
  /\ UndisturbedRunConnects
  /\ phase # "off" /\ ~disturbed => OnItsWay

\* The authorization of an undisturbed run, in its first connection...
LEMMA FirstAuthorizes ==
  ASSUME IndInv, Authorize(Cli), phase = "first", FirstOnItsWay(flow[Cli])
  PROVE  FirstOnItsWay(flow[Cli])'
<1> DEFINE f == flow[Cli]
<1> USE DEF IndInv, rows, command, provider
<1>0. /\ f \in FlowStates /\ flow \in [Flows -> FlowStates] /\ Cli \in Flows
      /\ row \in Rows \cup {NoRow} /\ NoRow \notin Rows
  BY EnrollmentAssumption DEF TypeOK, Flows
<1>1. CASE Request(Cli)
  BY <1>0, <1>1 DEF Request, GoWith, FirstOnItsWay, Token, Stored, FlowStates
<1>2. CASE LoadClient(Cli)
  BY <1>0, <1>2
  DEF LoadClient, Go, FirstOnItsWay, Stored, FlowStates
<1>3. CASE Register(Cli)
  BY <1>0, <1>3
  DEF Register, FirstOnItsWay, Stored, FlowStates, WithClient, Rows, Token,
      None, TypeOK
<1>4. CASE LoadTokens(Cli)
  BY <1>0, <1>4
  DEF LoadTokens, GoWith, FirstOnItsWay, Stored, FlowStates, Token
<1>5. CASE Renew(Cli)
  BY <1>0, <1>5 DEF Renew, GoWith, FirstOnItsWay, Stored, FlowStates
<1>6. CASE Invalidate(Cli)
  BY <1>0, <1>6 DEF Invalidate, Go, FirstOnItsWay, Stored, FlowStates
<1>7. CASE SaveTokens(Cli)
  BY <1>0, <1>7 DEF SaveTokens, Go, FirstOnItsWay, Stored, FlowStates, Rows
<1>8. CASE Redirect(Cli)
  BY <1>0, <1>8 DEF Redirect, Go, FirstOnItsWay, Stored, FlowStates
<1> QED
  BY <1>1, <1>2, <1>3, <1>4, <1>5, <1>6, <1>7, <1>8 DEF Authorize

\* ... and afterwards, when its token is alive.
LEMMA LaterAuthorizes ==
  ASSUME IndInv, Authorize(Cli), phase # "first", phase # "off", OnItsWay
  PROVE  OnItsWay'
<1> USE DEF IndInv, rows, command, provider
<1>0. /\ flow[Cli] \in FlowStates /\ flow \in [Flows -> FlowStates]
      /\ Cli \in Flows /\ row \in Rows \cup {NoRow} /\ NoRow \notin Rows
  BY EnrollmentAssumption DEF TypeOK, Flows
<1>1. \/ phase = "finish" /\ SaveTokens(Cli)
      \/ phase \in {"second", "tools"} /\ Request(Cli)
  BY DEF OnItsWay, FinishOnItsWay, Authorize, Request, LoadClient, Register,
     LoadTokens, Renew, Invalidate, SaveTokens, Redirect, TypeOK
<1>2. CASE phase = "finish" /\ SaveTokens(Cli)
  BY <1>0, <1>2
  DEF SaveTokens, Go, OnItsWay, FinishOnItsWay, Stored, Token, Rows, FlowStates
<1>3. CASE phase \in {"second", "tools"} /\ Request(Cli)
  BY <1>0, <1>3 DEF Request, GoWith, OnItsWay, Stored, Token, FlowStates
<1> QED
  BY <1>1, <1>2, <1>3

LEMMA ExchangeOnItsWay ==
  ASSUME IndInv, Exchange, phase # "off", OnItsWay
  PROVE  OnItsWay'
<1> USE DEF IndInv, rows, command, provider
<1>0. /\ flow[Cli] \in FlowStates /\ flow \in [Flows -> FlowStates]
      /\ Cli \in Flows
  BY DEF TypeOK, Flows
<1>1. phase = "finish" /\ Stored /\ row.client = asked
  BY DEF OnItsWay, FirstOnItsWay, FinishOnItsWay, Exchange, TypeOK
<1>2. /\ live' = live \cup {Len(owner) + 1}
      /\ flow' = [flow EXCEPT ![Cli].step = "save_exchanged",
                              ![Cli].token = Len(owner) + 1]
      /\ UNCHANGED <<row, phase, settled, worker, asked>>
  BY <1>1 DEF Exchange, Issue, GoWith
<1>3. flow'[Cli].step = "save_exchanged" /\ flow'[Cli].token = Len(owner) + 1
  BY <1>0, <1>2 DEF FlowStates
<1> QED
  BY <1>1, <1>2, <1>3 DEF OnItsWay, FinishOnItsWay, Stored

\* The steps of an undisturbed command: none of them fails.
LEMMA CommandOnItsWay ==
  ASSUME IndInv, Command, phase # "off", OnItsWay
  PROVE  /\ outcome' # "failed" \/ outcome' = outcome
         /\ phase' # "off" => OnItsWay'
<1> USE DEF IndInv, rows, command, provider
<1>0. /\ flow[Cli] \in FlowStates /\ flow \in [Flows -> FlowStates]
      /\ Cli \in Flows /\ row \in Rows \cup {NoRow} /\ None \notin live
  BY DEF TypeOK, Flows, None
<1>1. Stored => row.client # None
  BY <1>0 DEF Stored, Rows
<1>2. Token \in live => Complete
  BY <1>0, <1>1 DEF Complete, Token
<1>3. ~FailUnverified
  BY <1>1 DEF FailUnverified, OnItsWay, FirstOnItsWay, FinishOnItsWay
<1>4. ~Disconnect
  BY <1>2 DEF Disconnect, OnItsWay
<1>5. CASE FirstConnected \/ AuthFinished \/ SecondConnected
  <2>1. PICK next \in {"second", "tools"} : Continue(next, "request")
    BY <1>5 DEF FirstConnected, AuthFinished, SecondConnected
  <2>2. Token \in live
    BY <1>5
    DEF FirstConnected, AuthFinished, SecondConnected, OnItsWay, FirstOnItsWay,
        FinishOnItsWay
  <2>3. flow'[Cli].step = "request"
    BY <1>0, <2>1 DEF Continue, At, Idle
  <2> QED
    BY <2>1, <2>2, <2>3 DEF Continue, OnItsWay, Token, Stored
<1>6. CASE ShowAuthorizationUrl
  <2>1. flow'[Cli].step = "idle" /\ Stored /\ row.client = asked
    BY <1>0, <1>6
    DEF ShowAuthorizationUrl, Continue, At, Idle, OnItsWay, FirstOnItsWay
  <2> QED
    BY <1>6, <2>1 DEF ShowAuthorizationUrl, Continue, OnItsWay, Stored
<1>7. CASE FinishAuth
  <2>1. flow'[Cli].step = "exchange" /\ Stored /\ row.client = asked
    BY <1>0, <1>7 DEF FinishAuth, Continue, At, Idle, OnItsWay
  <2> QED
    BY <1>7, <2>1
    DEF FinishAuth, Continue, OnItsWay, FinishOnItsWay, Stored
<1>8. CASE ToolsListed
  BY <1>8 DEF ToolsListed, OnItsWay, Token, Stored
<1>9. CASE MarkConnected
  BY <1>9 DEF MarkConnected, Ends
<1> QED
  BY <1>3, <1>4, <1>5, <1>6, <1>7, <1>8, <1>9 DEF Command

LEMMA UndisturbedStable ==
  IndInv /\ UndisturbedInv /\ [Next]_vars => UndisturbedInv'
<1> SUFFICES ASSUME IndInv, UndisturbedInv, [Next]_vars, ~disturbed'
             PROVE  outcome' # "failed" /\ (phase' # "off" => OnItsWay')
  BY DEF UndisturbedInv, UndisturbedRunConnects
<1> USE DEF rows, command, provider
<1>1. CASE StartEnrollment
  <2>1. worker = "down"
    BY <1>1 DEF StartEnrollment
  <2>2. flow'[Cli].step = "request" /\ flow'[Cli].retried = FALSE
    BY <1>1 DEF StartEnrollment, IndInv, TypeOK, Flows, At, Idle
  <2> QED
    BY <1>1, <2>1, <2>2 DEF StartEnrollment, OnItsWay, FirstOnItsWay
<1>2. CASE ~StartEnrollment
  <2>1. ~disturbed
    BY <1>2
    DEF Next, vars, Authorize, Request, LoadClient, Register, LoadTokens,
        Renew, Invalidate, SaveTokens, Redirect, Exchange, Command,
        FirstConnected, ShowAuthorizationUrl, FinishAuth, AuthFinished,
        FailUnverified, SecondConnected, ToolsListed, MarkConnected,
        Disconnect, Continue, ReceiveCallback, CallbackTimeout,
        Compose, StartWorker, BeginCall, EndCall, RequestFails, ExpireToken,
        KillCommand, StopWorker, Fault
  <2>2. outcome # "failed" /\ (phase # "off" => OnItsWay)
    BY <2>1 DEF UndisturbedInv, UndisturbedRunConnects
  <2>3. CASE phase = "off"
    <3>1. UNCHANGED <<phase, outcome>>
      BY <1>2, <2>3
      DEF Next, vars, Authorize, Request, LoadClient, Register, LoadTokens,
          Renew, Invalidate, SaveTokens, Redirect, Exchange, Command,
          FirstConnected, ShowAuthorizationUrl, FinishAuth, AuthFinished,
          FailUnverified, SecondConnected, ToolsListed, MarkConnected,
          Disconnect, ReceiveCallback, CallbackTimeout, Compose, StartWorker,
          BeginCall, EndCall, RequestFails, ExpireToken, KillCommand,
          StopWorker
    <3> QED
      BY <2>2, <2>3, <3>1
  <2>4. CASE phase # "off"
    <3>0. /\ OnItsWay /\ worker = "down"
          /\ \A f \in Calls : flow[f] = Idle /\ flow[f].step = "idle"
      <4>1. \A f \in Calls : flow[f] = Idle
        BY <2>2, <2>4 DEF OnItsWay, IndInv, CallsOfWorker
      <4>2. Idle.step = "idle"
        BY DEF Idle
      <4> QED
        BY <2>2, <2>4, <4>1, <4>2 DEF OnItsWay
    <3>1. CASE \E f \in Flows : Authorize(f)
      <4>1. Authorize(Cli)
        BY <3>0, <3>1
        DEF Flows, Authorize, Request, LoadClient, Register, LoadTokens, Renew,
            Invalidate, SaveTokens, Redirect
      <4>2. UNCHANGED <<phase, settled, outcome, worker>>
        BY <4>1
        DEF Authorize, Request, LoadClient, Register, LoadTokens, Renew,
            Invalidate, SaveTokens, Redirect
      <4>3. OnItsWay'
        <5>1. CASE phase = "first"
          BY <3>0, <4>1, <4>2, <5>1, FirstAuthorizes DEF OnItsWay
        <5>2. CASE phase # "first"
          BY <2>4, <3>0, <4>1, <5>2, LaterAuthorizes
        <5> QED
          BY <5>1, <5>2
      <4> QED
        BY <2>2, <4>2, <4>3
    <3>2. CASE Exchange
      BY <2>2, <2>4, <3>0, <3>2, ExchangeOnItsWay DEF Exchange
    <3>3. CASE Command
      BY <2>2, <2>4, <3>0, <3>3, CommandOnItsWay
    <3>4. CASE ReceiveCallback
      BY <2>2, <3>0, <3>4 DEF ReceiveCallback, OnItsWay, Token, Stored
    <3>5. CASE UNCHANGED vars
      BY <2>2, <3>0, <3>5
      DEF vars, OnItsWay, FirstOnItsWay, FinishOnItsWay, Token, Stored
    <3>6. \/ \E f \in Flows : Authorize(f)
          \/ Exchange \/ Command \/ ReceiveCallback \/ UNCHANGED vars
      BY <1>2, <3>0
      DEF Next, CallbackTimeout, Compose, StartWorker, BeginCall, EndCall,
          RequestFails, ExpireToken, KillCommand, StopWorker, Fault
    <3> QED
      BY <3>1, <3>2, <3>3, <3>4, <3>5, <3>6
  <2> QED
    BY <2>3, <2>4
<1> QED
  BY <1>1, <1>2

(***************************************************************************)
(* The theorems.                                                           *)
(***************************************************************************)
\* The strengthened invariant holds in every reachable state.
THEOREM Invariance == Spec => []IndInv
<1>1. IndInv /\ [Next]_vars => IndInv'
  BY TypesStable, ClaimsStable, CallbackStable, CallsStable, SavesStable
  DEF IndInv
<1> QED
  BY Initially, <1>1, PTL DEF Spec

\* Rows, flows, tokens and the command's state are always of their types.
THEOREM TypeCorrectness == Spec => []TypeOK
<1>1. IndInv => TypeOK
  BY DEF IndInv
<1> QED
  BY Invariance, <1>1, PTL

\* A row that says it is connected is complete and was marked by a run that
\* had listed the tools, and no worker runs without such a run.
THEOREM ConnectedSound == Spec => []ConnectedIsComplete
<1>1. IndInv => ConnectedIsComplete
  BY DEF IndInv
<1> QED
  BY Invariance, <1>1, PTL

\* The browser is told the truth about the code it brought.
THEOREM CallbackSound == Spec => []CallbackHonest
<1>1. IndInv => CallbackHonest
  BY DEF IndInv
<1> QED
  BY Invariance, <1>1, PTL

\* Whatever the row holds when a run of the command begins, the run connects
\* unless something disturbs it: a fault, a timeout, a kill or a worker.
THEOREM UndisturbedConnects == Spec => []UndisturbedRunConnects
<1>1. Init => UndisturbedInv
  BY DEF Init, UndisturbedInv, UndisturbedRunConnects
<1>2. UndisturbedInv => UndisturbedRunConnects
  BY DEF UndisturbedInv
<1> QED
  BY Invariance, UndisturbedStable, <1>1, <1>2, PTL DEF Spec
=============================================================================
